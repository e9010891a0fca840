------------------------------ MODULE LruCache ------------------------------
(***************************************************************************)
(* The caches of common/container: LruCache, and the two types that are    *)
(* built on it, ShardLruCache (one LruCache per shard) and LruCache2Q (a   *)
(* first-in first-out queue in front of one LruCache).  Every operation    *)
(* holds the lock of its cache from its first to its last access and is    *)
(* one action; the clock moves between operations.  Get of LruCache2Q      *)
(* reads it twice, and ShardLruCache.Put before the lock is taken: the     *)
(* time that passes inside an operation is taken to be none.               *)
(*                                                                         *)
(* A value is 0 or 1, and each Put of a key stores the value that the Put  *)
(* before it did not: a stale value is told from the latest one.           *)
(***************************************************************************)
EXTENDS Integers, Sequences, FiniteSets, Functions

CONSTANTS
  Keys,
  Hashes,       \* hash functions, Keys -> Int: the default and SetHashFunc's
  ShardCount,
  Capacity,     \* of an LruCache, and of the queue of LruCache2Q
  Expirations,  \* the durations the constructors may be given
  ExpireAts,    \* the expireAt that LruCache.Put may be given
  MaxTime       \* bound: the latest time

ASSUME CacheAssumption ==
  /\ Hashes \subseteq [Keys -> Int]
  /\ ShardCount \in Nat \ {0}
  /\ Capacity \in Nat \ {0}
  /\ Expirations \subseteq Nat
  /\ ExpireAts \subseteq Int
  /\ MaxTime \in Nat

Shards == 0..(ShardCount - 1)

VARIABLES
  kind,        \* which type it is: "Lru", "Shard" or "2Q"
  expiration,  \* the duration entries are valid for; LruCache has none
  hash,        \* hashFunc of ShardLruCache
  shards,      \* the LruCaches; LruCache and LruCache2Q have the first one only
  fifo,        \* fifoQueue of LruCache2Q, its front first
  clock,       \* time.Now(), never 0
  latest,      \* the value of the last Put of each key
  putAt,       \* the time of the last Put of each key, 0 when removed since
  until,       \* the time that Put lets it live to: its expireAt, <= 0 for ever
  recent,      \* the keys, the one last put or hit first
  result       \* what the last operation returned, if it was a Get that hit

configVars == <<kind, expiration, hash>>
vars == <<configVars, shards, fifo, clock, latest, putAt, until, recent, result>>

NoHit == [key |-> CHOOSE k \in Keys : TRUE, val |-> -1]

-----------------------------------------------------------------------------
(* LruCache: list holds the entries, the front first; index is the domain  *)
(* of indexMap.  put, get and remove are called with the lock held.        *)

\* s without the element at i, and with e in front of it: list.Remove and
\* list.PushFront.
RemoveElement(s, i) == [j \in 1..(Len(s) - 1) |-> IF j < i THEN s[j] ELSE s[j + 1]]
PushFront(s, e) == <<e>> \o s

KeysOf(s) == {s[i].key : i \in DOMAIN s}
Element(s, k) == CHOOSE i \in DOMAIN s : s[i].key = k
Find(s, k) == s[Element(s, k)]
Without(s, k) == IF k \in KeysOf(s) THEN RemoveElement(s, Element(s, k)) ELSE s

DropLast(s) == SubSeq(s, 1, Len(s) - 1)

Empty == [list |-> <<>>, index |-> {}]

\* Faulty variant: the entry at the front is evicted.
evictFront(c) == [list |-> Tail(c.list), index |-> c.index \ {Head(c.list).key}]

\* The entry at the back is evicted.
evict(c) ==
  [list |-> DropLast(c.list), index |-> c.index \ {c.list[Len(c.list)].key}]

put(c, e) ==
  IF e.key \in c.index
  THEN [c EXCEPT !.list = PushFront(Without(c.list, e.key), e)]
  ELSE LET d == IF Cardinality(c.index) >= Capacity THEN evict(c) ELSE c
       IN [list |-> PushFront(d.list, e), index |-> d.index \cup {e.key}]

\* Faulty variant: an entry is served at the moment it expires.
LiveLate(c, k) ==
  k \in c.index /\ (Find(c.list, k).exp <= 0 \/ clock <= Find(c.list, k).exp)

\* get finds k, and it has not expired.
Live(c, k) ==
  k \in c.index /\ (Find(c.list, k).exp <= 0 \/ clock < Find(c.list, k).exp)

remove(c, k) ==
  IF k \in c.index
  THEN [list |-> Without(c.list, k), index |-> c.index \ {k}]
  ELSE c

\* What get leaves: the entry moves to the front, or is deleted if expired.
get(c, k) ==
  IF Live(c, k)
  THEN [c EXCEPT !.list = PushFront(Without(c.list, k), Find(c.list, k))]
  ELSE remove(c, k)

-----------------------------------------------------------------------------
Init ==
  /\ kind \in {"Lru", "Shard", "2Q"}
  /\ expiration \in Expirations
  /\ hash \in Hashes
  /\ shards = [i \in Shards |-> Empty]
  /\ fifo = <<>>
  /\ clock = 1
  /\ latest = [k \in Keys |-> 0]
  /\ putAt = [k \in Keys |-> 0]
  /\ until = [k \in Keys |-> 0]
  /\ recent = <<>>
  /\ result = NoHit

Tick ==
  /\ clock < MaxTime
  /\ clock' = clock + 1
  /\ result' = NoHit
  /\ UNCHANGED <<configVars, shards, fifo, latest, putAt, until, recent>>

\* The remainder of Go has the sign of the dividend.
Rem(a, n) == IF a < 0 THEN -((-a) % n) ELSE a % n

getShard(k) ==
  LET i == Rem(hash[k], ShardCount)
  IN IF i < 0 THEN -i ELSE i

\* 0 stands for "does not expire".
ExpireAt == IF expiration > 0 THEN clock + expiration ELSE 0

\* recent with k in front of the others.
Place(s, k) == CHOOSE i \in DOMAIN s : s[i] = k
Touched(k) ==
  PushFront(IF k \in Range(recent) THEN RemoveElement(recent, Place(recent, k))
            ELSE recent, k)

\* What an operation does to the rest: a Put of k to live until exp, a Get of k
\* that returns v, a Get that does not hit, a Remove of k.
Stores(k, exp) ==
  /\ latest' = [latest EXCEPT ![k] = 1 - @]
  /\ putAt' = [putAt EXCEPT ![k] = clock]
  /\ until' = [until EXCEPT ![k] = exp]
  /\ recent' = Touched(k)
  /\ result' = NoHit
  /\ UNCHANGED <<configVars, clock>>

Hits(k, v) ==
  /\ recent' = Touched(k)
  /\ result' = [key |-> k, val |-> v]
  /\ UNCHANGED <<configVars, clock, latest, putAt, until>>

Misses ==
  /\ result' = NoHit
  /\ UNCHANGED <<configVars, clock, latest, putAt, until, recent>>

Removes(k) ==
  /\ putAt' = [putAt EXCEPT ![k] = 0]
  /\ result' = NoHit
  /\ UNCHANGED <<configVars, clock, latest, until, recent>>

NewEntry(k, exp) == [key |-> k, val |-> 1 - latest[k], exp |-> exp]

-----------------------------------------------------------------------------
(* LruCache, and ShardLruCache, which passes the call on to one of them    *)

\* The LruCache that holds k.
Home(k) == IF kind = "Shard" THEN getShard(k) ELSE 0

\* SetHashFunc takes no lock and moves no entry: it is called first of all, as
\* long as the cache is empty.
SetHashFunc(h) ==
  /\ kind = "Shard"
  /\ \A i \in Shards : shards[i] = Empty
  /\ hash' = h
  /\ result' = NoHit
  /\ UNCHANGED <<kind, expiration, shards, fifo, clock, latest, putAt, until, recent>>

\* The caller of LruCache.Put chooses expireAt, ShardLruCache computes it.
PutExpireAts == IF kind = "Lru" THEN ExpireAts ELSE {ExpireAt}

Put(k, exp) ==
  /\ kind # "2Q"
  /\ shards' = [shards EXCEPT ![Home(k)] = put(@, NewEntry(k, exp))]
  /\ Stores(k, exp)
  /\ UNCHANGED fifo

GetHit(k) ==
  LET c == shards[Home(k)]
  IN /\ kind # "2Q"
     /\ Live(c, k)
     /\ shards' = [shards EXCEPT ![Home(k)] = get(c, k)]
     /\ Hits(k, Find(c.list, k).val)
     /\ UNCHANGED fifo

GetMiss(k) ==
  LET c == shards[Home(k)]
  IN /\ kind # "2Q"
     /\ ~Live(c, k)
     /\ shards' = [shards EXCEPT ![Home(k)] = get(c, k)]
     /\ Misses
     /\ UNCHANGED fifo

Remove(k) ==
  /\ kind # "2Q"
  /\ shards' = [shards EXCEPT ![Home(k)] = remove(@, k)]
  /\ Removes(k)
  /\ UNCHANGED fifo

-----------------------------------------------------------------------------
(* LruCache2Q *)

lru == shards[0]
SetLru(c) == shards' = [shards EXCEPT ![0] = c]

\* A promotion may renew an entry once.
Lease == IF expiration > 0 THEN clock + 2 * expiration ELSE 0

\* Put finds the key in the LruCache.
PutHit(k) ==
  /\ kind = "2Q"
  /\ Live(lru, k)
  /\ SetLru(put(get(lru, k), NewEntry(k, clock + expiration)))
  /\ Stores(k, Lease)
  /\ UNCHANGED fifo

\* Faulty variant: the entry stays in the queue.
PutPromoteKeeps(k) ==
  /\ kind = "2Q"
  /\ ~Live(lru, k) /\ k \in KeysOf(fifo)
  /\ SetLru(put(get(lru, k), NewEntry(k, Find(fifo, k).exp + expiration)))
  /\ Stores(k, Lease)
  /\ UNCHANGED fifo

\* Put finds the key in the queue, whether expired or not.
PutPromote(k) ==
  /\ kind = "2Q"
  /\ ~Live(lru, k) /\ k \in KeysOf(fifo)
  /\ SetLru(put(get(lru, k), NewEntry(k, Find(fifo, k).exp + expiration)))
  /\ fifo' = Without(fifo, k)
  /\ Stores(k, Lease)

\* Put finds it in neither.
PutFirst(k) ==
  /\ kind = "2Q"
  /\ ~Live(lru, k) /\ k \notin KeysOf(fifo)
  /\ SetLru(get(lru, k))
  /\ fifo' = PushFront(IF Len(fifo) >= Capacity THEN DropLast(fifo) ELSE fifo,
                       NewEntry(k, ExpireAt))
  /\ Stores(k, Lease)

GetHit2Q(k) ==
  /\ kind = "2Q"
  /\ Live(lru, k)
  /\ SetLru(get(lru, k))
  /\ Hits(k, Find(lru.list, k).val)
  /\ UNCHANGED fifo

FifoExpired(k) == Find(fifo, k).exp > 0 /\ clock >= Find(fifo, k).exp

GetExpired(k) ==
  /\ kind = "2Q"
  /\ ~Live(lru, k) /\ k \in KeysOf(fifo) /\ FifoExpired(k)
  /\ SetLru(get(lru, k))
  /\ fifo' = Without(fifo, k)
  /\ Misses

GetPromote(k) ==
  LET e == Find(fifo, k)
  IN /\ kind = "2Q"
     /\ ~Live(lru, k) /\ k \in KeysOf(fifo) /\ ~FifoExpired(k)
     /\ SetLru(put(get(lru, k), [e EXCEPT !.exp = ExpireAt]))
     /\ fifo' = Without(fifo, k)
     /\ Hits(k, e.val)

GetMiss2Q(k) ==
  /\ kind = "2Q"
  /\ ~Live(lru, k) /\ k \notin KeysOf(fifo)
  /\ SetLru(get(lru, k))
  /\ Misses
  /\ UNCHANGED fifo

Remove2Q(k) ==
  /\ kind = "2Q"
  /\ SetLru(remove(lru, k))
  /\ fifo' = Without(fifo, k)
  /\ Removes(k)

-----------------------------------------------------------------------------
LruStep(k) ==
  \/ \E exp \in PutExpireAts : Put(k, exp)
  \/ GetHit(k) \/ GetMiss(k) \/ Remove(k)

Step2Q(k) ==
  \/ PutHit(k) \/ PutPromote(k) \/ PutFirst(k)
  \/ GetHit2Q(k) \/ GetExpired(k) \/ GetPromote(k) \/ GetMiss2Q(k)
  \/ Remove2Q(k)

Next ==
  \/ Tick
  \/ \E h \in Hashes : SetHashFunc(h)
  \/ \E k \in Keys : LruStep(k) \/ Step2Q(k)

Spec == Init /\ [][Next]_vars

-----------------------------------------------------------------------------
(* Properties *)

Entries == [key : Keys, val : {0, 1}, exp : Int]
Caches == [list : Seq(Entries), index : SUBSET Keys]

\* Every variable has its type.
TypeOK ==
  /\ kind \in {"Lru", "Shard", "2Q"} /\ expiration \in Expirations /\ hash \in Hashes
  /\ shards \in [Shards -> Caches] /\ fifo \in Seq(Entries)
  /\ clock \in Nat \ {0}
  /\ latest \in [Keys -> {0, 1}]
  /\ putAt \in [Keys -> Nat] /\ until \in [Keys -> Int]
  /\ recent \in Seq(Keys)
  /\ result \in {NoHit} \cup [key : Keys, val : {0, 1}]

Distinct(s) == \A i, j \in DOMAIN s : s[i].key = s[j].key => i = j

\* indexMap and the list of every LruCache hold the same keys, each once and
\* in the shard where getShard looks for it, and neither they nor the queue
\* of LruCache2Q grow over the capacity; no key is in the queue twice, nor in
\* the queue and the LruCache at once: an entry left behind by a promotion
\* would come back later with an old value.
Consistent ==
  /\ \A i \in DOMAIN shards :
       /\ i \in Shards
       /\ shards[i].index = KeysOf(shards[i].list)
       /\ Distinct(shards[i].list) /\ Len(shards[i].list) <= Capacity
       /\ \A k \in shards[i].index : Home(k) = i
  /\ Distinct(fifo) /\ Len(fifo) <= Capacity
  /\ KeysOf(fifo) \cap shards[0].index = {}
  /\ kind # "2Q" => fifo = <<>>

\* A Get that hits returns the value of the last Put of its key, which has not
\* been removed since, and not after its time: LruCache serves a value until
\* the expireAt of its Put, ShardLruCache for less than the duration it was
\* given, LruCache2Q for less than twice that (a promotion renews it once).
\* With an expireAt or a duration of 0 it may stay.
HitIsRight ==
  result # NoHit =>
    LET k == result.key
    IN /\ result.val = latest[k]
       /\ putAt[k] > 0
       /\ until[k] > 0 => clock < until[k]

\* The entry evicted from a full LruCache is the least recently used one: a
\* key that was put, not removed and not expired, but is gone, was used before
\* every key its LruCache still holds.
EvictsOldest ==
  LET Evicted(k) == /\ putAt[k] > 0
                    /\ until[k] <= 0 \/ clock < until[k]
                    /\ k \notin shards[Home(k)].index
        Pos(k) == Place(recent, k)
  IN kind # "2Q" =>
       \A k \in Keys : Evicted(k) =>
         \A j \in shards[Home(k)].index : Pos(j) < Pos(k)

=============================================================================
