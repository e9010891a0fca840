--------------------------- MODULE LruCacheProofs ---------------------------
(***************************************************************************)
(* Proofs about module LruCache: for any keys, hash functions, number of   *)
(* shards, capacity and durations.                                         *)
(*                                                                         *)
(* A cache is looked at through the keys and the entries of its list and   *)
(* the order of the keys in it; the lemmas of the first parts say what     *)
(* list.Remove, list.PushFront, put, get and remove do to these.  The      *)
(* inductive invariant is Inv, the properties with                         *)
(*   ValueInv   what every entry says of the last Put of its key;          *)
(*   RecentInv  every key that was put has its place in recent;            *)
(*   OrderInv   the list of an LruCache is in the order of recent;         *)
(*   EvictInv   EvictsOldest, with the places as a function of the key.    *)
(***************************************************************************)
EXTENDS LruCache, SequenceTheorems, FiniteSetTheorems, TLAPS

USE CacheAssumption DEF CacheAssumption

-----------------------------------------------------------------------------
(* Sequences of entries                                                    *)

\* A function on 1..n is a sequence of n elements.
LEMMA SeqOfFunction ==
    ASSUME NEW S, NEW n \in Nat, NEW t \in [1..n -> S]
    PROVE  t \in Seq(S) /\ Len(t) = n
  BY SeqDef

\* list.Remove keeps the other elements, in their order.
LEMMA RemoveElements ==
    ASSUME NEW S, NEW s \in Seq(S), NEW i \in 1..Len(s)
    PROVE  /\ RemoveElement(s, i) \in Seq(S)
           /\ Len(RemoveElement(s, i)) = Len(s) - 1
           /\ \A j \in 1..(Len(s) - 1) :
                RemoveElement(s, i)[j] = IF j < i THEN s[j] ELSE s[j + 1]
  <1> DEFINE t == RemoveElement(s, i)
  <1>1. Len(s) \in Nat /\ i \in Nat /\ Len(s) >= 1
    BY LenProperties
  <1>2. \A j \in 1..(Len(s) - 1) : (IF j < i THEN s[j] ELSE s[j + 1]) \in S
    BY <1>1
  <1>3. t \in [1..(Len(s) - 1) -> S]
    BY <1>2 DEF RemoveElement
  <1>4. Len(s) - 1 \in Nat
    BY <1>1
  <1>5. t \in Seq(S) /\ Len(t) = Len(s) - 1
    <2> DEFINE n == Len(s) - 1
    <2>1. n \in Nat /\ t \in [1..n -> S]
      BY <1>3, <1>4
    <2> HIDE DEF n, t
    <2>2. t \in Seq(S) /\ Len(t) = n
      BY ONLY <2>1, SeqOfFunction
    <2> QED
      BY ONLY <2>2 DEF n
  <1>6. \A j \in 1..(Len(s) - 1) : t[j] = IF j < i THEN s[j] ELSE s[j + 1]
    BY DEF RemoveElement
  <1>7. QED
    BY <1>5, <1>6

\* s is in the order of the ranks p of its keys.
Ordered(s, p) == \A i, j \in DOMAIN s : i < j => p[s[i].key] < p[s[j].key]

\* A key of s has its element, which Find returns.
LEMMA FindFacts ==
    ASSUME NEW s \in Seq(Entries), NEW k \in KeysOf(s)
    PROVE  /\ Element(s, k) \in 1..Len(s) /\ s[Element(s, k)].key = k
           /\ Find(s, k) \in Range(s) /\ Find(s, k).key = k
           /\ Find(s, k) \in Entries /\ k \in Keys
  <1>1. PICK i \in DOMAIN s : s[i].key = k
    BY DEF KeysOf
  <1>2. Element(s, k) \in DOMAIN s /\ s[Element(s, k)].key = k
    BY <1>1 DEF Element
  <1>3. DOMAIN s = 1..Len(s) /\ s[Element(s, k)] \in Entries
    BY <1>2
  <1>4. s[Element(s, k)] \in Range(s)
    BY <1>2 DEF Range
  <1> QED
    BY <1>2, <1>3, <1>4 DEF Find, Entries

\* The keys of s are those of its elements.
LEMMA KeysOfEntries ==
    ASSUME NEW s \in Seq(Entries)
    PROVE  /\ KeysOf(s) \subseteq Keys /\ Range(s) \subseteq Entries
           /\ \A e \in Range(s) : e.key \in KeysOf(s)
           /\ \A k \in KeysOf(s) : \E e \in Range(s) : e.key = k
  <1>1. DOMAIN s = 1..Len(s) /\ \A i \in DOMAIN s : s[i] \in Entries
    OBVIOUS
  <1> QED
    BY <1>1 DEF KeysOf, Range, Entries

\* An operation on s that takes elements away and leaves t, whose element at j
\* was at f[j] before.
LEMMA SubsequenceFacts ==
    ASSUME NEW s \in Seq(Entries), NEW t \in Seq(Entries),
           NEW f \in [1..Len(t) -> 1..Len(s)],
           \A j \in 1..Len(t) : t[j] = s[f[j]],
           \A i, j \in 1..Len(t) : i < j => f[i] < f[j],
           Distinct(s)
    PROVE  /\ Distinct(t) /\ Range(t) \subseteq Range(s)
           /\ \A x : x \in KeysOf(t) <=> \E j \in 1..Len(t) : x = s[f[j]].key
           /\ \A p \in [Keys -> Int] : Ordered(s, p) => Ordered(t, p)
  <1>1. DOMAIN s = 1..Len(s) /\ DOMAIN t = 1..Len(t) /\ Len(s) \in Nat /\ Len(t) \in Nat
    OBVIOUS
  <1>2. Distinct(t)
    <2> SUFFICES ASSUME NEW i \in 1..Len(t), NEW j \in 1..Len(t), t[i].key = t[j].key
                 PROVE  i = j
      BY <1>1 DEF Distinct
    <2>1. f[i] \in 1..Len(s) /\ f[j] \in 1..Len(s)
      OBVIOUS
    <2>2. s[f[i]].key = s[f[j]].key
      OBVIOUS
    <2>3. f[i] = f[j]
      BY <2>1, <2>2, <1>1 DEF Distinct
    <2>4. ~(i < j) /\ ~(j < i)
      BY <2>1, <2>3
    <2> QED
      BY <2>4, <1>1
  <1>3. Range(t) \subseteq Range(s)
    BY <1>1 DEF Range
  <1>4. \A x : x \in KeysOf(t) <=> \E j \in 1..Len(t) : x = s[f[j]].key
    <2>1. \A x : x \in KeysOf(t) <=> \E j \in 1..Len(t) : x = t[j].key
      BY <1>1 DEF KeysOf
    <2> QED
      BY <2>1
  <1>5. ASSUME NEW p \in [Keys -> Int], Ordered(s, p)
        PROVE  Ordered(t, p)
    BY <1>1, <1>5 DEF Ordered
  <1> QED
    BY <1>2, <1>3, <1>4, <1>5

\* s without its element under k.
LEMMA WithoutFacts ==
    ASSUME NEW s \in Seq(Entries), Distinct(s), NEW k \in Keys
    PROVE  /\ Without(s, k) \in Seq(Entries) /\ Distinct(Without(s, k))
           /\ Range(Without(s, k)) \subseteq Range(s)
           /\ KeysOf(Without(s, k)) = KeysOf(s) \ {k}
           /\ Len(Without(s, k)) = IF k \in KeysOf(s) THEN Len(s) - 1 ELSE Len(s)
           /\ \A p \in [Keys -> Int] : Ordered(s, p) => Ordered(Without(s, k), p)
  <1>1. CASE k \notin KeysOf(s)
    BY <1>1 DEF Without
  <1>2. CASE k \in KeysOf(s)
    <2> DEFINE m == Element(s, k)
               t == RemoveElement(s, m)
               f == [j \in 1..Len(t) |-> IF j < m THEN j ELSE j + 1]
    <2>1. Without(s, k) = t
      BY <1>2 DEF Without
    <2>2. m \in 1..Len(s) /\ s[m].key = k /\ Len(s) \in Nat /\ DOMAIN s = 1..Len(s)
      BY <1>2, FindFacts
    <2> HIDE DEF m
    <2>3. /\ t \in Seq(Entries) /\ Len(t) = Len(s) - 1
          /\ \A j \in 1..(Len(s) - 1) : t[j] = IF j < m THEN s[j] ELSE s[j + 1]
      BY <2>2, RemoveElements
    <2> HIDE DEF t
    <2>4. f \in [1..Len(t) -> 1..Len(s)]
      BY <2>2, <2>3
    <2>5. \A j \in 1..Len(t) : t[j] = s[f[j]]
      BY <2>2, <2>3
    <2>6. \A i, j \in 1..Len(t) : i < j => f[i] < f[j]
      BY <2>2, <2>3
    <2>7. \A i \in 1..Len(s) : i # m <=> \E j \in 1..Len(t) : f[j] = i
      <3>1. \A i \in 1..Len(s) : i < m => i \in 1..Len(t) /\ f[i] = i
        BY <2>2, <2>3
      <3>2. \A i \in 1..Len(s) : i > m => i - 1 \in 1..Len(t) /\ f[i - 1] = i
        BY <2>2, <2>3
      <3>3. \A j \in 1..Len(t) : f[j] # m
        BY <2>2, <2>3
      <3> TAKE i \in 1..Len(s)
      <3>4. i < m \/ i = m \/ i > m
        BY <2>2
      <3> HIDE DEF f
      <3> QED
        BY <3>1, <3>2, <3>3, <3>4, <2>2
    <2> HIDE DEF f
    <2>8. /\ Distinct(t) /\ Range(t) \subseteq Range(s)
          /\ \A x : x \in KeysOf(t) <=> \E j \in 1..Len(t) : x = s[f[j]].key
          /\ \A p \in [Keys -> Int] : Ordered(s, p) => Ordered(t, p)
      BY <2>3, <2>4, <2>5, <2>6, SubsequenceFacts
    <2>9. KeysOf(t) = KeysOf(s) \ {k}
      <3>1. \A i \in 1..Len(s) : s[i].key = k <=> i = m
        BY <2>2 DEF Distinct
      <3>2. \A x : x \in KeysOf(s) <=> \E i \in 1..Len(s) : x = s[i].key
        BY <2>2 DEF KeysOf
      <3>3. \A j \in 1..Len(t) : f[j] \in 1..Len(s)
        BY <2>4
      <3>4. ASSUME NEW x \in KeysOf(s), x # k
            PROVE  x \in KeysOf(t)
        BY <3>1, <3>2, <3>4, <2>7, <2>8
      <3>5. ASSUME NEW x \in KeysOf(t)
            PROVE  x \in KeysOf(s) /\ x # k
        BY <3>1, <3>2, <3>3, <2>7, <2>8
      <3> QED
        BY <3>4, <3>5
    <2> QED
      BY <2>1, <2>3, <2>8, <2>9, <1>2
  <1> QED
    BY <1>1, <1>2

\* s without its last element.
LEMMA DropLastFacts ==
    ASSUME NEW s \in Seq(Entries), Distinct(s), Len(s) > 0
    PROVE  /\ DropLast(s) \in Seq(Entries) /\ Distinct(DropLast(s))
           /\ Range(DropLast(s)) \subseteq Range(s)
           /\ s[Len(s)].key \in KeysOf(s)
           /\ KeysOf(DropLast(s)) = KeysOf(s) \ {s[Len(s)].key}
           /\ Len(DropLast(s)) = Len(s) - 1
           /\ \A p \in [Keys -> Int] : Ordered(s, p) =>
                /\ Ordered(DropLast(s), p)
                /\ \A j \in KeysOf(DropLast(s)) : p[j] < p[s[Len(s)].key]
  <1> DEFINE t == DropLast(s)
             f == [j \in 1..Len(t) |-> j]
  <1>1. Len(s) \in Nat /\ DOMAIN s = 1..Len(s)
    OBVIOUS
  <1>2. /\ t \in Seq(Entries) /\ Len(t) = Len(s) - 1
        /\ \A j \in 1..(Len(s) - 1) : t[j] = s[j]
    BY <1>1 DEF DropLast
  <1> HIDE DEF t
  <1>3. f \in [1..Len(t) -> 1..Len(s)]
    BY <1>1, <1>2
  <1>4. \A j \in 1..Len(t) : t[j] = s[f[j]]
    BY <1>1, <1>2
  <1>5. \A i, j \in 1..Len(t) : i < j => f[i] < f[j]
    BY <1>1, <1>2
  <1>6. \A i \in 1..Len(s) : i # Len(s) <=> \E j \in 1..Len(t) : f[j] = i
    <2>1. \A j \in 1..Len(t) : f[j] = j
      OBVIOUS
    <2> HIDE DEF f
    <2>2. Len(s) \in Nat /\ Len(t) = Len(s) - 1
      BY <1>1, <1>2
    <2>3. \A i \in 1..Len(s) : i # Len(s) <=> i \in 1..Len(t)
      BY ONLY <2>2
    <2>4. \A j \in 1..Len(t) : j \in 1..Len(s)
      BY ONLY <2>2
    <2> QED
      BY ONLY <2>1, <2>3, <2>4
  <1> HIDE DEF f
  <1>7. /\ Distinct(t) /\ Range(t) \subseteq Range(s)
        /\ \A x : x \in KeysOf(t) <=> \E j \in 1..Len(t) : x = s[f[j]].key
        /\ \A p \in [Keys -> Int] : Ordered(s, p) => Ordered(t, p)
    BY <1>2, <1>3, <1>4, <1>5, SubsequenceFacts
  <1>8. s[Len(s)].key \in KeysOf(s)
    BY <1>1 DEF KeysOf
  <1>9. KeysOf(t) = KeysOf(s) \ {s[Len(s)].key}
    <2> DEFINE m == Len(s)
    <2>1. m \in 1..Len(s)
      BY <1>1
    <2>2. \A i \in 1..Len(s) : s[i].key = s[m].key <=> i = m
      BY <2>1, <1>1 DEF Distinct
    <2>3. \A x : x \in KeysOf(s) <=> \E i \in 1..Len(s) : x = s[i].key
      BY <1>1 DEF KeysOf
    <2>4. \A j \in 1..Len(t) : f[j] \in 1..Len(s)
      BY <1>3
    <2>5. \A i \in 1..Len(s) : i # m <=> \E j \in 1..Len(t) : f[j] = i
      BY <1>6
    <2> HIDE DEF m
    <2>6. ASSUME NEW x \in KeysOf(s), x # s[m].key
          PROVE  x \in KeysOf(t)
      BY <2>2, <2>3, <2>5, <2>6, <1>7
    <2>7. ASSUME NEW x \in KeysOf(t)
          PROVE  x \in KeysOf(s) /\ x # s[m].key
      BY <2>2, <2>3, <2>4, <2>5, <1>7
    <2> QED
      BY <2>6, <2>7 DEF m
  <1>10. ASSUME NEW p \in [Keys -> Int], Ordered(s, p), NEW k \in KeysOf(t)
         PROVE  p[k] < p[s[Len(s)].key]
    <2>1. PICK j \in 1..Len(t) : k = s[f[j]].key
      BY <1>7
    <2>2. f[j] \in 1..Len(s) /\ f[j] # Len(s)
      BY <1>1, <1>3, <1>6
    <2>3. f[j] < Len(s) /\ Len(s) \in 1..Len(s)
      BY <2>2, <1>1
    <2> QED
      BY <2>1, <2>2, <2>3, <1>1, <1>10 DEF Ordered
  <1> QED
    BY <1>2, <1>7, <1>8, <1>9, <1>10 DEF t

\* s with a new element in front.
LEMMA PushFrontFacts ==
    ASSUME NEW s \in Seq(Entries), Distinct(s),
           NEW e \in Entries, e.key \notin KeysOf(s)
    PROVE  /\ PushFront(s, e) \in Seq(Entries) /\ Distinct(PushFront(s, e))
           /\ Range(PushFront(s, e)) = {e} \cup Range(s)
           /\ KeysOf(PushFront(s, e)) = {e.key} \cup KeysOf(s)
           /\ Len(PushFront(s, e)) = Len(s) + 1
           /\ \A p \in [Keys -> Int] :
                /\ Ordered(s, p)
                /\ \A j \in KeysOf(s) : p[e.key] < p[j]
                => Ordered(PushFront(s, e), p)
  <1> DEFINE t == PushFront(s, e)
  <1>1. Len(s) \in Nat /\ DOMAIN s = 1..Len(s) /\ \A i \in DOMAIN s : s[i] \in Entries
    OBVIOUS
  <1>2. /\ t \in Seq(Entries) /\ Len(t) = Len(s) + 1 /\ t[1] = e
        /\ \A i \in 1..Len(s) : t[i + 1] = s[i]
    BY <1>1 DEF PushFront
  <1> HIDE DEF t
  <1>3. DOMAIN t = 1..(Len(s) + 1)
    BY <1>2
  <1>4. \A i \in DOMAIN t : i = 1 \/ (i - 1 \in 1..Len(s) /\ t[i] = s[i - 1])
    BY <1>1, <1>2, <1>3
  <1>5. \A i \in 1..Len(s) : i + 1 \in DOMAIN t /\ t[i + 1] = s[i]
    BY <1>1, <1>2, <1>3
  <1>6. 1 \in DOMAIN t
    BY <1>1, <1>3
  <1>7. \A i \in 1..Len(s) : s[i].key \in KeysOf(s)
    BY <1>1 DEF KeysOf
  <1>8. Distinct(t)
    <2> SUFFICES ASSUME NEW i \in DOMAIN t, NEW j \in DOMAIN t, t[i].key = t[j].key
                 PROVE  i = j
      BY DEF Distinct
    <2>1. CASE i = 1 \/ j = 1
      BY <2>1, <1>2, <1>4, <1>7
    <2>2. CASE i # 1 /\ j # 1
      <3>1. i - 1 = j - 1
        BY <2>2, <1>1, <1>4 DEF Distinct
      <3> QED
        BY <3>1, <1>1, <1>3
    <2> QED
      BY <2>1, <2>2
  <1>9. Range(t) = {e} \cup Range(s)
    <2>1. \A i \in DOMAIN t : t[i] \in {e} \cup Range(s)
      BY <1>1, <1>2, <1>4 DEF Range
    <2>2. e \in Range(t) /\ \A i \in 1..Len(s) : s[i] \in Range(t)
      BY <1>2, <1>5, <1>6 DEF Range
    <2> QED
      BY <2>1, <2>2, <1>1 DEF Range
  <1>10. KeysOf(t) = {e.key} \cup KeysOf(s)
    <2>1. \A i \in DOMAIN t : t[i].key \in {e.key} \cup KeysOf(s)
      BY <1>2, <1>4, <1>7
    <2>2. e.key \in KeysOf(t) /\ \A i \in 1..Len(s) : s[i].key \in KeysOf(t)
      BY <1>2, <1>5, <1>6 DEF KeysOf
    <2> QED
      BY <2>1, <2>2, <1>1 DEF KeysOf
  <1>11. ASSUME NEW p \in [Keys -> Int], Ordered(s, p),
                \A j \in KeysOf(s) : p[e.key] < p[j]
         PROVE  Ordered(t, p)
    <2> SUFFICES ASSUME NEW i \in DOMAIN t, NEW j \in DOMAIN t, i < j
                 PROVE  p[t[i].key] < p[t[j].key]
      BY DEF Ordered
    <2>1. j - 1 \in 1..Len(s) /\ t[j] = s[j - 1]
      BY <1>1, <1>3, <1>4
    <2>2. CASE i = 1
      BY <2>1, <2>2, <1>2, <1>7, <1>11
    <2>3. CASE i # 1
      <3>1. i - 1 \in 1..Len(s) /\ t[i] = s[i - 1] /\ i - 1 < j - 1
        BY <2>3, <1>1, <1>3, <1>4
      <3> QED
        BY <2>1, <3>1, <1>1, <1>11 DEF Ordered
    <2> QED
      BY <2>2, <2>3
  <1> QED
    BY <1>2, <1>8, <1>9, <1>10, <1>11 DEF t

\* A cache has as many keys as its list has entries.
LEMMA KeyCount ==
    ASSUME NEW s \in Seq(Entries), Distinct(s)
    PROVE  Cardinality(KeysOf(s)) = Len(s)
  <1> DEFINE n == Len(s)
             f == [i \in 1..n |-> s[i].key]
  <1>1. n \in Nat /\ DOMAIN s = 1..n
    OBVIOUS
  <1>2. f \in Bijection(1..n, KeysOf(s))
    <2> HIDE DEF n
    <2> QED
      BY <1>1 DEF Bijection, Injection, Surjection, IsInjective, KeysOf, Distinct
  <1>3. ExistsBijection(1..n, KeysOf(s))
    BY <1>2 DEF ExistsBijection
  <1>4. IsFiniteSet(1..n) /\ Cardinality(1..n) = n
    <2> HIDE DEF n
    <2> QED
      BY <1>1, FS_Interval
  <1>5. Cardinality(KeysOf(s)) = Cardinality(1..n)
    BY <1>3, <1>4, FS_Bijection
  <1> QED
    BY <1>4, <1>5

-----------------------------------------------------------------------------
(* put, get and remove of LruCache                                         *)

\* A cache whose map and list agree.
Good(c) ==
  /\ c \in Caches /\ c.index = KeysOf(c.list)
  /\ Distinct(c.list) /\ Len(c.list) <= Capacity

\* The ranks q put k before the other keys, and those where the ranks p do.
Moves(p, q, k) == \A a, b \in Keys \ {k} : p[a] < p[b] => q[a] < q[b]
Leads(q, k) == \A j \in Keys \ {k} : q[k] < q[j]

\* Ranks that differ in the place of k alone order a list without k alike.
LEMMA MovesOrdered ==
    ASSUME NEW s \in Seq(Entries), NEW k \in Keys, k \notin KeysOf(s),
           NEW p \in [Keys -> Int], NEW q \in [Keys -> Int],
           Ordered(s, p), Moves(p, q, k)
    PROVE  Ordered(s, q)
  <1>1. \A i \in DOMAIN s : s[i].key \in KeysOf(s) /\ s[i].key \in Keys
    BY KeysOfEntries DEF KeysOf
  <1> QED
    BY <1>1 DEF Ordered, Moves

\* list.Remove and delete: the map and the list still agree.
LEMMA RemoveGood ==
    ASSUME NEW c, Good(c), NEW k \in Keys
    PROVE  /\ Good(remove(c, k)) /\ remove(c, k).index = c.index \ {k}
           /\ Range(remove(c, k).list) \subseteq Range(c.list)
           /\ \A p \in [Keys -> Int] :
                Ordered(c.list, p) => Ordered(remove(c, k).list, p)
  <1> DEFINE t == Without(c.list, k)
  <1>1. c.list \in Seq(Entries) /\ Distinct(c.list) /\ c.index \in SUBSET Keys
        /\ c.index = KeysOf(c.list) /\ Len(c.list) <= Capacity
    BY DEF Good, Caches
  <1>2. /\ t \in Seq(Entries) /\ Distinct(t) /\ Range(t) \subseteq Range(c.list)
        /\ KeysOf(t) = KeysOf(c.list) \ {k}
        /\ Len(t) = IF k \in KeysOf(c.list) THEN Len(c.list) - 1 ELSE Len(c.list)
        /\ \A p \in [Keys -> Int] : Ordered(c.list, p) => Ordered(t, p)
    BY <1>1, WithoutFacts
  <1>3. CASE k \in c.index
    <2>1. remove(c, k) = [list |-> t, index |-> c.index \ {k}]
      BY <1>3 DEF remove
    <2>2. Len(t) <= Capacity
      BY <1>1, <1>2
    <2> HIDE DEF t
    <2>3. remove(c, k).list = t /\ remove(c, k).index = c.index \ {k}
          /\ remove(c, k) \in Caches
      BY <2>1, <1>1, <1>2 DEF Caches
    <2> QED
      BY <2>2, <2>3, <1>1, <1>2 DEF Good
  <1>4. CASE k \notin c.index
    BY <1>4 DEF remove
  <1> QED
    BY <1>3, <1>4

\* list.MoveToFront of an entry that is there.
LEMMA GetGood ==
    ASSUME NEW c, Good(c), NEW k \in Keys, Live(c, k)
    PROVE  /\ Good(get(c, k)) /\ get(c, k).index = c.index
           /\ Range(get(c, k).list) \subseteq Range(c.list)
           /\ \A p, q \in [Keys -> Int] :
                Ordered(c.list, p) /\ Moves(p, q, k) /\ Leads(q, k)
                => Ordered(get(c, k).list, q)
  <1> DEFINE t == Without(c.list, k)
             e == Find(c.list, k)
             u == PushFront(t, e)
  <1>1. c.list \in Seq(Entries) /\ Distinct(c.list) /\ c.index \in SUBSET Keys
        /\ c.index = KeysOf(c.list) /\ Len(c.list) <= Capacity
        /\ c = [list |-> c.list, index |-> c.index]
    BY DEF Good, Caches
  <1>2. k \in c.index /\ get(c, k) = [c EXCEPT !.list = u]
    BY DEF get, Live
  <1>3. /\ t \in Seq(Entries) /\ Distinct(t) /\ Range(t) \subseteq Range(c.list)
        /\ KeysOf(t) = KeysOf(c.list) \ {k}
        /\ Len(t) = Len(c.list) - 1
        /\ \A p \in [Keys -> Int] : Ordered(c.list, p) => Ordered(t, p)
    BY <1>1, <1>2, WithoutFacts
  <1>4. e \in Entries /\ e \in Range(c.list) /\ e.key = k
    BY <1>1, <1>2, FindFacts
  <1> HIDE DEF t, e
  <1>5. /\ u \in Seq(Entries) /\ Distinct(u) /\ Range(u) = {e} \cup Range(t)
        /\ KeysOf(u) = {e.key} \cup KeysOf(t) /\ Len(u) = Len(t) + 1
        /\ \A p \in [Keys -> Int] :
             Ordered(t, p) /\ (\A j \in KeysOf(t) : p[e.key] < p[j]) => Ordered(u, p)
    BY <1>1, <1>3, <1>4, PushFrontFacts
  <1> HIDE DEF u
  <1>6. get(c, k).list = u /\ get(c, k).index = c.index /\ get(c, k) \in Caches
    BY <1>1, <1>2, <1>5 DEF Caches
  <1>7. Len(u) <= Capacity
    BY <1>1, <1>3, <1>5
  <1>8. KeysOf(u) = c.index
    BY <1>1, <1>2, <1>3, <1>4, <1>5
  <1>9. Good(get(c, k))
    BY <1>5, <1>6, <1>7, <1>8 DEF Good
  <1>10. ASSUME NEW p \in [Keys -> Int], NEW q \in [Keys -> Int],
                Ordered(c.list, p), Moves(p, q, k), Leads(q, k)
         PROVE  Ordered(u, q)
    <2>1. Ordered(t, p) /\ k \notin KeysOf(t) /\ KeysOf(t) \subseteq Keys \ {k}
      BY <1>1, <1>3, <1>10
    <2>2. Ordered(t, q)
      BY <2>1, <1>3, <1>10, MovesOrdered
    <2>3. \A j \in KeysOf(t) : q[k] < q[j]
      BY <2>1, <1>10 DEF Leads
    <2> QED
      BY <2>2, <2>3, <1>4, <1>5
  <1> QED
    BY <1>3, <1>4, <1>5, <1>6, <1>9, <1>10

\* put of the key k evicts v.
Evicts(c, d, k, v) == v \in c.index /\ v # k /\ d.index = (c.index \ {v}) \cup {k}

\* put evicts at most the last entry of the list, which in the order of the ranks
\* p is that of the key with the highest rank; the new entry is in front.
LEMMA PutGood ==
    ASSUME NEW c, Good(c), NEW e \in Entries
    PROVE  /\ Good(put(c, e))
           /\ \/ put(c, e).index = c.index \cup {e.key}
              \/ \E v \in c.index :
                   /\ Evicts(c, put(c, e), e.key, v)
                   /\ \A p \in [Keys -> Int] : Ordered(c.list, p) =>
                        \A j \in c.index \ {v} : p[j] < p[v]
           /\ \A x \in Range(put(c, e).list) :
                x = e \/ (x \in Range(c.list) /\ x.key # e.key)
           /\ \A p, q \in [Keys -> Int] :
                Ordered(c.list, p) /\ Moves(p, q, e.key) /\ Leads(q, e.key)
                => Ordered(put(c, e).list, q)
  <1> DEFINE s == c.list
             k == e.key
  <1>1. s \in Seq(Entries) /\ Distinct(s) /\ c.index \in SUBSET Keys
        /\ c.index = KeysOf(s) /\ Len(s) <= Capacity /\ Len(s) \in Nat
        /\ c = [list |-> s, index |-> c.index] /\ k \in Keys
    BY DEF Good, Caches, Entries
  <1> HIDE DEF k
  \* What is in front of which the new entry is pushed.
  <1> DEFINE Rest(t, idx) ==
               /\ t \in Seq(Entries) /\ Distinct(t) /\ Range(t) \subseteq Range(s)
               /\ KeysOf(t) = idx /\ k \notin idx /\ idx \subseteq Keys
               /\ Len(t) < Capacity
               /\ \A p \in [Keys -> Int] : Ordered(s, p) => Ordered(t, p)
  <1>2. ASSUME NEW t, NEW idx, Rest(t, idx),
               put(c, e) = [list |-> PushFront(t, e), index |-> idx \cup {k}]
        PROVE  /\ Good(put(c, e)) /\ put(c, e).index = idx \cup {k}
               /\ \A x \in Range(put(c, e).list) :
                    x = e \/ (x \in Range(s) /\ x.key # k)
               /\ \A p, q \in [Keys -> Int] :
                    Ordered(s, p) /\ Moves(p, q, k) /\ Leads(q, k)
                    => Ordered(put(c, e).list, q)
    <2> DEFINE u == PushFront(t, e)
    <2>1. /\ u \in Seq(Entries) /\ Distinct(u) /\ Range(u) = {e} \cup Range(t)
          /\ KeysOf(u) = {k} \cup idx /\ Len(u) = Len(t) + 1
          /\ \A p \in [Keys -> Int] :
               Ordered(t, p) /\ (\A j \in idx : p[k] < p[j]) => Ordered(u, p)
      BY <1>2, PushFrontFacts DEF k
    <2> HIDE DEF u
    <2>2. put(c, e).list = u /\ put(c, e).index = idx \cup {k} /\ put(c, e) \in Caches
      BY <2>1, <1>1, <1>2 DEF Caches, u
    <2>3. Len(u) <= Capacity
      BY <2>1, <1>2
    <2>4. Good(put(c, e))
      BY <2>1, <2>2, <2>3 DEF Good
    <2>5. ASSUME NEW x \in Range(t)
          PROVE  x \in Range(s) /\ x.key # k
      BY <1>2, KeysOfEntries
    <2>6. ASSUME NEW p \in [Keys -> Int], NEW q \in [Keys -> Int],
                 Ordered(s, p), Moves(p, q, k), Leads(q, k)
          PROVE  Ordered(u, q)
      <3>1. Ordered(t, q)
        BY <2>6, <1>1, <1>2, MovesOrdered
      <3>2. \A j \in idx : q[k] < q[j]
        BY <2>6, <1>2 DEF Leads
      <3> QED
        BY <3>1, <3>2, <2>1
    <2> QED
      BY <2>1, <2>2, <2>4, <2>5, <2>6
  <1>3. CASE k \in c.index
    <2> DEFINE t == Without(s, k)
    <2>1. /\ t \in Seq(Entries) /\ Distinct(t) /\ Range(t) \subseteq Range(s)
          /\ KeysOf(t) = c.index \ {k} /\ Len(t) = Len(s) - 1
          /\ \A p \in [Keys -> Int] : Ordered(s, p) => Ordered(t, p)
      BY <1>1, <1>3, WithoutFacts
    <2>2. put(c, e) = [c EXCEPT !.list = PushFront(t, e)]
      BY <1>3 DEF put, k
    <2> HIDE DEF t
    <2>3. put(c, e) = [list |-> PushFront(t, e), index |-> (c.index \ {k}) \cup {k}]
      BY <2>2, <1>1, <1>3
    <2>4. Len(t) < Capacity
      BY <2>1, <1>1
    <2>5. Rest(t, c.index \ {k})
      BY <2>1, <2>4, <1>1
    <2> HIDE DEF Rest, s
    <2>6. /\ Good(put(c, e)) /\ put(c, e).index = (c.index \ {k}) \cup {k}
          /\ \A x \in Range(put(c, e).list) :
               x = e \/ (x \in Range(s) /\ x.key # k)
          /\ \A p, q \in [Keys -> Int] :
               Ordered(s, p) /\ Moves(p, q, k) /\ Leads(q, k)
               => Ordered(put(c, e).list, q)
      BY <2>3, <2>5, <1>2
    <2> QED
      BY <2>6, <1>3 DEF k, s
  <1>4. CASE k \notin c.index /\ ~(Cardinality(c.index) >= Capacity)
    <2>1. put(c, e) = [list |-> PushFront(s, e), index |-> c.index \cup {k}]
      BY <1>4 DEF put, k
    <2>2. Len(s) < Capacity
      BY <1>1, <1>4, KeyCount
    <2>3. Rest(s, c.index)
      BY <2>2, <1>1, <1>4
    <2> HIDE DEF Rest, s
    <2>4. /\ Good(put(c, e)) /\ put(c, e).index = c.index \cup {k}
          /\ \A x \in Range(put(c, e).list) :
               x = e \/ (x \in Range(s) /\ x.key # k)
          /\ \A p, q \in [Keys -> Int] :
               Ordered(s, p) /\ Moves(p, q, k) /\ Leads(q, k)
               => Ordered(put(c, e).list, q)
      BY <2>1, <2>3, <1>2
    <2> QED
      BY <2>4 DEF k, s
  <1>5. CASE k \notin c.index /\ Cardinality(c.index) >= Capacity
    <2> DEFINE t == DropLast(s)
               v == s[Len(s)].key
    <2>1. put(c, e) = [list |-> PushFront(t, e), index |-> (c.index \ {v}) \cup {k}]
      BY <1>5 DEF put, evict, k
    <2>2. Len(s) > 0
      BY <1>1, <1>5, KeyCount
    <2>3. /\ t \in Seq(Entries) /\ Distinct(t) /\ Range(t) \subseteq Range(s)
          /\ v \in c.index /\ KeysOf(t) = c.index \ {v} /\ Len(t) = Len(s) - 1
          /\ \A p \in [Keys -> Int] : Ordered(s, p) =>
               Ordered(t, p) /\ \A j \in KeysOf(t) : p[j] < p[v]
      BY <2>2, <1>1, DropLastFacts
    <2> HIDE DEF t, v
    <2>4. Len(t) < Capacity
      BY <2>3, <1>1
    <2>5. Rest(t, c.index \ {v})
      BY <2>3, <2>4, <1>1, <1>5
    <2> HIDE DEF Rest, s
    <2>6. /\ Good(put(c, e)) /\ put(c, e).index = (c.index \ {v}) \cup {k}
          /\ \A x \in Range(put(c, e).list) :
               x = e \/ (x \in Range(s) /\ x.key # k)
          /\ \A p, q \in [Keys -> Int] :
               Ordered(s, p) /\ Moves(p, q, k) /\ Leads(q, k)
               => Ordered(put(c, e).list, q)
      BY <2>1, <2>5, <1>2
    <2>7. Evicts(c, put(c, e), k, v)
      BY <2>3, <2>6, <1>5 DEF Evicts
    <2>8. \A p \in [Keys -> Int] : Ordered(s, p) =>
             \A j \in c.index \ {v} : p[j] < p[v]
      BY <2>3
    <2> QED
      BY <2>3, <2>6, <2>7, <2>8 DEF k, s
  <1> QED
    BY <1>3, <1>4, <1>5
(* The keys in the order of their last use                                 *)

\* Where a key is in r, those that are not in it behind all others.
Rank(r) == [k \in Keys |-> IF k \in Range(r) THEN Place(r, k) ELSE Len(r) + 1]

\* The place of a key in r is where it is, and its rank.
LEMMA RankFacts ==
    ASSUME NEW r \in Seq(Keys), IsInjective(r)
    PROVE  /\ Rank(r) \in [Keys -> Int]
           /\ \A i \in 1..Len(r) : Place(r, r[i]) = i /\ Rank(r)[r[i]] = i
           /\ \A k \in Range(r) : Place(r, k) \in 1..Len(r) /\ r[Place(r, k)] = k
                                  /\ Rank(r)[k] = Place(r, k) /\ k \in Keys
           /\ \A k \in Keys \ Range(r) : Rank(r)[k] = Len(r) + 1
  <1>1. Len(r) \in Nat /\ DOMAIN r = 1..Len(r) /\ \A i \in 1..Len(r) : r[i] \in Keys
    OBVIOUS
  <1>2. \A k \in Range(r) : Place(r, k) \in 1..Len(r) /\ r[Place(r, k)] = k /\ k \in Keys
    <2> SUFFICES ASSUME NEW k \in Range(r)
                 PROVE  Place(r, k) \in 1..Len(r) /\ r[Place(r, k)] = k /\ k \in Keys
      OBVIOUS
    <2>1. PICK i \in DOMAIN r : r[i] = k
      BY DEF Range
    <2>2. Place(r, k) \in DOMAIN r /\ r[Place(r, k)] = k
      BY <2>1 DEF Place
    <2> QED
      BY <1>1, <2>1, <2>2
  <1>3. \A i \in 1..Len(r) : r[i] \in Range(r) /\ Place(r, r[i]) = i
    BY <1>1, <1>2 DEF Range, IsInjective
  <1>4. Rank(r) \in [Keys -> Int]
    BY <1>1, <1>2 DEF Rank
  <1>5. \A k \in Keys : Rank(r)[k] = IF k \in Range(r) THEN Place(r, k) ELSE Len(r) + 1
    BY DEF Rank
  <1> QED
    BY <1>1, <1>2, <1>3, <1>4, <1>5

\* A use of a key puts it in front of the others and moves none of these past
\* another.
LEMMA TouchedFacts ==
    ASSUME recent \in Seq(Keys), IsInjective(recent), NEW k \in Keys
    PROVE  /\ Touched(k) \in Seq(Keys) /\ IsInjective(Touched(k))
           /\ Range(Touched(k)) = {k} \cup Range(recent)
           /\ Moves(Rank(recent), Rank(Touched(k)), k) /\ Leads(Rank(Touched(k)), k)
  <1> DEFINE r == recent
             n == Len(r)
             t == Touched(k)
             m == IF k \in Range(r) THEN Place(r, k) ELSE n + 1
             g(i) == IF i < m THEN i + 1 ELSE i
             rest == IF k \in Range(r) THEN RemoveElement(r, m) ELSE r
  <1>1. n \in Nat /\ DOMAIN r = 1..n /\ \A i \in 1..n : r[i] \in Keys
    OBVIOUS
  <1>2. /\ \A i \in 1..n : Place(r, r[i]) = i /\ Rank(r)[r[i]] = i
        /\ \A x \in Range(r) : Place(r, x) \in 1..n /\ r[Place(r, x)] = x
                               /\ Rank(r)[x] = Place(r, x)
        /\ \A x \in Keys \ Range(r) : Rank(r)[x] = n + 1
        /\ \A i \in 1..n : r[i] \in Range(r)
    BY <1>1, RankFacts DEF Range
  <1>3. /\ m \in 1..(n + 1) /\ (m \in 1..n <=> k \in Range(r))
        /\ \A i \in 1..n : r[i] = k <=> i = m
    BY <1>1, <1>2
  <1>4. t = <<k>> \o rest
    BY DEF Touched, PushFront
  <1>5. /\ rest \in Seq(Keys) /\ Len(rest) = IF m <= n THEN n - 1 ELSE n
        /\ \A j \in 1..Len(rest) : rest[j] = IF j < m THEN r[j] ELSE r[j + 1]
    <2>1. CASE k \in Range(r)
      <3>1. rest = RemoveElement(r, m) /\ m \in 1..n /\ r \in Seq(Keys)
        BY <2>1, <1>3
      <3> HIDE DEF m
      <3>2. /\ RemoveElement(r, m) \in Seq(Keys) /\ Len(RemoveElement(r, m)) = n - 1
            /\ \A j \in 1..(n - 1) : RemoveElement(r, m)[j] = IF j < m THEN r[j] ELSE r[j + 1]
        BY <3>1, RemoveElements
      <3> HIDE DEF rest, r
      <3> QED
        BY <3>1, <3>2, <1>1
    <2>2. CASE k \notin Range(r)
      <3>1. rest = r /\ m = n + 1
        BY <2>2
      <3> HIDE DEF m, rest
      <3>2. rest \in Seq(Keys) /\ Len(rest) = n /\ n \in Nat /\ m = n + 1
        BY <3>1
      <3> HIDE DEF n
      <3>3. Len(rest) = (IF m <= n THEN n - 1 ELSE n) /\ \A j \in 1..Len(rest) : j < m
        BY ONLY <3>2
      <3> HIDE DEF r
      <3> QED
        BY <3>1, <3>2, <3>3
    <2> QED
      BY <2>1, <2>2
  <1> HIDE DEF m, rest
  <1> DEFINE l == Len(t)
  <1>6. /\ t \in Seq(Keys) /\ l = IF m <= n THEN n ELSE n + 1
        /\ DOMAIN t = 1..l /\ t[1] = k
        /\ \A j \in 1..l : j > 1 => t[j] = IF j - 1 < m THEN r[j - 1] ELSE r[j]
    <2>1. /\ <<k>> \o rest \in Seq(Keys) /\ Len(<<k>> \o rest) = Len(rest) + 1
          /\ (<<k>> \o rest)[1] = k
          /\ \A j \in 1..Len(rest) : (<<k>> \o rest)[j + 1] = rest[j]
      BY ONLY <1>5, k \in Keys
    <2>2. /\ t \in Seq(Keys) /\ Len(t) = Len(rest) + 1 /\ t[1] = k
          /\ \A j \in 1..Len(rest) : t[j + 1] = rest[j]
      BY <2>1, <1>4
    <2> HIDE DEF t, r
    <2>3. DOMAIN t = 1..l /\ Len(rest) \in Nat
      BY <2>2, <1>5
    <2> HIDE DEF n
    <2>4. ASSUME NEW j \in 1..l, j > 1
          PROVE  t[j] = IF j - 1 < m THEN r[j - 1] ELSE r[j]
      <3>1. j - 1 \in 1..Len(rest) /\ (j - 1) + 1 = j
        BY <2>2, <2>3, <2>4
      <3>2. t[j] = rest[j - 1]
        BY <3>1, <2>2
      <3> QED
        BY <3>1, <3>2, <1>5
    <2>5. l = IF m <= n THEN n ELSE n + 1
      BY <2>2, <1>5, <1>1, <1>3
    <2> HIDE DEF l
    <2> QED
      BY <2>2, <2>3, <2>4, <2>5
  <1> HIDE DEF t, r, n, l
  \* The key at i goes to g(i), and every place but the first is one of these.
  <1>7. \A i \in 1..n : i # m => g(i) \in 2..l /\ t[g(i)] = r[i]
    <2> SUFFICES ASSUME NEW i \in 1..n, i # m
                 PROVE  g(i) \in 2..l /\ t[g(i)] = r[i]
      OBVIOUS
    <2>1. CASE i < m
      <3>1. i + 1 \in 1..l /\ i + 1 > 1 /\ (i + 1) - 1 = i
        BY <2>1, <1>1, <1>3, <1>6
      <3>2. t[i + 1] = r[i]
        BY <3>1, <2>1, <1>6
      <3> QED
        BY <3>1, <3>2, <2>1
    <2>2. CASE i > m
      <3>1. i \in 1..l /\ i > 1 /\ ~(i - 1 < m)
        BY <2>2, <1>1, <1>3, <1>6
      <3>2. t[i] = r[i]
        BY <3>1, <1>6
      <3> QED
        BY <3>1, <3>2, <2>2, <1>1, <1>3
    <2> QED
      BY <2>1, <2>2, <1>1, <1>3
  <1>8. \A j \in 2..l : \E i \in 1..n : i # m /\ j = g(i)
    <2> SUFFICES ASSUME NEW j \in 2..l
                 PROVE  \E i \in 1..n : i # m /\ j = g(i)
      OBVIOUS
    <2>1. CASE j - 1 < m
      <3>1. j - 1 \in 1..n /\ j - 1 # m /\ j = g(j - 1)
        BY <2>1, <1>1, <1>3, <1>6
      <3> QED
        BY <3>1
    <2>2. CASE ~(j - 1 < m)
      <3>1. j \in 1..n /\ j # m /\ j = g(j)
        BY <2>2, <1>1, <1>3, <1>6
      <3> QED
        BY <3>1
    <2> QED
      BY <2>1, <2>2
  <1>9. \A i, j \in 1..n : i # m /\ j # m => (i < j => g(i) < g(j)) /\ (g(i) = g(j) => i = j)
    BY <1>1, <1>3
  <1> HIDE DEF g
  <1>10. l \in Nat /\ l >= 1
    BY <1>1, <1>3, <1>6
  <1>11. IsInjective(t)
    <2> SUFFICES ASSUME NEW a \in 1..l, NEW b \in 1..l, t[a] = t[b]
                 PROVE  a = b
      BY <1>6 DEF IsInjective
    <2>1. \A j \in 2..l : t[j] # k
      BY <1>3, <1>7, <1>8
    <2>2. CASE a = 1 \/ b = 1
      BY <2>1, <2>2, <1>6, <1>10
    <2>3. CASE a # 1 /\ b # 1
      <3>1. PICK i \in 1..n : i # m /\ a = g(i)
        BY <2>3, <1>8, <1>10
      <3>2. PICK j \in 1..n : j # m /\ b = g(j)
        BY <2>3, <1>8, <1>10
      <3>3. r[i] = r[j]
        BY <3>1, <3>2, <1>7
      <3>4. i = j
        BY <3>3, <1>1 DEF IsInjective, r
      <3> QED
        BY <3>1, <3>2, <3>4
    <2> QED
      BY <2>2, <2>3
  <1>12. Range(t) = {k} \cup Range(r)
    <2>1. ASSUME NEW x \in Range(t)
          PROVE  x \in {k} \cup Range(r)
      <3>1. PICK j \in 1..l : x = t[j]
        BY <1>6 DEF Range
      <3>2. CASE j = 1
        BY <3>1, <3>2, <1>6
      <3>3. CASE j # 1
        <4>1. PICK i \in 1..n : i # m /\ j = g(i)
          BY <3>3, <1>8, <1>10
        <4>2. t[j] = r[i]
          BY <4>1, <1>7
        <4> QED
          BY <4>2, <3>1, <1>2
      <3> QED
        BY <3>2, <3>3
    <2>2. k \in Range(t)
      BY <1>6, <1>10 DEF Range
    <2>3. ASSUME NEW x \in Range(r), x # k
          PROVE  x \in Range(t)
      <3>1. PICK i \in 1..n : x = r[i]
        BY <1>1 DEF Range
      <3>2. g(i) \in 2..l /\ t[g(i)] = x
        BY <3>1, <2>3, <1>3, <1>7
      <3> QED
        BY <3>2, <1>6, <1>10 DEF Range
    <2> QED
      BY <2>1, <2>2, <2>3
  <1>13. /\ \A j \in 1..l : Rank(t)[t[j]] = j
         /\ \A x \in Keys \ Range(t) : Rank(t)[x] = l + 1
    BY <1>6, <1>11, RankFacts DEF l
  <1>14. /\ Rank(t)[k] = 1
         /\ \A i \in 1..n : i # m => Rank(t)[r[i]] = g(i) /\ g(i) \in 2..l
    <2>1. Rank(t)[t[1]] = 1
      BY <1>10, <1>13
    <2>2. \A i \in 1..n : i # m => Rank(t)[t[g(i)]] = g(i)
      BY <1>7, <1>10, <1>13
    <2> QED
      BY <2>1, <2>2, <1>6, <1>7
  <1>15. Leads(Rank(t), k)
    <2> SUFFICES ASSUME NEW x \in Keys \ {k}
                 PROVE  Rank(t)[k] < Rank(t)[x]
      BY DEF Leads
    <2>1. CASE x \in Range(r)
      <3>1. PICK i \in 1..n : x = r[i]
        BY <2>1, <1>1 DEF Range
      <3>2. i # m
        BY <3>1, <1>3
      <3> QED
        BY <3>1, <3>2, <1>10, <1>14
    <2>2. CASE x \notin Range(r)
      BY <2>2, <1>10, <1>12, <1>13, <1>14
    <2> QED
      BY <2>1, <2>2
  <1>16. Moves(Rank(r), Rank(t), k)
    <2> SUFFICES ASSUME NEW a \in Keys \ {k}, NEW b \in Keys \ {k},
                        Rank(r)[a] < Rank(r)[b]
                 PROVE  Rank(t)[a] < Rank(t)[b]
      BY DEF Moves
    <2>1. \A x \in Range(r) : \E i \in 1..n : x = r[i]
      BY <1>1 DEF Range
    <2>2. a \in Range(r)
      <3> SUFFICES ASSUME a \notin Range(r)
                   PROVE  FALSE
        OBVIOUS
      <3>1. Rank(r)[a] = n + 1 /\ Rank(r)[b] \in 1..(n + 1)
        BY <1>1, <1>2
      <3> QED
        BY <3>1, <1>1
    <2>3. PICK i \in 1..n : a = r[i]
      BY <2>1, <2>2
    <2>4. i # m /\ Rank(r)[a] = i /\ Rank(t)[a] = g(i) /\ g(i) \in 2..l
      BY <2>3, <1>2, <1>3, <1>14
    <2>5. CASE b \in Range(r)
      <3>1. PICK j \in 1..n : b = r[j]
        BY <2>1, <2>5
      <3>2. j # m /\ Rank(r)[b] = j /\ Rank(t)[b] = g(j)
        BY <3>1, <1>2, <1>3, <1>14
      <3> QED
        BY <3>2, <2>4, <1>9
    <2>6. CASE b \notin Range(r)
      BY <2>4, <2>6, <1>10, <1>12, <1>13
    <2> QED
      BY <2>5, <2>6
  <1> QED
    BY <1>6, <1>11, <1>12, <1>15, <1>16 DEF t, r

-----------------------------------------------------------------------------
(* The inductive invariant                                                 *)

\* What an entry says of the last Put of its key is true.
Truthful(e) ==
  /\ e.val = latest[e.key] /\ putAt[e.key] > 0
  /\ until[e.key] > 0 => e.exp > 0 /\ e.exp <= until[e.key]

\* An entry of the queue has not been renewed yet.
Queued(e) ==
  IF expiration > 0
  THEN /\ e.exp = putAt[e.key] + expiration
       /\ until[e.key] = putAt[e.key] + 2 * expiration
  ELSE e.exp = 0 /\ until[e.key] = 0

Timely(e) == kind # "2Q" => e.exp = until[e.key]

ValueInv ==
  /\ \A i \in Shards : \A e \in Range(shards[i].list) : Truthful(e) /\ Timely(e)
  /\ \A e \in Range(fifo) : Truthful(e) /\ Queued(e)
  /\ \A k \in Keys : putAt[k] <= clock

RecentInv ==
  /\ IsInjective(recent)
  /\ \A k \in Keys : putAt[k] > 0 => k \in Range(recent)

\* The list of an LruCache is in the order of the last uses.
OrderInv ==
  kind # "2Q" => \A i \in Shards : Ordered(shards[i].list, Rank(recent))

\* k was put, not removed and not expired.
Wanted(k) == putAt[k] > 0 /\ (until[k] <= 0 \/ clock < until[k])

EvictInv ==
  kind # "2Q" =>
    \A k \in Keys : Wanted(k) /\ k \notin shards[Home(k)].index =>
      \A j \in shards[Home(k)].index : Rank(recent)[j] < Rank(recent)[k]

Inv ==
  /\ TypeOK /\ Consistent /\ ValueInv /\ RecentInv
  /\ OrderInv /\ EvictInv /\ HitIsRight

\* What getShard computes from a hash is the number of a shard.
LEMMA RemBound ==
    ASSUME NEW a \in Int, NEW n \in Nat \ {0}
    PROVE  LET i == Rem(a, n) IN (IF i < 0 THEN -i ELSE i) \in 0..(n - 1)
  BY DEF Rem

\* Every key has a shard.
LEMMA HomeBound ==
    ASSUME TypeOK, NEW k \in Keys
    PROVE  Home(k) \in Shards /\ 0 \in Shards
  <1>1. hash[k] \in Int
    BY DEF TypeOK
  <1>2. getShard(k) \in 0..(ShardCount - 1)
    BY <1>1, RemBound DEF getShard
  <1> QED
    BY <1>2 DEF Home, Shards

\* The caches are good, and none but Home(k) holds k.
LEMMA ShardFacts ==
    ASSUME TypeOK, Consistent
    PROVE  /\ \A i \in Shards : Good(shards[i]) /\ shards[i].list \in Seq(Entries)
                                /\ shards[i].index \subseteq Keys
                                /\ shards[i].index = KeysOf(shards[i].list)
           /\ \A i \in Shards : \A k \in shards[i].index : Home(k) = i
           /\ fifo \in Seq(Entries) /\ KeysOf(fifo) \subseteq Keys
  <1>1. DOMAIN shards = Shards /\ \A i \in Shards : shards[i] \in Caches
    BY DEF TypeOK
  <1>2. \A i \in Shards : shards[i].list \in Seq(Entries) /\ shards[i].index \subseteq Keys
    BY <1>1 DEF Caches
  <1>3. \A i \in Shards : Good(shards[i]) /\ \A k \in shards[i].index : Home(k) = i
    BY <1>1 DEF Consistent, Good
  <1>4. fifo \in Seq(Entries)
    BY DEF TypeOK
  <1> QED
    BY <1>2, <1>3, <1>4, KeysOfEntries DEF Good

\* EvictInv says what EvictsOldest says.
LEMMA EvictFacts ==
    ASSUME TypeOK, Consistent, ValueInv, RecentInv
    PROVE  EvictInv <=> EvictsOldest
  <1>1. \A i \in Shards : \A j \in shards[i].index : j \in Keys /\ putAt[j] > 0
    <2> SUFFICES ASSUME NEW i \in Shards, NEW j \in shards[i].index
                 PROVE  j \in Keys /\ putAt[j] > 0
      OBVIOUS
    <2>1. shards[i].list \in Seq(Entries) /\ j \in KeysOf(shards[i].list) /\ j \in Keys
      BY ShardFacts
    <2>2. PICK e \in Range(shards[i].list) : e.key = j
      BY <2>1, KeysOfEntries
    <2> QED
      BY <2>1, <2>2 DEF ValueInv, Truthful
  <1>2. \A k \in Keys : putAt[k] > 0 => Rank(recent)[k] = Place(recent, k)
    BY RankFacts DEF RecentInv, TypeOK
  <1>3. \A k \in Keys : Home(k) \in Shards
    BY HomeBound
  <1> QED
    BY <1>1, <1>2, <1>3 DEF EvictInv, EvictsOldest, Wanted

-----------------------------------------------------------------------------
(* What an operation has to show of the cache d that it leaves in shard h  *)

\* The other shards are as they were, and so are the keys' shards.
LEMMA ConsistentStep ==
    ASSUME TypeOK, Consistent, NEW h \in Shards, NEW d, Good(d),
           shards' = [shards EXCEPT ![h] = d], kind' = kind, hash' = hash,
           \A k \in d.index : Home(k) = h,
           fifo' \in Seq(Entries), Distinct(fifo'), Len(fifo') <= Capacity,
           kind # "2Q" => fifo' = <<>>,
           kind = "2Q" => h = 0 /\ KeysOf(fifo') \cap d.index = {}
    PROVE  Consistent' /\ shards' \in [Shards -> Caches]
  <1>1. shards \in [Shards -> Caches] /\ d \in Caches
    BY DEF TypeOK, Good
  <1>2. shards' \in [Shards -> Caches] /\ DOMAIN shards' = Shards
        /\ \A i \in Shards : shards'[i] = IF i = h THEN d ELSE shards[i]
    BY <1>1
  <1>3. \A k : Home(k)' = Home(k)
    BY DEF Home, getShard
  <1>4. \A i \in Shards : Good(shards'[i]) /\ \A k \in shards'[i].index : Home(k) = i
    BY <1>2, ShardFacts
  <1>5. KeysOf(fifo') \cap shards'[0].index = {}
    <2>1. CASE kind = "2Q"
      BY <2>1, <1>2
    <2>2. CASE kind # "2Q"
      <3>1. KeysOf(<<>>) = {}
        BY DEF KeysOf
      <3> QED
        BY <3>1, <2>2
    <2> QED
      BY <2>1, <2>2
  <1> QED
    BY <1>2, <1>3, <1>4, <1>5 DEF Consistent, Good

\* Only k was put or removed: what the entries of other keys say stays true.
LEMMA ValueStep ==
    ASSUME TypeOK, Consistent, ValueInv, NEW k \in Keys, NEW h, h = Home(k), NEW d,
           shards' = [shards EXCEPT ![h] = d],
           kind' = kind, expiration' = expiration, clock' = clock,
           \A j \in Keys \ {k} :
             latest'[j] = latest[j] /\ putAt'[j] = putAt[j] /\ until'[j] = until[j],
           putAt'[k] <= clock,
           \A x \in Range(d.list) : \/ x \in Range(shards[h].list) /\ x.key # k
                                    \/ Truthful(x)' /\ Timely(x)',
           \A x \in Range(fifo') : \/ x \in Range(fifo) /\ x.key # k
                                   \/ Truthful(x)' /\ Queued(x)'
    PROVE  ValueInv'
  <1>1. DOMAIN shards = Shards /\ h \in Shards
    BY HomeBound DEF TypeOK
  <1>2. \A i \in Shards : shards'[i] = IF i = h THEN d ELSE shards[i]
    BY <1>1
  <1>3. \A i \in Shards : \A x \in Range(shards[i].list) :
          x.key \in Keys /\ Truthful(x) /\ Timely(x) /\ Home(x.key) = i
    BY ShardFacts, KeysOfEntries DEF ValueInv
  <1>4. \A x \in Range(fifo) : x.key \in Keys /\ Truthful(x) /\ Queued(x)
    BY ShardFacts, KeysOfEntries DEF ValueInv
  <1>5. ASSUME NEW i \in Shards, NEW x \in Range(shards[i].list), x.key # k
        PROVE  Truthful(x)' /\ Timely(x)'
    BY <1>3, <1>5 DEF Truthful, Timely
  <1>6. ASSUME NEW x \in Range(fifo), x.key # k
        PROVE  Truthful(x)' /\ Queued(x)'
    BY <1>4, <1>6 DEF Truthful, Queued
  <1>7. ASSUME NEW i \in Shards, NEW x \in Range(shards'[i].list)
        PROVE  Truthful(x)' /\ Timely(x)'
    <2>1. CASE i = h
      BY <2>1, <1>1, <1>2, <1>5, <1>7
    <2>2. CASE i # h
      BY <2>2, <1>2, <1>3, <1>5, <1>7
    <2> QED
      BY <2>1, <2>2
  <1>8. ASSUME NEW x \in Range(fifo')
        PROVE  Truthful(x)' /\ Queued(x)'
    BY <1>6, <1>8
  <1>9. \A j \in Keys : putAt'[j] <= clock'
    BY DEF ValueInv
  <1> QED
    BY <1>7, <1>8, <1>9 DEF ValueInv

\* A use of k: its LruCache was left in the order of any ranks that put k in
\* front and move no other key.
LEMMA OrderTouched ==
    ASSUME TypeOK, Consistent, RecentInv, OrderInv, NEW k \in Keys,
           NEW h, h = Home(k), NEW d, kind # "2Q",
           shards' = [shards EXCEPT ![h] = d], recent' = Touched(k),
           \A p, q \in [Keys -> Int] :
             Ordered(shards[h].list, p) /\ Moves(p, q, k) /\ Leads(q, k)
             => Ordered(d.list, q)
    PROVE  OrderInv'
  <1>1. DOMAIN shards = Shards /\ h \in Shards
    BY HomeBound DEF TypeOK
  <1>2. \A i \in Shards : shards'[i] = IF i = h THEN d ELSE shards[i]
    BY <1>1
  <1>3. recent \in Seq(Keys) /\ IsInjective(recent)
    BY DEF TypeOK, RecentInv
  <1>4. PICK p : p = Rank(recent)
    OBVIOUS
  <1>5. PICK q : q = Rank(Touched(k))
    OBVIOUS
  <1>6. p \in [Keys -> Int] /\ q \in [Keys -> Int] /\ Moves(p, q, k) /\ Leads(q, k)
    BY <1>3, <1>4, <1>5, TouchedFacts, RankFacts
  <1>7. \A i \in Shards : Ordered(shards[i].list, p)
    BY <1>4 DEF OrderInv
  <1>8. ASSUME NEW i \in Shards
        PROVE  Ordered(shards'[i].list, q)
    <2>1. CASE i = h
      BY <2>1, <1>1, <1>2, <1>6, <1>7
    <2>2. CASE i # h
      <3>1. shards[i].list \in Seq(Entries) /\ k \notin KeysOf(shards[i].list)
        BY <2>2, ShardFacts
      <3>2. Ordered(shards[i].list, q)
        BY <3>1, <1>6, <1>7, MovesOrdered
      <3> QED
        BY <3>2, <2>2, <1>2
    <2> QED
      BY <2>1, <2>2
  <1> QED
    BY <1>5, <1>8 DEF OrderInv

\* No key was used, and no entry moved.
LEMMA OrderKept ==
    ASSUME TypeOK, RecentInv, OrderInv, NEW h \in Shards, NEW d,
           shards' = [shards EXCEPT ![h] = d], recent' = recent, kind' = kind,
           \A p \in [Keys -> Int] : Ordered(shards[h].list, p) => Ordered(d.list, p)
    PROVE  OrderInv'
  <1>1. DOMAIN shards = Shards
    BY DEF TypeOK
  <1>2. \A i \in Shards : shards'[i] = IF i = h THEN d ELSE shards[i]
    BY <1>1
  <1>3. Rank(recent) \in [Keys -> Int]
    BY RankFacts DEF TypeOK, RecentInv
  <1> QED
    BY <1>2, <1>3 DEF OrderInv

\* The keys that a use of k evicts were used before all that are left.
LEMMA EvictTouched ==
    ASSUME TypeOK, Consistent, RecentInv, OrderInv, EvictInv, NEW k \in Keys,
           NEW h, h = Home(k), NEW d, kind # "2Q",
           shards' = [shards EXCEPT ![h] = d], recent' = Touched(k),
           kind' = kind, hash' = hash, clock' = clock,
           \A j \in Keys \ {k} : putAt'[j] = putAt[j] /\ until'[j] = until[j],
           k \in d.index, d.index \subseteq shards[h].index \cup {k},
           \A v \in shards[h].index \ d.index : \A p \in [Keys -> Int] :
             Ordered(shards[h].list, p) => \A j \in shards[h].index \ {v} : p[j] < p[v]
    PROVE  EvictInv'
  <1>1. DOMAIN shards = Shards /\ h \in Shards
    BY HomeBound DEF TypeOK
  <1>2. \A i \in Shards : shards'[i] = IF i = h THEN d ELSE shards[i]
    BY <1>1
  <1>3. recent \in Seq(Keys) /\ IsInjective(recent)
    BY DEF TypeOK, RecentInv
  <1>4. PICK p : p = Rank(recent)
    OBVIOUS
  <1>5. PICK q : q = Rank(Touched(k))
    OBVIOUS
  <1>6. p \in [Keys -> Int] /\ q \in [Keys -> Int] /\ Moves(p, q, k) /\ Leads(q, k)
    BY <1>3, <1>4, <1>5, TouchedFacts, RankFacts
  <1>7. \A x : Home(x)' = Home(x)
    BY DEF Home, getShard
  <1>8. \A x \in Keys \ {k} : Wanted(x)' => Wanted(x)
    BY DEF Wanted
  <1>9. \A x \in Keys : Home(x) \in Shards
    BY HomeBound
  <1>10. \A i \in Shards : shards[i].index \subseteq Keys /\ Ordered(shards[i].list, p)
    BY <1>4, ShardFacts DEF OrderInv
  <1>11. ASSUME NEW x \in Keys, Wanted(x)', x \notin shards'[Home(x)].index,
                NEW j \in shards'[Home(x)].index
         PROVE  q[j] < q[x]
    <2>1. x # k
      BY <1>2, <1>9, <1>11
    <2>2. Wanted(x)
      BY <2>1, <1>8, <1>11
    <2>3. CASE j = k
      BY <2>1, <2>3, <1>6 DEF Leads
    <2>4. CASE j # k
      <3>1. j \in shards[Home(x)].index /\ j \in Keys
        BY <2>4, <1>2, <1>9, <1>10, <1>11
      <3>2. p[j] < p[x]
        <4>1. CASE x \notin shards[Home(x)].index
          BY <4>1, <3>1, <2>2, <1>4 DEF EvictInv
        <4>2. CASE x \in shards[Home(x)].index
          <5>1. Home(x) = h /\ x \in shards[h].index \ d.index
            BY <4>2, <1>2, <1>9, <1>11
          <5>2. j # x
            BY <1>11
          <5> QED
            BY <5>1, <5>2, <3>1, <1>1, <1>6, <1>10
        <4> QED
          BY <4>1, <4>2
      <3> QED
        BY <3>1, <3>2, <2>1, <2>4, <1>6 DEF Moves
    <2> QED
      BY <2>3, <2>4
  <1> QED
    BY <1>5, <1>7, <1>11 DEF EvictInv

\* A step that evicts nothing: k goes only when removed or expired.
LEMMA EvictKept ==
    ASSUME TypeOK, Consistent, EvictInv, NEW k \in Keys,
           NEW h, h = Home(k), NEW d,
           shards' = [shards EXCEPT ![h] = d], recent' = recent,
           kind' = kind, hash' = hash, clock' = clock, until' = until,
           \A j \in Keys \ {k} : putAt'[j] = putAt[j],
           Wanted(k)' => Wanted(k) /\ k \notin shards[h].index,
           d.index = shards[h].index \ {k}
    PROVE  EvictInv'
  <1>1. DOMAIN shards = Shards /\ h \in Shards
    BY HomeBound DEF TypeOK
  <1>2. \A i \in Shards : shards'[i] = IF i = h THEN d ELSE shards[i]
    BY <1>1
  <1>3. \A x : Home(x)' = Home(x)
    BY DEF Home, getShard
  <1>4. \A x \in Keys \ {k} : Wanted(x)' => Wanted(x)
    BY DEF Wanted
  <1>5. \A x \in Keys : Home(x) \in Shards
    BY HomeBound
  <1>6. PICK p : p = Rank(recent)
    OBVIOUS
  <1>7. ASSUME kind # "2Q", NEW x \in Keys, Wanted(x)', x \notin shards'[Home(x)].index,
               NEW j \in shards'[Home(x)].index
        PROVE  p[j] < p[x]
    <2>1. Wanted(x) /\ x \notin shards[Home(x)].index
      BY <1>2, <1>4, <1>5, <1>7
    <2>2. j \in shards[Home(x)].index
      BY <1>2, <1>5, <1>7
    <2> QED
      BY <2>1, <2>2, <1>6, <1>7 DEF EvictInv
  <1> QED
    BY <1>3, <1>6, <1>7 DEF EvictInv

-----------------------------------------------------------------------------
(* The parts of an operation that the caches share                         *)

\* A Put of k.
LEMMA StoresStep ==
    ASSUME TypeOK, RecentInv, NEW k \in Keys, NEW exp \in Int, Stores(k, exp)
    PROVE  /\ shards' \in [Shards -> Caches] /\ fifo' \in Seq(Entries) => TypeOK'
           /\ RecentInv' /\ HitIsRight'
           /\ latest'[k] = 1 - latest[k] /\ putAt'[k] = clock /\ until'[k] = exp
           /\ \A j \in Keys \ {k} :
                latest'[j] = latest[j] /\ putAt'[j] = putAt[j] /\ until'[j] = until[j]
  <1>1. recent' \in Seq(Keys) /\ IsInjective(recent') /\ Range(recent') = {k} \cup Range(recent)
    BY TouchedFacts DEF TypeOK, RecentInv, Stores
  <1>2. /\ latest' \in [Keys -> {0, 1}] /\ latest'[k] = 1 - latest[k]
        /\ \A j \in Keys \ {k} : latest'[j] = latest[j]
    <2>1. latest \in [Keys -> {0, 1}] /\ 1 - latest[k] \in {0, 1}
      <3>1. latest \in [Keys -> {0, 1}] /\ (latest[k] = 0 \/ latest[k] = 1)
        BY DEF TypeOK
      <3> QED
        BY <3>1
    <2>2. latest' = [latest EXCEPT ![k] = 1 - latest[k]]
      BY DEF Stores
    <2> QED
      BY <2>1, <2>2
  <1>3. /\ putAt' \in [Keys -> Nat] /\ putAt'[k] = clock
        /\ \A j \in Keys \ {k} : putAt'[j] = putAt[j]
    BY DEF TypeOK, Stores
  <1>4. /\ until' \in [Keys -> Int] /\ until'[k] = exp
        /\ \A j \in Keys \ {k} : until'[j] = until[j]
    BY DEF TypeOK, Stores
  <1>5. RecentInv'
    BY <1>1, <1>3 DEF RecentInv
  <1>6. HitIsRight'
    BY DEF HitIsRight, Stores
  <1>7. shards' \in [Shards -> Caches] /\ fifo' \in Seq(Entries) => TypeOK'
    BY <1>1, <1>2, <1>3, <1>4 DEF TypeOK, Stores, configVars
  <1> QED
    BY <1>2, <1>3, <1>4, <1>5, <1>6, <1>7

\* A Get of k that returns v, the latest value of a key whose time is not over.
LEMMA HitsStep ==
    ASSUME TypeOK, RecentInv, NEW k \in Keys, NEW v \in {0, 1}, Hits(k, v),
           v = latest[k], Wanted(k)
    PROVE  /\ shards' \in [Shards -> Caches] /\ fifo' \in Seq(Entries) => TypeOK'
           /\ RecentInv' /\ HitIsRight'
  <1>1. recent' \in Seq(Keys) /\ IsInjective(recent') /\ Range(recent') = {k} \cup Range(recent)
    BY TouchedFacts DEF TypeOK, RecentInv, Hits
  <1>2. RecentInv'
    BY <1>1 DEF RecentInv, Hits
  <1>3. HitIsRight'
    <2>1. result'.key = k /\ result'.val = v
      BY DEF Hits
    <2>2. until[k] \in Int
      BY DEF TypeOK
    <2> QED
      BY <2>1, <2>2 DEF HitIsRight, Hits, Wanted
  <1>4. result' \in [key : Keys, val : {0, 1}]
    BY DEF Hits
  <1>5. shards' \in [Shards -> Caches] /\ fifo' \in Seq(Entries) => TypeOK'
    BY <1>1, <1>4 DEF TypeOK, Hits, configVars
  <1> QED
    BY <1>2, <1>3, <1>5

\* A Get that does not hit.
LEMMA MissesStep ==
    ASSUME TypeOK, RecentInv, Misses
    PROVE  /\ shards' \in [Shards -> Caches] /\ fifo' \in Seq(Entries) => TypeOK'
           /\ RecentInv' /\ HitIsRight'
  <1>1. RecentInv'
    BY DEF RecentInv, Misses
  <1>2. HitIsRight'
    BY DEF HitIsRight, Misses
  <1>3. shards' \in [Shards -> Caches] /\ fifo' \in Seq(Entries) => TypeOK'
    BY DEF TypeOK, Misses, configVars
  <1> QED
    BY <1>1, <1>2, <1>3

\* A Remove of k.
LEMMA RemovesStep ==
    ASSUME TypeOK, RecentInv, NEW k \in Keys, Removes(k)
    PROVE  /\ shards' \in [Shards -> Caches] /\ fifo' \in Seq(Entries) => TypeOK'
           /\ RecentInv' /\ HitIsRight'
           /\ putAt'[k] = 0 /\ \A j \in Keys \ {k} : putAt'[j] = putAt[j]
  <1>1. /\ putAt' \in [Keys -> Nat] /\ putAt'[k] = 0
        /\ \A j \in Keys \ {k} : putAt'[j] = putAt[j]
    BY DEF TypeOK, Removes
  <1>2. RecentInv'
    BY <1>1 DEF RecentInv, Removes
  <1>3. HitIsRight'
    BY DEF HitIsRight, Removes
  <1>4. shards' \in [Shards -> Caches] /\ fifo' \in Seq(Entries) => TypeOK'
    BY <1>1 DEF TypeOK, Removes, configVars
  <1> QED
    BY <1>1, <1>2, <1>3, <1>4

\* A new entry is true of the Put that makes it.
LEMMA NewEntryFacts ==
    ASSUME TypeOK, NEW k \in Keys, NEW x \in Int
    PROVE  /\ NewEntry(k, x) \in Entries
           /\ NewEntry(k, x).key = k /\ NewEntry(k, x).val = 1 - latest[k]
           /\ NewEntry(k, x).exp = x
  <1>1. latest[k] = 0 \/ latest[k] = 1
    BY DEF TypeOK
  <1>2. 1 - latest[k] \in {0, 1}
    BY <1>1
  <1> QED
    BY <1>2 DEF NewEntry, Entries

-----------------------------------------------------------------------------
(* The operations of LruCache and ShardLruCache                            *)

\* What is kept of an entry that a Get finds.
LEMMA LiveFacts ==
    ASSUME TypeOK, Consistent, ValueInv, NEW k \in Keys, NEW i \in Shards,
           Live(shards[i], k)
    PROVE  LET e == Find(shards[i].list, k)
           IN /\ k \in shards[i].index /\ e \in Entries
              /\ e \in Range(shards[i].list) /\ e.key = k
              /\ Wanted(k) /\ e.val = latest[k]
  <1> DEFINE e == Find(shards[i].list, k)
  <1>1. k \in shards[i].index /\ (e.exp <= 0 \/ clock < e.exp)
    BY DEF Live
  <1>2. e \in Entries /\ e \in Range(shards[i].list) /\ e.key = k
    BY <1>1, ShardFacts, FindFacts
  <1>3. Truthful(e)
    BY <1>2 DEF ValueInv
  <1>4. e.exp \in Int /\ clock \in Nat /\ until[k] \in Int
    BY <1>2 DEF TypeOK, Entries
  <1> HIDE DEF e
  <1>5. Wanted(k)
    BY <1>1, <1>2, <1>3, <1>4 DEF Truthful, Wanted
  <1> QED
    BY <1>1, <1>2, <1>3, <1>5 DEF Truthful, e

\* Time passes: nothing changes but what has expired.
LEMMA TickStep ==
    ASSUME Inv, Tick
    PROVE  Inv'
  <1>1. TypeOK'
    BY DEF Inv, TypeOK, Tick, configVars
  <1>2. Consistent'
    BY DEF Inv, Consistent, Tick, configVars, Home, getShard
  <1>3. ValueInv'
    <2>1. clock' >= clock
      BY DEF Inv, TypeOK, Tick
    <2>2. \A k \in Keys : putAt[k] \in Nat /\ putAt[k] <= clock
      BY DEF Inv, TypeOK, ValueInv
    <2>3. clock' \in Nat /\ clock \in Nat
      BY <1>1 DEF Inv, TypeOK
    <2>4. \A k \in Keys : putAt'[k] <= clock'
      BY <2>1, <2>2, <2>3 DEF Tick
    <2> QED
      BY <2>4 DEF Inv, ValueInv, Tick, configVars, Truthful, Timely, Queued
  <1>4. RecentInv' /\ OrderInv' /\ HitIsRight'
    BY DEF Inv, RecentInv, OrderInv, HitIsRight, Tick, configVars
  <1>5. EvictInv'
    <2>1. \A k : Home(k)' = Home(k)
      BY DEF Tick, configVars, Home, getShard
    <2>2. \A k \in Keys : Wanted(k)' => Wanted(k)
      <3>1. clock \in Nat /\ clock' = clock + 1 /\ until \in [Keys -> Int]
        BY DEF Inv, TypeOK, Tick
      <3> QED
        BY <3>1 DEF Wanted, Tick
    <2> QED
      BY <2>1, <2>2 DEF Inv, EvictInv, Tick, configVars
  <1> QED
    BY <1>1, <1>2, <1>3, <1>4, <1>5 DEF Inv

\* An empty cache may get another hash function.
LEMMA SetHashFuncStep ==
    ASSUME Inv, NEW f \in Hashes, SetHashFunc(f)
    PROVE  Inv'
  <1>1. TypeOK'
    BY DEF Inv, TypeOK, SetHashFunc
  <1>2. \A i \in Shards : shards[i] = Empty
    BY DEF SetHashFunc
  <1>3. \A i \in Shards : shards[i].index = {} /\ shards[i].list = <<>>
    BY <1>2 DEF Empty
  <1>4. DOMAIN shards = Shards
    BY DEF Inv, TypeOK
  <1>5. Consistent'
    BY <1>3, <1>4 DEF Inv, Consistent, SetHashFunc
  <1>6. ValueInv'
    BY DEF Inv, ValueInv, SetHashFunc, Truthful, Timely, Queued
  <1>7. RecentInv' /\ OrderInv' /\ HitIsRight'
    BY DEF Inv, RecentInv, OrderInv, HitIsRight, SetHashFunc
  <1>8. EvictInv'
    <2>1. \A k \in Keys : Home(k)' \in Shards
      <3> SUFFICES ASSUME NEW k \in Keys
                   PROVE  Home(k)' \in Shards
        OBVIOUS
      <3>1. hash'[k] \in Int
        BY <1>1 DEF TypeOK
      <3>2. getShard(k)' \in 0..(ShardCount - 1)
        BY <3>1, RemBound DEF getShard
      <3> QED
        BY <3>2 DEF Home, Shards
    <2>2. \A k \in Keys : shards'[Home(k)'].index = {}
      BY <2>1, <1>3 DEF SetHashFunc
    <2> QED
      BY <2>2 DEF EvictInv
  <1> QED
    BY <1>1, <1>5, <1>6, <1>7, <1>8 DEF Inv

\* LruCache.Put and ShardLruCache.Put.
LEMMA PutStep ==
    ASSUME Inv, NEW k \in Keys, NEW exp \in PutExpireAts, Put(k, exp)
    PROVE  Inv'
  <1>e. PICK e : e = NewEntry(k, exp)
    OBVIOUS
  <1> DEFINE h == Home(k)
             c == shards[h]
             d == put(c, e)
  <1> USE DEF Inv
  <1>1. exp \in Int
    BY DEF PutExpireAts, ExpireAt, TypeOK
  <1>2. h \in Shards /\ Good(c) /\ c.list \in Seq(Entries) /\ c.index \subseteq Keys
        /\ \A j \in c.index : Home(j) = h
    BY HomeBound, ShardFacts
  <1>3. e \in Entries /\ e.key = k /\ e.val = 1 - latest[k] /\ e.exp = exp
    BY <1>1, <1>e, NewEntryFacts
  <1>4. /\ kind # "2Q" /\ shards' = [shards EXCEPT ![h] = d] /\ Stores(k, exp)
        /\ fifo' = fifo
    BY <1>e, <1>2 DEF Put, TypeOK
  <1> HIDE DEF d, h
  <1>5. /\ Good(d)
        /\ \/ d.index = c.index \cup {k}
           \/ \E v \in c.index :
                /\ Evicts(c, d, k, v)
                /\ \A p \in [Keys -> Int] : Ordered(c.list, p) =>
                     \A j \in c.index \ {v} : p[j] < p[v]
        /\ \A x \in Range(d.list) : x = e \/ (x \in Range(c.list) /\ x.key # k)
        /\ \A p, q \in [Keys -> Int] :
             Ordered(c.list, p) /\ Moves(p, q, k) /\ Leads(q, k) => Ordered(d.list, q)
    BY <1>2, <1>3, PutGood DEF d
  <1> HIDE DEF c
  <1>6. /\ kind' = kind /\ hash' = hash /\ expiration' = expiration /\ clock' = clock
        /\ recent' = Touched(k)
    BY <1>4 DEF Stores, configVars
  <1>7. d.index \subseteq c.index \cup {k} /\ k \in d.index
    BY <1>5 DEF Evicts
  <1>8. fifo = <<>> /\ fifo' \in Seq(Entries) /\ Distinct(fifo') /\ Len(fifo') <= Capacity
    BY <1>4 DEF Consistent, TypeOK
  <1>9. Consistent' /\ shards' \in [Shards -> Caches]
    BY <1>2, <1>4, <1>5, <1>6, <1>7, <1>8, ConsistentStep DEF h
  <1>10. /\ TypeOK' /\ RecentInv' /\ HitIsRight'
         /\ latest'[k] = 1 - latest[k] /\ putAt'[k] = clock /\ until'[k] = exp
         /\ \A j \in Keys \ {k} :
              latest'[j] = latest[j] /\ putAt'[j] = putAt[j] /\ until'[j] = until[j]
    BY <1>1, <1>4, <1>8, <1>9, StoresStep
  <1>11. Truthful(e)' /\ Timely(e)'
    <2>1. clock > 0 /\ clock \in Nat
      BY DEF TypeOK
    <2> QED
      BY <2>1, <1>1, <1>3, <1>10 DEF Truthful, Timely
  <1>12. ValueInv'
    <2>1. putAt'[k] <= clock
      BY <1>10 DEF TypeOK
    <2>2. \A x \in Range(d.list) : \/ x \in Range(shards[h].list) /\ x.key # k
                                   \/ Truthful(x)' /\ Timely(x)'
      BY <1>5, <1>11 DEF c
    <2>3. Range(fifo') = {}
      BY <1>4, <1>8 DEF Range
    <2> HIDE DEF Inv
    <2> QED
      BY <2>1, <2>2, <2>3, <1>4, <1>6, <1>10, ValueStep DEF Inv, h
  <1>13. OrderInv'
    BY <1>4, <1>5, <1>6, OrderTouched DEF c, h
  <1>14. EvictInv'
    <2>1. \A v \in c.index \ d.index : \A p \in [Keys -> Int] :
            Ordered(c.list, p) => \A j \in c.index \ {v} : p[j] < p[v]
      BY <1>5 DEF Evicts
    <2> QED
      BY <2>1, <1>4, <1>6, <1>7, <1>10, EvictTouched DEF c, h
  <1> QED
    BY <1>9, <1>10, <1>12, <1>13, <1>14

\* Their Get finds an entry that has not expired: it is used.
LEMMA GetHitStep ==
    ASSUME Inv, NEW k \in Keys, GetHit(k)
    PROVE  Inv'
  <1> DEFINE h == Home(k)
             c == shards[h]
             e == Find(c.list, k)
             d == get(c, k)
  <1> USE DEF Inv
  <1>1. h \in Shards /\ Good(c) /\ c.list \in Seq(Entries) /\ c.index \subseteq Keys
        /\ \A j \in c.index : Home(j) = h
    BY HomeBound, ShardFacts
  <1>2. /\ kind # "2Q" /\ shards' = [shards EXCEPT ![h] = d] /\ Hits(k, e.val)
        /\ fifo' = fifo /\ Live(c, k)
    BY DEF GetHit
  <1>3. k \in c.index /\ e \in Entries /\ e.key = k /\ Wanted(k) /\ e.val = latest[k]
    BY <1>1, <1>2, LiveFacts
  <1>4. e.val \in {0, 1}
    BY <1>3 DEF Entries
  <1> HIDE DEF e, h
  <1>5. /\ Good(d) /\ d.index = c.index /\ Range(d.list) \subseteq Range(c.list)
        /\ \A p, q \in [Keys -> Int] :
             Ordered(c.list, p) /\ Moves(p, q, k) /\ Leads(q, k) => Ordered(d.list, q)
    BY <1>1, <1>2, GetGood
  <1> HIDE DEF c, d
  <1>6. /\ kind' = kind /\ hash' = hash /\ expiration' = expiration /\ clock' = clock
        /\ recent' = Touched(k) /\ latest' = latest /\ putAt' = putAt /\ until' = until
    BY <1>2 DEF Hits, configVars
  <1>7. fifo = <<>> /\ fifo' \in Seq(Entries) /\ Distinct(fifo') /\ Len(fifo') <= Capacity
    BY <1>2 DEF Consistent, TypeOK
  <1>8. Consistent' /\ shards' \in [Shards -> Caches]
    BY <1>1, <1>2, <1>5, <1>6, <1>7, ConsistentStep DEF h
  <1>9. TypeOK' /\ RecentInv' /\ HitIsRight'
    BY <1>2, <1>3, <1>4, <1>7, <1>8, HitsStep
  <1>10. ValueInv'
    <2>1. putAt'[k] <= clock
      BY <1>6 DEF ValueInv
    <2>2. \A x \in Range(d.list) : Truthful(x) /\ Timely(x)
      BY <1>1, <1>5 DEF ValueInv, c
    <2>3. \A x \in Range(d.list) : Truthful(x)' /\ Timely(x)'
      BY <2>2, <1>6 DEF Truthful, Timely
    <2>4. Range(fifo') = {}
      BY <1>2, <1>7 DEF Range
    <2> HIDE DEF Inv
    <2> QED
      BY <2>1, <2>3, <2>4, <1>2, <1>6, ValueStep DEF Inv, h
  <1>11. OrderInv'
    BY <1>2, <1>5, <1>6, OrderTouched DEF c, h
  <1>12. EvictInv'
    <2>1. k \in d.index /\ d.index \subseteq c.index \cup {k} /\ c.index \ d.index = {}
      BY <1>3, <1>5
    <2> QED
      BY <2>1, <1>2, <1>6, EvictTouched DEF c, h
  <1> QED
    BY <1>8, <1>9, <1>10, <1>11, <1>12

\* Their Get finds none, or deletes an expired one.
LEMMA GetMissStep ==
    ASSUME Inv, NEW k \in Keys, GetMiss(k)
    PROVE  Inv'
  <1> DEFINE h == Home(k)
             c == shards[h]
             d == remove(c, k)
  <1> USE DEF Inv
  <1>1. h \in Shards /\ Good(c) /\ c.list \in Seq(Entries) /\ c.index \subseteq Keys
        /\ \A j \in c.index : Home(j) = h
    BY HomeBound, ShardFacts
  <1>2. /\ kind # "2Q" /\ shards' = [shards EXCEPT ![h] = d] /\ Misses
        /\ fifo' = fifo /\ ~Live(c, k)
    BY DEF GetMiss, get
  <1> HIDE DEF h
  <1>3. /\ Good(d) /\ d.index = c.index \ {k} /\ Range(d.list) \subseteq Range(c.list)
        /\ \A p \in [Keys -> Int] : Ordered(c.list, p) => Ordered(d.list, p)
    BY <1>1, RemoveGood
  <1> HIDE DEF d
  <1>4. Wanted(k) => k \notin c.index
    <2> SUFFICES ASSUME k \in c.index
                 PROVE  ~Wanted(k)
      OBVIOUS
    <2> DEFINE e == Find(c.list, k)
    <2>1. e \in Entries /\ e \in Range(c.list) /\ e.key = k
      BY <1>1, FindFacts DEF Good
    <2>2. e.exp = until[k]
      BY <2>1, <1>1, <1>2 DEF ValueInv, Timely
    <2>3. ~(e.exp <= 0 \/ clock < e.exp)
      BY <1>2 DEF Live
    <2> QED
      BY <2>2, <2>3 DEF Wanted
  <1> HIDE DEF c
  <1>5. /\ kind' = kind /\ hash' = hash /\ expiration' = expiration /\ clock' = clock
        /\ recent' = recent /\ latest' = latest /\ putAt' = putAt /\ until' = until
    BY <1>2 DEF Misses, configVars
  <1>6. fifo = <<>> /\ fifo' \in Seq(Entries) /\ Distinct(fifo') /\ Len(fifo') <= Capacity
    BY <1>2 DEF Consistent, TypeOK
  <1>7. Consistent' /\ shards' \in [Shards -> Caches]
    BY <1>1, <1>2, <1>3, <1>5, <1>6, ConsistentStep DEF h
  <1>8. TypeOK' /\ RecentInv' /\ HitIsRight'
    BY <1>2, <1>6, <1>7, MissesStep
  <1>9. ValueInv'
    <2>1. putAt'[k] <= clock
      BY <1>5 DEF ValueInv
    <2>2. \A x \in Range(d.list) : Truthful(x) /\ Timely(x)
      BY <1>1, <1>3 DEF ValueInv, c
    <2>3. \A x \in Range(d.list) : Truthful(x)' /\ Timely(x)'
      BY <2>2, <1>5 DEF Truthful, Timely
    <2>4. Range(fifo') = {}
      BY <1>2, <1>6 DEF Range
    <2> HIDE DEF Inv
    <2> QED
      BY <2>1, <2>3, <2>4, <1>2, <1>5, ValueStep DEF Inv, h
  <1>10. OrderInv'
    BY <1>1, <1>2, <1>3, <1>5, OrderKept DEF c
  <1>11. EvictInv'
    <2>1. Wanted(k)' <=> Wanted(k)
      BY <1>5 DEF Wanted
    <2> QED
      BY <2>1, <1>2, <1>3, <1>4, <1>5, EvictKept DEF c, h
  <1> QED
    BY <1>7, <1>8, <1>9, <1>10, <1>11

\* Their Remove.
LEMMA RemoveStep ==
    ASSUME Inv, NEW k \in Keys, Remove(k)
    PROVE  Inv'
  <1> DEFINE h == Home(k)
             c == shards[h]
             d == remove(c, k)
  <1> USE DEF Inv
  <1>1. h \in Shards /\ Good(c) /\ c.list \in Seq(Entries) /\ c.index \subseteq Keys
        /\ c.index = KeysOf(c.list) /\ \A j \in c.index : Home(j) = h
    BY HomeBound, ShardFacts
  <1>2. /\ kind # "2Q" /\ shards' = [shards EXCEPT ![h] = d] /\ Removes(k)
        /\ fifo' = fifo
    BY <1>1 DEF Remove, TypeOK
  <1> HIDE DEF h
  <1>3. /\ Good(d) /\ d.index = c.index \ {k} /\ Range(d.list) \subseteq Range(c.list)
        /\ \A p \in [Keys -> Int] : Ordered(c.list, p) => Ordered(d.list, p)
    BY <1>1, RemoveGood
  <1> HIDE DEF d
  <1>4. \A x \in Range(d.list) : x \in Range(c.list) /\ x.key # k
    <2>1. d.index = KeysOf(d.list) /\ d.list \in Seq(Entries)
      BY <1>3 DEF Good, Caches
    <2>2. \A x \in Range(d.list) : x.key \in d.index
      BY <2>1, KeysOfEntries
    <2> QED
      BY <2>2, <1>3
  <1> HIDE DEF c
  <1>5. /\ kind' = kind /\ hash' = hash /\ expiration' = expiration /\ clock' = clock
        /\ recent' = recent /\ latest' = latest /\ until' = until
    BY <1>2 DEF Removes, configVars
  <1>6. fifo = <<>> /\ fifo' \in Seq(Entries) /\ Distinct(fifo') /\ Len(fifo') <= Capacity
    BY <1>2 DEF Consistent, TypeOK
  <1>7. Consistent' /\ shards' \in [Shards -> Caches]
    BY <1>1, <1>2, <1>3, <1>5, <1>6, ConsistentStep DEF h
  <1>8. /\ TypeOK' /\ RecentInv' /\ HitIsRight'
        /\ putAt'[k] = 0 /\ \A j \in Keys \ {k} : putAt'[j] = putAt[j]
    BY <1>2, <1>6, <1>7, RemovesStep
  <1>9. ValueInv'
    <2>1. putAt'[k] <= clock
      BY <1>8 DEF TypeOK
    <2>2. Range(fifo') = {}
      BY <1>2, <1>6 DEF Range
    <2> HIDE DEF Inv
    <2> QED
      BY <2>1, <2>2, <1>2, <1>4, <1>5, <1>8, ValueStep DEF Inv, h, c
  <1>10. OrderInv'
    BY <1>1, <1>2, <1>3, <1>5, OrderKept DEF c
  <1>11. EvictInv'
    <2>1. ~Wanted(k)'
      BY <1>8 DEF Wanted
    <2> QED
      BY <2>1, <1>2, <1>3, <1>5, <1>8, EvictKept DEF c, h
  <1> QED
    BY <1>7, <1>8, <1>9, <1>10, <1>11

-----------------------------------------------------------------------------
(* The operations of LruCache2Q                                            *)

\* What Get leaves in the LruCache, with and without a Put after it.
LEMMA LruFacts ==
    ASSUME Inv, kind = "2Q", NEW k \in Keys
    PROVE  /\ Good(lru) /\ 0 \in Shards
           /\ Good(get(lru, k)) /\ get(lru, k).index \subseteq lru.index
           /\ Range(get(lru, k).list) \subseteq Range(lru.list)
           /\ ~Live(lru, k) => \A x \in Range(get(lru, k).list) : x.key # k
           /\ \A e \in Entries : e.key = k =>
                /\ Good(put(get(lru, k), e))
                /\ put(get(lru, k), e).index \subseteq lru.index \cup {k}
                /\ \A x \in Range(put(get(lru, k), e).list) :
                     x = e \/ (x \in Range(lru.list) /\ x.key # k)
  <1> DEFINE c == lru
             g == get(c, k)
  <1>1. Good(c) /\ 0 \in Shards
    BY HomeBound, ShardFacts DEF lru, Inv
  <1> HIDE DEF c
  <1>2. /\ Good(g) /\ g.index \subseteq c.index /\ Range(g.list) \subseteq Range(c.list)
        /\ ~Live(c, k) => k \notin g.index
    <2>1. CASE Live(c, k)
      BY <2>1, <1>1, GetGood
    <2>2. CASE ~Live(c, k)
      <3>1. g = remove(c, k)
        BY <2>2 DEF get
      <3>2. /\ Good(remove(c, k)) /\ remove(c, k).index = c.index \ {k}
            /\ Range(remove(c, k).list) \subseteq Range(c.list)
        BY <1>1, RemoveGood
      <3> HIDE DEF g
      <3> QED
        BY <3>1, <3>2
    <2> QED
      BY <2>1, <2>2
  <1> HIDE DEF g
  <1>3. \A x \in Range(g.list) : x.key \in g.index
    BY <1>2, KeysOfEntries DEF Good, Caches
  <1>4. ASSUME NEW e \in Entries, e.key = k
        PROVE  /\ Good(put(g, e)) /\ put(g, e).index \subseteq c.index \cup {k}
               /\ \A x \in Range(put(g, e).list) : x = e \/ (x \in Range(c.list) /\ x.key # k)
    <2>1. /\ Good(put(g, e))
          /\ \/ put(g, e).index = g.index \cup {e.key}
             \/ \E v \in g.index : Evicts(g, put(g, e), e.key, v)
          /\ \A x \in Range(put(g, e).list) :
               x = e \/ (x \in Range(g.list) /\ x.key # e.key)
      BY <1>2, PutGood
    <2> QED
      BY <2>1, <1>2, <1>4 DEF Evicts
  <1> QED
    BY <1>1, <1>2, <1>3, <1>4 DEF c, g

\* The queue and the LruCache are told apart, and what they hold is true.
LEMMA QueueFacts ==
    ASSUME Inv, NEW k \in Keys
    PROVE  /\ fifo \in Seq(Entries) /\ Distinct(fifo) /\ Len(fifo) <= Capacity
           /\ KeysOf(fifo) \subseteq Keys /\ KeysOf(fifo) \cap lru.index = {}
           /\ \A x \in Range(fifo) : x \in Entries /\ x.key \in KeysOf(fifo)
                                     /\ Truthful(x) /\ Queued(x)
           /\ Without(fifo, k) \in Seq(Entries) /\ Distinct(Without(fifo, k))
           /\ Len(Without(fifo, k)) <= Capacity
           /\ KeysOf(Without(fifo, k)) = KeysOf(fifo) \ {k}
           /\ \A x \in Range(Without(fifo, k)) : x \in Range(fifo) /\ x.key # k
           /\ k \in KeysOf(fifo) =>
                /\ Find(fifo, k) \in Entries /\ Find(fifo, k) \in Range(fifo)
                /\ Find(fifo, k).key = k
  <1>1. /\ fifo \in Seq(Entries) /\ Distinct(fifo) /\ Len(fifo) <= Capacity
        /\ KeysOf(fifo) \cap lru.index = {}
    BY DEF Inv, TypeOK, Consistent, lru
  <1>2. KeysOf(fifo) \subseteq Keys
        /\ \A x \in Range(fifo) : x \in Entries /\ x.key \in KeysOf(fifo)
    BY <1>1, KeysOfEntries
  <1>3. /\ Without(fifo, k) \in Seq(Entries) /\ Distinct(Without(fifo, k))
        /\ KeysOf(Without(fifo, k)) = KeysOf(fifo) \ {k}
        /\ Len(Without(fifo, k)) = IF k \in KeysOf(fifo) THEN Len(fifo) - 1 ELSE Len(fifo)
        /\ Range(Without(fifo, k)) \subseteq Range(fifo)
    BY <1>1, WithoutFacts
  <1>4. Len(Without(fifo, k)) <= Capacity
    BY <1>1, <1>3
  <1>5. \A x \in Range(Without(fifo, k)) : x \in Range(fifo) /\ x.key # k
    BY <1>3, KeysOfEntries
  <1>6. k \in KeysOf(fifo) =>
          /\ Find(fifo, k) \in Entries /\ Find(fifo, k) \in Range(fifo)
          /\ Find(fifo, k).key = k
    BY <1>1, FindFacts
  <1>7. \A x \in Range(fifo) : Truthful(x) /\ Queued(x)
    BY DEF Inv, ValueInv
  <1> QED
    BY <1>1, <1>2, <1>3, <1>4, <1>5, <1>6, <1>7

\* What an operation of LruCache2Q has to show: the keys of the LruCache and of
\* the queue stay apart, and what is new in them is true.
LEMMA Step2QInv ==
    ASSUME Inv, kind = "2Q", NEW k \in Keys, NEW d, Good(d),
           shards' = [shards EXCEPT ![0] = d],
           kind' = kind, hash' = hash, expiration' = expiration, clock' = clock,
           fifo' \in Seq(Entries), Distinct(fifo'), Len(fifo') <= Capacity,
           KeysOf(fifo') \cap d.index = {},
           \A j \in Keys \ {k} :
             latest'[j] = latest[j] /\ putAt'[j] = putAt[j] /\ until'[j] = until[j],
           putAt'[k] <= clock,
           \A x \in Range(d.list) : \/ x \in Range(lru.list) /\ x.key # k
                                    \/ Truthful(x)',
           \A x \in Range(fifo') : \/ x \in Range(fifo) /\ x.key # k
                                   \/ Truthful(x)' /\ Queued(x)',
           shards' \in [Shards -> Caches] /\ fifo' \in Seq(Entries) => TypeOK',
           RecentInv', HitIsRight'
    PROVE  Inv'
  <1>1. TypeOK /\ Consistent /\ ValueInv
    BY DEF Inv
  <1>2. \A j : Home(j) = 0
    BY DEF Home
  <1>3. 0 \in Shards
    BY <1>1, <1>2, HomeBound
  <1>4. Consistent' /\ shards' \in [Shards -> Caches]
    BY <1>1, <1>2, <1>3, ConsistentStep
  <1>5. \A x : Timely(x)'
    BY DEF Timely
  <1>6. ValueInv'
    BY <1>1, <1>2, <1>5, ValueStep DEF lru
  <1>7. OrderInv' /\ EvictInv'
    BY DEF OrderInv, EvictInv
  <1> QED
    BY <1>4, <1>6, <1>7 DEF Inv

\* LruCache2Q.Put of a key in the LruCache.
LEMMA PutHitStep ==
    ASSUME Inv, NEW k \in Keys, PutHit(k)
    PROVE  Inv'
  <1>1. PICK e : e = NewEntry(k, clock + expiration)
    OBVIOUS
  <1>2. PICK d : d = put(get(lru, k), e)
    OBVIOUS
  <1>3. kind = "2Q" /\ Live(lru, k) /\ shards' = [shards EXCEPT ![0] = d]
        /\ Stores(k, Lease) /\ fifo' = fifo
    BY <1>1, <1>2 DEF PutHit, SetLru
  <1>4. clock \in Nat /\ clock > 0 /\ expiration \in Nat
    BY DEF Inv, TypeOK
  <1>5. e \in Entries /\ e.key = k /\ e.val = 1 - latest[k] /\ e.exp = clock + expiration
    BY <1>1, <1>4, NewEntryFacts DEF Inv
  <1>6. /\ Good(d) /\ d.index \subseteq lru.index \cup {k}
        /\ \A x \in Range(d.list) : x = e \/ (x \in Range(lru.list) /\ x.key # k)
    BY <1>2, <1>3, <1>5, LruFacts
  <1>7. Lease \in Int
    BY <1>4 DEF Lease
  <1>8. /\ shards' \in [Shards -> Caches] /\ fifo' \in Seq(Entries) => TypeOK'
        /\ RecentInv' /\ HitIsRight'
        /\ latest'[k] = 1 - latest[k] /\ putAt'[k] = clock /\ until'[k] = Lease
        /\ \A j \in Keys \ {k} :
             latest'[j] = latest[j] /\ putAt'[j] = putAt[j] /\ until'[j] = until[j]
    BY <1>3, <1>7, StoresStep DEF Inv
  <1>9. kind' = kind /\ hash' = hash /\ expiration' = expiration /\ clock' = clock
    BY <1>3 DEF Stores, configVars
  <1>10. k \in lru.index
    BY <1>3 DEF Live
  <1>11. /\ fifo' \in Seq(Entries) /\ Distinct(fifo') /\ Len(fifo') <= Capacity
         /\ KeysOf(fifo') \cap d.index = {}
         /\ \A x \in Range(fifo') : x \in Range(fifo) /\ x.key # k
    BY <1>3, <1>6, <1>10, QueueFacts
  <1>12. Truthful(e)'
    <2>1. until'[k] > 0 => e.exp > 0 /\ e.exp <= until'[k]
      BY <1>4, <1>5, <1>8 DEF Lease
    <2> QED
      BY <2>1, <1>4, <1>5, <1>8 DEF Truthful
  <1>13. putAt'[k] <= clock
    BY <1>4, <1>8
  <1> QED
    BY <1>3, <1>6, <1>8, <1>9, <1>11, <1>12, <1>13, Step2QInv

\* LruCache2Q.Put of a key in the queue: the entry gets one duration more than the
\* one that is replaced had, which is not too long.
LEMMA PutPromoteStep ==
    ASSUME Inv, NEW k \in Keys, PutPromote(k)
    PROVE  Inv'
  <1>1. PICK f : f = Find(fifo, k)
    OBVIOUS
  <1>2. PICK e : e = NewEntry(k, f.exp + expiration)
    OBVIOUS
  <1>3. PICK d : d = put(get(lru, k), e)
    OBVIOUS
  <1>4. kind = "2Q" /\ k \in KeysOf(fifo) /\ shards' = [shards EXCEPT ![0] = d]
        /\ Stores(k, Lease) /\ fifo' = Without(fifo, k)
    BY <1>1, <1>2, <1>3 DEF PutPromote, SetLru
  <1>5. /\ clock \in Nat /\ clock > 0 /\ expiration \in Nat
        /\ putAt[k] \in Nat /\ putAt[k] <= clock
    BY DEF Inv, TypeOK, ValueInv
  <1>6. f \in Entries /\ f \in Range(fifo) /\ f.key = k /\ Truthful(f) /\ Queued(f)
        /\ f.exp \in Int
    BY <1>1, <1>4, QueueFacts DEF Entries
  <1>7. e \in Entries /\ e.key = k /\ e.val = 1 - latest[k] /\ e.exp = f.exp + expiration
    BY <1>2, <1>5, <1>6, NewEntryFacts DEF Inv
  <1>8. /\ Good(d) /\ d.index \subseteq lru.index \cup {k}
        /\ \A x \in Range(d.list) : x = e \/ (x \in Range(lru.list) /\ x.key # k)
    BY <1>3, <1>4, <1>7, LruFacts
  <1>9. Lease \in Int
    BY <1>5 DEF Lease
  <1>10. /\ shards' \in [Shards -> Caches] /\ fifo' \in Seq(Entries) => TypeOK'
         /\ RecentInv' /\ HitIsRight'
         /\ latest'[k] = 1 - latest[k] /\ putAt'[k] = clock /\ until'[k] = Lease
         /\ \A j \in Keys \ {k} :
              latest'[j] = latest[j] /\ putAt'[j] = putAt[j] /\ until'[j] = until[j]
    BY <1>4, <1>9, StoresStep DEF Inv
  <1>11. kind' = kind /\ hash' = hash /\ expiration' = expiration /\ clock' = clock
    BY <1>4 DEF Stores, configVars
  <1>12. /\ fifo' \in Seq(Entries) /\ Distinct(fifo') /\ Len(fifo') <= Capacity
         /\ KeysOf(fifo') \cap d.index = {}
         /\ \A x \in Range(fifo') : x \in Range(fifo) /\ x.key # k
    BY <1>4, <1>8, QueueFacts
  <1>13. Truthful(e)'
    <2>1. until'[k] > 0 => e.exp > 0 /\ e.exp <= until'[k]
      <3>1. expiration > 0 => f.exp = putAt[k] + expiration
        BY <1>6 DEF Queued
      <3> QED
        BY <3>1, <1>5, <1>7, <1>10 DEF Lease
    <2> QED
      BY <2>1, <1>5, <1>7, <1>10 DEF Truthful
  <1>14. putAt'[k] <= clock
    BY <1>5, <1>10
  <1> QED
    BY <1>4, <1>8, <1>10, <1>11, <1>12, <1>13, <1>14, Step2QInv

\* LruCache2Q.Put of a new key: the queue drops its last entry when it is full.
LEMMA PutFirstStep ==
    ASSUME Inv, NEW k \in Keys, PutFirst(k)
    PROVE  Inv'
  <1>1. PICK e : e = NewEntry(k, ExpireAt)
    OBVIOUS
  <1>2. PICK d : d = get(lru, k)
    OBVIOUS
  <1>3. PICK s : s = IF Len(fifo) >= Capacity THEN DropLast(fifo) ELSE fifo
    OBVIOUS
  <1>4. kind = "2Q" /\ ~Live(lru, k) /\ k \notin KeysOf(fifo)
        /\ shards' = [shards EXCEPT ![0] = d]
        /\ Stores(k, Lease) /\ fifo' = PushFront(s, e)
    BY <1>1, <1>2, <1>3 DEF PutFirst, SetLru
  <1>5. clock \in Nat /\ clock > 0 /\ expiration \in Nat
    BY DEF Inv, TypeOK
  <1>6. e \in Entries /\ e.key = k /\ e.val = 1 - latest[k] /\ e.exp = ExpireAt
    BY <1>1, <1>5, NewEntryFacts DEF Inv, ExpireAt
  <1>7. /\ Good(d) /\ d.index \subseteq lru.index
        /\ \A x \in Range(d.list) : x \in Range(lru.list) /\ x.key # k
    BY <1>2, <1>4, LruFacts
  <1>8. k \notin d.index
    <2>1. d.list \in Seq(Entries) /\ d.index = KeysOf(d.list)
      BY <1>7 DEF Good, Caches
    <2> QED
      BY <2>1, <1>7, KeysOfEntries
  <1>9. /\ s \in Seq(Entries) /\ Distinct(s) /\ Range(s) \subseteq Range(fifo)
        /\ KeysOf(s) \subseteq KeysOf(fifo) /\ Len(s) < Capacity
    <2>1. fifo \in Seq(Entries) /\ Distinct(fifo) /\ Len(fifo) <= Capacity
      BY QueueFacts
    <2>2. Len(fifo) \in Nat
      BY <2>1
    <2>3. CASE Len(fifo) >= Capacity
      <3>1. s = DropLast(fifo) /\ Len(fifo) > 0
        BY <2>2, <2>3, <1>3
      <3>2. /\ DropLast(fifo) \in Seq(Entries) /\ Distinct(DropLast(fifo))
            /\ Range(DropLast(fifo)) \subseteq Range(fifo)
            /\ KeysOf(DropLast(fifo)) = KeysOf(fifo) \ {fifo[Len(fifo)].key}
            /\ Len(DropLast(fifo)) = Len(fifo) - 1
        BY <3>1, <2>1, DropLastFacts
      <3> QED
        BY <3>1, <3>2, <2>1, <2>2
    <2>4. CASE ~(Len(fifo) >= Capacity)
      BY <2>1, <2>2, <2>4, <1>3
    <2> QED
      BY <2>3, <2>4
  <1>10. /\ fifo' \in Seq(Entries) /\ Distinct(fifo') /\ Range(fifo') = {e} \cup Range(s)
         /\ KeysOf(fifo') = {k} \cup KeysOf(s) /\ Len(fifo') = Len(s) + 1
    BY <1>4, <1>6, <1>9, PushFrontFacts
  <1>11. Len(fifo') <= Capacity /\ KeysOf(fifo') \cap d.index = {}
         /\ \A x \in Range(s) : x \in Range(fifo) /\ x.key # k
    <2>1. Len(s) \in Nat
      BY <1>9
    <2>2. Len(fifo') <= Capacity
      BY <2>1, <1>9, <1>10
    <2>3. KeysOf(fifo') \cap d.index = {}
      BY <1>7, <1>8, <1>9, <1>10, QueueFacts
    <2>4. \A x \in Range(s) : x \in Range(fifo) /\ x.key # k
      BY <1>4, <1>9, QueueFacts
    <2> QED
      BY <2>2, <2>3, <2>4
  <1>12. Lease \in Int
    BY <1>5 DEF Lease
  <1>13. /\ shards' \in [Shards -> Caches] /\ fifo' \in Seq(Entries) => TypeOK'
         /\ RecentInv' /\ HitIsRight'
         /\ latest'[k] = 1 - latest[k] /\ putAt'[k] = clock /\ until'[k] = Lease
         /\ \A j \in Keys \ {k} :
              latest'[j] = latest[j] /\ putAt'[j] = putAt[j] /\ until'[j] = until[j]
    BY <1>4, <1>12, StoresStep DEF Inv
  <1>14. kind' = kind /\ hash' = hash /\ expiration' = expiration /\ clock' = clock
    BY <1>4 DEF Stores, configVars
  <1>15. Truthful(e)' /\ Queued(e)'
    <2>1. until'[k] > 0 => e.exp > 0 /\ e.exp <= until'[k]
      BY <1>5, <1>6, <1>13 DEF Lease, ExpireAt
    <2>2. Truthful(e)'
      BY <2>1, <1>5, <1>6, <1>13 DEF Truthful
    <2>3. Queued(e)'
      BY <1>5, <1>6, <1>13, <1>14 DEF Queued, Lease, ExpireAt
    <2> QED
      BY <2>2, <2>3
  <1>16. putAt'[k] <= clock
    BY <1>5, <1>13
  <1>17. \A x \in Range(fifo') : \/ x \in Range(fifo) /\ x.key # k
                                 \/ Truthful(x)' /\ Queued(x)'
    BY <1>10, <1>11, <1>15
  <1> QED
    BY <1>4, <1>7, <1>10, <1>11, <1>13, <1>14, <1>16, <1>17, Step2QInv

\* LruCache2Q.Get finds the key in the LruCache.
LEMMA GetHit2QStep ==
    ASSUME Inv, NEW k \in Keys, GetHit2Q(k)
    PROVE  Inv'
  <1>1. PICK v : v = Find(lru.list, k).val
    OBVIOUS
  <1>2. PICK d : d = get(lru, k)
    OBVIOUS
  <1>3. kind = "2Q" /\ Live(lru, k) /\ shards' = [shards EXCEPT ![0] = d]
        /\ Hits(k, v) /\ fifo' = fifo
    BY <1>1, <1>2 DEF GetHit2Q, SetLru
  <1>4. /\ Good(d) /\ d.index \subseteq lru.index
        /\ Range(d.list) \subseteq Range(lru.list) /\ 0 \in Shards
    BY <1>2, <1>3, LruFacts
  <1>5. k \in lru.index /\ v \in {0, 1} /\ v = latest[k] /\ Wanted(k)
    BY <1>1, <1>3, <1>4, LiveFacts DEF Inv, lru, Entries
  <1>6. /\ shards' \in [Shards -> Caches] /\ fifo' \in Seq(Entries) => TypeOK'
        /\ RecentInv' /\ HitIsRight'
    BY <1>3, <1>5, HitsStep DEF Inv
  <1>7. /\ kind' = kind /\ hash' = hash /\ expiration' = expiration /\ clock' = clock
        /\ latest' = latest /\ putAt' = putAt /\ until' = until
    BY <1>3 DEF Hits, configVars
  <1>8. /\ fifo' \in Seq(Entries) /\ Distinct(fifo') /\ Len(fifo') <= Capacity
        /\ KeysOf(fifo') \cap d.index = {}
        /\ \A x \in Range(fifo') : x \in Range(fifo) /\ x.key # k
    BY <1>3, <1>4, <1>5, QueueFacts
  <1>9. \A x \in Range(d.list) : Truthful(x)'
    <2>1. \A x \in Range(d.list) : Truthful(x)
      BY <1>4 DEF Inv, ValueInv, lru
    <2> QED
      BY <2>1, <1>7 DEF Truthful
  <1>10. putAt'[k] <= clock
    BY <1>7 DEF Inv, ValueInv
  <1> QED
    BY <1>3, <1>4, <1>6, <1>7, <1>8, <1>9, <1>10, Step2QInv

\* Get misses: what it deletes on the way had expired.
LEMMA Misses2QStep ==
    ASSUME Inv, NEW k \in Keys, kind = "2Q", ~Live(lru, k), SetLru(get(lru, k)), Misses,
           fifo' = Without(fifo, k) \/ (fifo' = fifo /\ k \notin KeysOf(fifo))
    PROVE  Inv'
  <1>1. PICK d : d = get(lru, k)
    OBVIOUS
  <1>2. shards' = [shards EXCEPT ![0] = d]
    BY <1>1 DEF SetLru
  <1>3. /\ Good(d) /\ d.index \subseteq lru.index
        /\ \A x \in Range(d.list) : x \in Range(lru.list) /\ x.key # k
    BY <1>1, LruFacts
  <1>4. /\ shards' \in [Shards -> Caches] /\ fifo' \in Seq(Entries) => TypeOK'
        /\ RecentInv' /\ HitIsRight'
    BY MissesStep DEF Inv
  <1>5. /\ kind' = kind /\ hash' = hash /\ expiration' = expiration /\ clock' = clock
        /\ latest' = latest /\ putAt' = putAt /\ until' = until
    BY DEF Misses, configVars
  <1>6. /\ fifo' \in Seq(Entries) /\ Distinct(fifo') /\ Len(fifo') <= Capacity
        /\ KeysOf(fifo') \cap d.index = {}
        /\ \A x \in Range(fifo') : x \in Range(fifo) /\ x.key # k
    BY <1>3, QueueFacts
  <1>7. putAt'[k] <= clock
    BY <1>5 DEF Inv, ValueInv
  <1> QED
    BY <1>2, <1>3, <1>4, <1>5, <1>6, <1>7, Step2QInv

\* LruCache2Q.Get moves the entry from the queue to the LruCache and renews it.
LEMMA GetPromoteStep ==
    ASSUME Inv, NEW k \in Keys, GetPromote(k)
    PROVE  Inv'
  <1>1. PICK f : f = Find(fifo, k)
    OBVIOUS
  <1>2. PICK e : e = [f EXCEPT !.exp = ExpireAt]
    OBVIOUS
  <1>3. PICK d : d = put(get(lru, k), e)
    OBVIOUS
  <1>4. kind = "2Q" /\ k \in KeysOf(fifo) /\ ~FifoExpired(k)
        /\ shards' = [shards EXCEPT ![0] = d]
        /\ Hits(k, f.val) /\ fifo' = Without(fifo, k)
    BY <1>1, <1>2, <1>3 DEF GetPromote, SetLru
  <1>5. /\ clock \in Nat /\ clock > 0 /\ expiration \in Nat
        /\ putAt[k] \in Nat /\ putAt[k] <= clock /\ until[k] \in Int
    BY DEF Inv, TypeOK, ValueInv
  <1>6. f \in Entries /\ f \in Range(fifo) /\ f.key = k /\ Truthful(f) /\ Queued(f)
        /\ f.exp \in Int /\ f.val \in {0, 1}
    BY <1>1, <1>4, QueueFacts DEF Entries
  <1>7. ExpireAt \in Int
    BY <1>5 DEF ExpireAt
  <1>8. e \in Entries /\ e.key = k /\ e.val = f.val /\ e.exp = ExpireAt
    BY <1>2, <1>6, <1>7 DEF Entries
  <1>9. /\ Good(d) /\ d.index \subseteq lru.index \cup {k}
        /\ \A x \in Range(d.list) : x = e \/ (x \in Range(lru.list) /\ x.key # k)
    BY <1>3, <1>4, <1>8, LruFacts
  <1>10. /\ kind' = kind /\ hash' = hash /\ expiration' = expiration /\ clock' = clock
         /\ latest' = latest /\ putAt' = putAt /\ until' = until
    BY <1>4 DEF Hits, configVars
  \* It has not expired, so less than one duration has passed since its Put.
  <1>11. /\ f.val = latest[k] /\ putAt[k] > 0
         /\ expiration > 0 => /\ clock < putAt[k] + expiration
                              /\ until[k] = putAt[k] + 2 * expiration
         /\ expiration = 0 => until[k] = 0
    <2>1. f.exp <= 0 \/ clock < f.exp
      BY <1>1, <1>4, <1>5, <1>6 DEF FifoExpired
    <2> QED
      BY <2>1, <1>5, <1>6 DEF Truthful, Queued
  <1>12. Wanted(k)
    BY <1>5, <1>11 DEF Wanted
  <1>13. /\ shards' \in [Shards -> Caches] /\ fifo' \in Seq(Entries) => TypeOK'
         /\ RecentInv' /\ HitIsRight'
    BY <1>4, <1>6, <1>11, <1>12, HitsStep DEF Inv
  <1>14. /\ fifo' \in Seq(Entries) /\ Distinct(fifo') /\ Len(fifo') <= Capacity
         /\ KeysOf(fifo') \cap d.index = {}
         /\ \A x \in Range(fifo') : x \in Range(fifo) /\ x.key # k
    BY <1>4, <1>9, QueueFacts
  <1>15. Truthful(e)'
    <2>1. until[k] > 0 => e.exp > 0 /\ e.exp <= until[k]
      BY <1>5, <1>8, <1>11 DEF ExpireAt
    <2> QED
      BY <2>1, <1>8, <1>10, <1>11 DEF Truthful
  <1>16. putAt'[k] <= clock
    BY <1>5, <1>10
  <1> QED
    BY <1>4, <1>9, <1>10, <1>13, <1>14, <1>15, <1>16, Step2QInv

\* LruCache2Q.Remove deletes the key from both.
LEMMA Remove2QStep ==
    ASSUME Inv, NEW k \in Keys, Remove2Q(k)
    PROVE  Inv'
  <1>1. PICK d : d = remove(lru, k)
    OBVIOUS
  <1>2. kind = "2Q" /\ shards' = [shards EXCEPT ![0] = d]
        /\ Removes(k) /\ fifo' = Without(fifo, k)
    BY <1>1 DEF Remove2Q, SetLru
  <1>3. Good(d) /\ d.index = lru.index \ {k} /\ Range(d.list) \subseteq Range(lru.list)
    <2>1. Good(lru)
      BY <1>2, LruFacts
    <2> QED
      BY <2>1, <1>1, RemoveGood
  <1>4. \A x \in Range(d.list) : x.key # k
    <2>1. d.list \in Seq(Entries) /\ d.index = KeysOf(d.list)
      BY <1>3 DEF Good, Caches
    <2>2. \A x \in Range(d.list) : x.key \in d.index
      BY <2>1, KeysOfEntries
    <2> QED
      BY <2>2, <1>3
  <1>5. /\ shards' \in [Shards -> Caches] /\ fifo' \in Seq(Entries) => TypeOK'
        /\ RecentInv' /\ HitIsRight'
        /\ putAt'[k] = 0 /\ \A j \in Keys \ {k} : putAt'[j] = putAt[j]
    BY <1>2, RemovesStep DEF Inv
  <1>6. /\ kind' = kind /\ hash' = hash /\ expiration' = expiration /\ clock' = clock
        /\ latest' = latest /\ until' = until
    BY <1>2 DEF Removes, configVars
  <1>7. /\ fifo' \in Seq(Entries) /\ Distinct(fifo') /\ Len(fifo') <= Capacity
        /\ KeysOf(fifo') \cap d.index = {}
        /\ \A x \in Range(fifo') : x \in Range(fifo) /\ x.key # k
    BY <1>2, <1>3, QueueFacts
  <1>8. putAt'[k] <= clock
    BY <1>5 DEF Inv, TypeOK
  <1> QED
    BY <1>2, <1>3, <1>4, <1>5, <1>6, <1>7, <1>8, Step2QInv

-----------------------------------------------------------------------------
(* The invariant holds of every state                                      *)

\* New caches are empty.
THEOREM InvInit == Init => Inv
  <1> SUFFICES ASSUME Init
               PROVE  Inv
    OBVIOUS
  <1>1. Empty \in Caches /\ Empty.list = <<>> /\ Empty.index = {}
    BY DEF Empty, Caches
  <1>2. KeysOf(<<>>) = {} /\ Range(<<>>) = {}
    BY DEF KeysOf, Range
  <1>3. \A i \in Shards : shards[i] = Empty
    BY DEF Init
  <1>4. TypeOK
    BY <1>1 DEF Init, TypeOK
  <1>5. 0 \in Shards /\ DOMAIN shards = Shards
    BY DEF Init, Shards
  <1>6. Consistent
    <2>1. Distinct(<<>>) /\ Len(<<>>) <= Capacity
      BY DEF Distinct
    <2> QED
      BY <2>1, <1>1, <1>2, <1>3, <1>5 DEF Consistent, Init
  <1>7. ValueInv
    BY <1>1, <1>2, <1>3 DEF ValueInv, Init
  <1>8. RecentInv
    BY DEF RecentInv, IsInjective, Init
  <1>9. OrderInv
    BY <1>1, <1>3 DEF OrderInv, Ordered
  <1>10. EvictInv
    BY DEF EvictInv, Wanted, Init
  <1>11. HitIsRight
    BY DEF HitIsRight, Init
  <1> QED
    BY <1>4, <1>6, <1>7, <1>8, <1>9, <1>10, <1>11 DEF Inv

\* Every step of the caches preserves the invariant.
THEOREM InvNext == Inv /\ [Next]_vars => Inv'
  <1> SUFFICES ASSUME Inv, [Next]_vars
               PROVE  Inv'
    OBVIOUS
  <1>1. CASE Tick
    BY <1>1, TickStep
  <1>2. CASE \E h \in Hashes : SetHashFunc(h)
    BY <1>2, SetHashFuncStep
  <1>3. ASSUME NEW k \in Keys, LruStep(k)
        PROVE  Inv'
    BY <1>3, PutStep, GetHitStep, GetMissStep, RemoveStep DEF LruStep
  <1>4. ASSUME NEW k \in Keys, Step2Q(k)
        PROVE  Inv'
    <2>1. CASE PutHit(k) \/ PutPromote(k) \/ PutFirst(k)
      BY <2>1, PutHitStep, PutPromoteStep, PutFirstStep
    <2>2. CASE GetHit2Q(k) \/ GetPromote(k) \/ Remove2Q(k)
      BY <2>2, GetHit2QStep, GetPromoteStep, Remove2QStep
    <2>3. CASE GetExpired(k)
      BY <2>3, Misses2QStep DEF GetExpired
    <2>4. CASE GetMiss2Q(k)
      BY <2>4, Misses2QStep DEF GetMiss2Q
    <2> QED
      BY <2>1, <2>2, <2>3, <2>4, <1>4 DEF Step2Q
  <1>5. CASE UNCHANGED vars
    <2>1. UNCHANGED <<kind, expiration, hash, shards, fifo, clock, latest, putAt,
                      until, recent, result>>
      BY <1>5 DEF vars, configVars
    <2>2. TypeOK' /\ Consistent' /\ HitIsRight'
      BY <2>1 DEF Inv, TypeOK, Consistent, HitIsRight, Home, getShard
    <2>3. ValueInv'
      BY <2>1 DEF Inv, ValueInv, Truthful, Timely, Queued
    <2>4. RecentInv' /\ OrderInv'
      BY <2>1 DEF Inv, RecentInv, OrderInv
    <2>5. EvictInv'
      BY <2>1 DEF Inv, EvictInv, Wanted, Home, getShard
    <2> QED
      BY <2>2, <2>3, <2>4, <2>5 DEF Inv
  <1> QED
    BY <1>1, <1>2, <1>3, <1>4, <1>5 DEF Next

\* Inv holds of every state the caches reach.
THEOREM Invariance == Spec => []Inv
  <1> QED
    BY InvInit, InvNext, PTL DEF Spec

\* Every variable has its type in every state the caches reach.
THEOREM TypeCorrect == Spec => []TypeOK
  <1>1. Inv => TypeOK
    BY DEF Inv
  <1> QED
    BY <1>1, Invariance, PTL

\* indexMap and the list of every LruCache, and the queue of LruCache2Q, agree:
\* each key once, in one of them, in its own shard, and never more than Capacity.
THEOREM CachesConsistent == Spec => []Consistent
  <1>1. Inv => Consistent
    BY DEF Inv
  <1> QED
    BY <1>1, Invariance, PTL

\* A Get that hits returns the value of the last Put, before its time is over.
THEOREM HitsAreRight == Spec => []HitIsRight
  <1>1. Inv => HitIsRight
    BY DEF Inv
  <1> QED
    BY <1>1, Invariance, PTL

\* What evict of LruCache removes is the key that was used longest ago.
THEOREM OldestEvicted == Spec => []EvictsOldest
  <1>1. Inv => EvictsOldest
    BY EvictFacts DEF Inv
  <1> QED
    BY <1>1, Invariance, PTL
=============================================================================
