--------------------------- MODULE HeaderMapProofs ---------------------------
(***************************************************************************)
(* The list of a HeaderMap stays well formed and in order, and lookups     *)
(* find what it holds, for every hash function, every table size and any   *)
(* number of names, nodes and failed allocations.                          *)
(*                                                                         *)
(* The order of the nodes is a sequence q.  Linked(m, q) says that both    *)
(* directions of the list are q; Chained(m, q) says that each chain runs   *)
(* through the nodes of its bucket from the last in q to the first, which  *)
(* is so after a rehash, after an insertion and after a removal.  Each     *)
(* operation is a lemma about what becomes of m and of q.                  *)
(***************************************************************************)
EXTENDS HeaderMap, NaturalsLemmas, SequenceTheorems

LowerName == {ToLower(name) : name \in Name}
Header == [name : LowerName, value : Value]
NodeType == [name : LowerName, value : Value,
             prev : Pointer, next : Pointer, hash_next : Pointer]

IsMap(m) ==
  /\ m \in [node : [DOMAIN m.node -> NodeType], head : Pointer, tail : Pointer,
            size : 0..MaxNodes, buckets : [0 .. (m.bucket_count - 1) -> Pointer],
            bucket_count : Nat \ {0}]
  /\ DOMAIN m.node \subseteq 1..MaxNodes

(* q lists all nodes, each once.                                           *)
Lists(m, q) ==
  /\ q \in Seq(DOMAIN m.node) /\ Len(q) = m.size
  /\ \A n \in DOMAIN m.node : \E k \in 1..m.size : q[k] = n
  /\ \A j, k \in 1..m.size : q[j] = q[k] => j = k

(* The links follow q, forwards and backwards.                             *)
Linked(m, q) ==
  /\ IsMap(m) /\ Lists(m, q)
  /\ m.head = IF m.size = 0 THEN NULL ELSE q[1]
  /\ m.tail = IF m.size = 0 THEN NULL ELSE q[m.size]
  /\ \A k \in 1..m.size :
       /\ m.node[q[k]].prev = IF k = 1 THEN NULL ELSE q[k - 1]
       /\ m.node[q[k]].next = IF k = m.size THEN NULL ELSE q[k + 1]

(* The bucket of the node at place k of the list.                          *)
BucketAt(m, q, k) == BucketIndex(m.node[q[k]].name, m.bucket_count)

(* p is the last node of bucket b among the first k of the list, or NULL.  *)
IsLast(m, q, b, k, p) ==
  \/ /\ p = NULL
     /\ \A i \in 1..k : BucketAt(m, q, i) # b
  \/ \E i \in 1..k : /\ p = q[i] /\ BucketAt(m, q, i) = b
                     /\ \A j \in 1..k : j > i => BucketAt(m, q, j) # b

Chained(m, q) ==
  /\ \A k \in 1..m.size :
       IsLast(m, q, BucketAt(m, q, k), k - 1, m.node[q[k]].hash_next)
  /\ \A b \in 0 .. (m.bucket_count - 1) : IsLast(m, q, b, m.size, m.buckets[b])

NamesDiffer(m, q) ==
  \A j, k \in 1..m.size : m.node[q[j]].name = m.node[q[k]].name => j = k

(* The headers along q.                                                    *)
HeadersAlong(m, q) == [k \in 1..m.size |-> [name |-> m.node[q[k]].name,
                                            value |-> m.node[q[k]].value]]

Sound(m, q) == Linked(m, q) /\ Chained(m, q) /\ NamesDiffer(m, q)

(* The inductive invariant.                                                *)
MapInv ==
  /\ Linked(map, Order(map))
  /\ damaged \in BOOLEAN
  /\ faults \in 0..MaxFaults
  /\ ~damaged => /\ Sound(map, Order(map))
                 /\ promised = HeadersAlong(map, Order(map))

-----------------------------------------------------------------------------
(* Names and buckets.                                                      *)

(* A name is folded once, and then has a bucket in every table.            *)
LEMMA NamesFold ==
  /\ LowerName \subseteq Name
  /\ \A name \in Name : ToLower(name) \in LowerName
  /\ \A name \in LowerName : ToLower(name) = name /\ Hash(name) \in Nat
  /\ \A name \in LowerName, count \in Nat \ {0} :
       BucketIndex(name, count) \in 0 .. (count - 1)
<1>1. LowerName \subseteq Name /\ \A name \in Name : ToLower(name) \in LowerName
  BY HeaderMapAssumption DEF LowerName
<1>2. ASSUME NEW name \in LowerName
      PROVE  ToLower(name) = name /\ Hash(name) \in Nat
  <2>1. PICK given \in Name : name = ToLower(given)
    BY DEF LowerName
  <2>2. Hash(name) \in Nat
    BY <2>1, HeaderMapAssumption
  <2>3. given \in Seq(Octet)
    BY HeaderMapAssumption DEF String
  <2>4. \A i \in DOMAIN given : given[i] \in Octet
    BY <2>3
  <2>5. \A i \in DOMAIN given : LowerCase[LowerCase[given[i]]] = LowerCase[given[i]]
    BY <2>4, OctetAssumption
  <2>6. ToLower(ToLower(given)) = ToLower(given)
    BY <2>5 DEF ToLower
  <2> QED
    BY <2>1, <2>2, <2>6
<1>3. ASSUME NEW name \in LowerName, NEW count \in Nat \ {0}
      PROVE  BucketIndex(name, count) \in 0 .. (count - 1)
  <2>1. Hash(name) \in Nat
    BY <1>2
  <2> QED
    BY <2>1 DEF BucketIndex
<1> QED
  BY <1>1, <1>2, <1>3

-----------------------------------------------------------------------------
(* Walking the list and the chains.                                        *)

(* What walking along next from head visits is the one sequence to which   *)
(* the links belong.                                                       *)
LEMMA OrderIs ==
  ASSUME NEW m, NEW q, Linked(m, q)
  PROVE  Order(m) = q
<1> DEFINE Walk(at) == [k \in 1..m.size |-> IF k = 1 THEN m.head
                                            ELSE m.node[at[k - 1]].next]
<1>1. /\ m.size \in Nat /\ q \in Seq(DOMAIN m.node) /\ Len(q) = m.size
      /\ m.size # 0 => m.head = q[1]
      /\ \A k \in 1..m.size : k # m.size => m.node[q[k]].next = q[k + 1]
  BY DEF Linked, IsMap, Lists
<1>2. q = Walk(q)
  <2>1. \A k \in 1..m.size : q[k] = Walk(q)[k]
    <3> TAKE k \in 1..m.size
    <3>1. CASE k = 1
      BY <1>1, <3>1
    <3>2. CASE k # 1
      <4>1. k - 1 \in 1..m.size /\ k - 1 # m.size /\ k - 1 + 1 = k
        BY <1>1, <3>2
      <4> QED
        BY <1>1, <3>2, <4>1
    <3> QED
      BY <3>1, <3>2
  <2> QED
    BY <1>1, <2>1
<1>3. ASSUME NEW at, at = Walk(at)
      PROVE  at = q
  <2> DEFINE S == {k \in Nat : k \in 1..m.size => at[k] = q[k]}
  <2>1. 0 \in S
    OBVIOUS
  <2>2. ASSUME NEW k \in Nat, k \in S
        PROVE  k + 1 \in S
    <3> SUFFICES ASSUME k + 1 \in 1..m.size PROVE at[k + 1] = q[k + 1]
      OBVIOUS
    <3>1. at[k + 1] = IF k + 1 = 1 THEN m.head ELSE m.node[at[k + 1 - 1]].next
      <4>1. Walk(at)[k + 1] = IF k + 1 = 1 THEN m.head
                              ELSE m.node[at[k + 1 - 1]].next
        OBVIOUS
      <4>2. at[k + 1] = Walk(at)[k + 1]
        <5> HIDE DEF Walk
        <5> QED
          BY <1>3
      <4> QED
        BY <4>1, <4>2, Zenon
    <3>2. CASE k = 0
      BY <1>1, <3>1, <3>2
    <3>3. CASE k # 0
      <4>1. k \in 1..m.size /\ k # m.size
        BY <1>1, <3>3
      <4>2. at[k] = q[k] /\ k + 1 - 1 = k
        BY <2>2, <4>1
      <4> QED
        BY <1>1, <3>1, <3>3, <4>1, <4>2
    <3> QED
      BY <3>2, <3>3
  <2>3. Nat \subseteq S
    <3> HIDE DEF S
    <3> QED
      BY <2>1, <2>2, NatsByInduction
  <2>4. \A k \in 1..m.size : at[k] = q[k]
    BY <1>1, <2>3
  <2>5. at = [k \in 1..m.size |-> at[k]]
    BY <1>3
  <2>6. q = [k \in 1..m.size |-> q[k]]
    BY <1>1
  <2> QED
    BY <2>4, <2>5, <2>6
<1>4. (CHOOSE at : at = Walk(at)) = q
  <2> HIDE DEF Walk
  <2> QED
    BY <1>2, <1>3
<1> QED
  BY <1>4, Zenon DEF Order

(* A chain begins at its bucket and follows hash_next.                     *)
LEMMA ChainIs ==
  ASSUME NEW m, NEW name, Cardinality(DOMAIN m.node) \in Nat
  PROVE  /\ DOMAIN Chain(m, name) = 0 .. Cardinality(DOMAIN m.node)
         /\ Chain(m, name)[0] = m.buckets[BucketIndex(name, m.bucket_count)]
         /\ \A k \in 1 .. Cardinality(DOMAIN m.node) :
              Chain(m, name)[k] = IF Chain(m, name)[k - 1] = NULL THEN NULL
                                  ELSE m.node[Chain(m, name)[k - 1]].hash_next
<1> DEFINE first == m.buckets[BucketIndex(name, m.bucket_count)]
           Follow(p) == IF p = NULL THEN NULL ELSE m.node[p].hash_next
           Walk(n, at) == [k \in 0..n |-> IF k = 0 THEN first
                                          ELSE IF at[k - 1] = NULL THEN NULL
                                          ELSE m.node[at[k - 1]].hash_next]
           S == {n \in Nat : \E at : at = Walk(n, at)}
           last == Cardinality(DOMAIN m.node)
<1>1. 0 \in S
  <2>1. [k \in 0..0 |-> first] = Walk(0, [k \in 0..0 |-> first])
    OBVIOUS
  <2> QED
    BY <2>1
<1>2. ASSUME NEW n \in Nat, n \in S
      PROVE  n + 1 \in S
  <2>1. PICK at : at = Walk(n, at)
    BY <1>2
  <2> DEFINE longer == [k \in 0..(n + 1) |-> IF k = n + 1 THEN Follow(at[n])
                                             ELSE at[k]]
  <2>2. \A k \in 0..(n + 1) : longer[k] = Walk(n + 1, longer)[k]
    <3> TAKE k \in 0..(n + 1)
    <3>1. CASE k = n + 1
      BY <3>1
    <3>2. CASE k # n + 1
      <4>1. k \in 0..n /\ longer[k] = at[k] /\ (k # 0 => longer[k - 1] = at[k - 1])
        BY <3>2
      <4>2. at[k] = IF k = 0 THEN first
                    ELSE IF at[k - 1] = NULL THEN NULL
                    ELSE m.node[at[k - 1]].hash_next
        BY <2>1, <4>1
      <4> QED
        BY <4>1, <4>2
    <3> QED
      BY <3>1, <3>2
  <2>3. longer = Walk(n + 1, longer)
    BY <2>2
  <2> HIDE DEF longer, Walk
  <2> QED
    BY <2>3
<1>3. last \in S
  <2> HIDE DEF S
  <2> QED
    BY <1>1, <1>2, NatsByInduction
<1>4. Chain(m, name) = CHOOSE at : at = Walk(last, at)
  BY Zenon DEF Chain
<1>5. Chain(m, name) = Walk(last, Chain(m, name))
  <2> HIDE DEF Walk
  <2> QED
    BY <1>3, <1>4
<1> HIDE DEF S
<1> QED
  BY <1>5

(* There are as many nodes as the list is long.                            *)
LEMMA NodesAreCounted ==
  ASSUME NEW m, NEW q, m.size \in Nat, Lists(m, q)
  PROVE  IsFiniteSet(DOMAIN m.node) /\ Cardinality(DOMAIN m.node) = m.size
<1>1. q \in [1..m.size -> DOMAIN m.node]
  BY DEF Lists
<1>2. q \in Bijection(1..m.size, DOMAIN m.node)
  BY <1>1, Zenon DEF Lists, Bijection, Injection, Surjection, IsInjective
<1>3. IsFiniteSet(1..m.size) /\ Cardinality(1..m.size) = m.size
  BY FS_Interval
<1>4. ExistsBijection(1..m.size, DOMAIN m.node)
  BY <1>2, Zenon DEF ExistsBijection
<1> QED
  BY <1>3, <1>4, FS_Bijection, Zenon

(* A list that is linked is what the types and the list invariant ask for. *)
LEMMA LinkedIsIntact ==
  ASSUME Linked(map, Order(map)), damaged \in BOOLEAN, faults \in 0..MaxFaults
  PROVE  TypeOK /\ ListIntact
<1> DEFINE q == Order(map)
<1>1. /\ map.size \in Nat /\ q \in Seq(DOMAIN map.node) /\ Len(q) = map.size
      /\ \A n \in DOMAIN map.node : \E k \in 1..map.size : q[k] = n
      /\ map.head = IF map.size = 0 THEN NULL ELSE q[1]
      /\ map.tail = IF map.size = 0 THEN NULL ELSE q[map.size]
      /\ \A k \in 1..map.size :
           /\ map.node[q[k]].prev = IF k = 1 THEN NULL ELSE q[k - 1]
           /\ map.node[q[k]].next = IF k = map.size THEN NULL ELSE q[k + 1]
  BY DEF Linked, IsMap, Lists
<1>2. TypeOK
  BY DEF Linked, IsMap, TypeOK, NodeType, LowerName
<1>3. Cardinality(DOMAIN map.node) = map.size
  BY <1>1, NodesAreCounted DEF Linked
<1>4. ToSet(q) = DOMAIN map.node
  <2> HIDE DEF q
  <2>1. DOMAIN q = 1..map.size /\ \A k \in 1..map.size : q[k] \in DOMAIN map.node
    BY <1>1
  <2>2. ToSet(q) = {q[k] : k \in 1..map.size}
    BY <2>1, Zenon DEF ToSet
  <2> QED
    BY <1>1, <2>1, <2>2
<1>5. /\ map.size = 0 => map.head = NULL /\ map.tail = NULL
      /\ map.size > 0 => /\ map.node[map.head].prev = NULL
                         /\ map.tail = q[map.size]
                         /\ map.node[map.tail].next = NULL
  <2> HIDE DEF q
  <2> QED
    BY <1>1
<1>6. \A k \in 2..map.size : map.node[q[k]].prev = q[k - 1]
  <2> HIDE DEF q
  <2> QED
    BY <1>1
<1> QED
  BY <1>2, <1>3, <1>4, <1>5, <1>6 DEF ListIntact

-----------------------------------------------------------------------------
(* Chains.                                                                 *)

(* A bucket of which the last node is known has no other last node.        *)
LEMMA LastIsUnique ==
  ASSUME NEW m, NEW q, NEW b, NEW k \in Nat, NEW p, NEW r,
         IsLast(m, q, b, k, p), IsLast(m, q, b, k, r)
  PROVE  p = r
BY DEF IsLast

(* What rehash puts before a node is the last one of the bucket so far.    *)
LEMMA LastOfIs ==
  ASSUME NEW m, NEW q, Linked(m, q), NEW count \in Nat \ {0}, NEW b,
         NEW k \in 0..m.size
  PROVE  LET p == LastOf(m, InBucket(m, b, count, k))
         IN  /\ p \in Pointer
             /\ \/ /\ p = NULL
                   /\ \A i \in 1..k : BucketIndex(m.node[q[i]].name, count) # b
                \/ \E i \in 1..k :
                     /\ p = q[i] /\ BucketIndex(m.node[q[i]].name, count) = b
                     /\ \A j \in 1..k :
                          j > i => BucketIndex(m.node[q[j]].name, count) # b
<1> DEFINE P == InBucket(m, b, count, k)
<1>1. Order(m) = q
  BY OrderIs
<1>2. P = {i \in 1..k : BucketIndex(m.node[q[i]].name, count) = b}
  BY <1>1 DEF InBucket
<1>3. /\ m.size \in Nat /\ MaxNodes \in Nat
      /\ \A i \in 1..m.size : q[i] \in 1..MaxNodes
  BY HeaderMapAssumption DEF Linked, IsMap, Lists
<1>4. CASE P = {}
  <2>1. LastOf(m, P) = NULL
    BY <1>4 DEF LastOf
  <2> QED
    BY <1>2, <1>3, <1>4, <2>1 DEF NULL, Pointer
<1>5. CASE P # {}
  <2>1. P \in SUBSET (0..k)
    BY <1>2, <1>3
  <2>2. Max(P) \in P /\ \A i \in P : i <= Max(P)
    <3>1. k \in Nat
      BY <1>3
    <3> HIDE DEF P
    <3> QED
      BY <1>5, <2>1, <3>1, MaxOfNats, Zenon
  <2>3. LastOf(m, P) = q[Max(P)]
    BY <1>1, <1>5 DEF LastOf
  <2> DEFINE i == Max(P)
  <2>4. i \in 1..k /\ BucketIndex(m.node[q[i]].name, count) = b
    <3> HIDE DEF i
    <3> QED
      BY <1>2, <2>2 DEF i
  <2>5. \A j \in 1..k : j > i => BucketIndex(m.node[q[j]].name, count) # b
    <3>1. \A j \in 1..k : BucketIndex(m.node[q[j]].name, count) = b => j \in P
      BY <1>2
    <3>2. i \in Nat
      BY <2>4
    <3> HIDE DEF P, i
    <3> QED
      BY <2>2, <3>1, <3>2 DEF i
  <2>6. q[i] \in Pointer
    BY <1>3, <2>4 DEF Pointer
  <2> HIDE DEF P, i
  <2> QED
    BY <2>3, <2>4, <2>5, <2>6 DEF i, P
<1> QED
  BY <1>4, <1>5

(* The list is as it was when only values and chains have changed.         *)
LEMMA SameList ==
  ASSUME NEW m, NEW q, Linked(m, q), NEW r, IsMap(r),
         DOMAIN r.node = DOMAIN m.node,
         r.head = m.head, r.tail = m.tail, r.size = m.size,
         \A n \in DOMAIN m.node : /\ r.node[n].prev = m.node[n].prev
                                  /\ r.node[n].next = m.node[n].next
  PROVE  Linked(r, q)
<1>1. Lists(r, q)
  BY DEF Linked, Lists
<1>2. m.size \in Nat /\ \A k \in 1..m.size : q[k] \in DOMAIN m.node
  BY DEF Linked, IsMap, Lists
<1> QED
  BY <1>1, <1>2 DEF Linked

(* Rehashing changes no node but for where its chain goes on.              *)
LEMMA RechainedNodes ==
  ASSUME NEW m, NEW q, Linked(m, q), NEW count \in Nat \ {0}
  PROVE  /\ Rechained(m, count) \in [DOMAIN m.node -> NodeType]
         /\ \A n \in DOMAIN m.node :
              /\ Rechained(m, count)[n].name = m.node[n].name
              /\ Rechained(m, count)[n].value = m.node[n].value
              /\ Rechained(m, count)[n].prev = m.node[n].prev
              /\ Rechained(m, count)[n].next = m.node[n].next
         /\ \A k \in 1..m.size :
              Rechained(m, count)[q[k]].hash_next =
                LastOf(m, InBucket(m, BucketIndex(m.node[q[k]].name, count),
                                   count, k - 1))
<1> DEFINE Before(n, k) ==
             LastOf(m, InBucket(m, BucketIndex(m.node[n].name, count), count, k - 1))
           Place(n) == CHOOSE i \in 1..m.size : Order(m)[i] = n
<1>1. /\ m.size \in Nat /\ m.node \in [DOMAIN m.node -> NodeType]
      /\ \A k \in 1..m.size : q[k] \in DOMAIN m.node
      /\ \A n \in DOMAIN m.node : \E k \in 1..m.size : q[k] = n
      /\ \A j, k \in 1..m.size : q[j] = q[k] => j = k
  BY DEF Linked, IsMap, Lists
<1>2. Order(m) = q
  BY OrderIs
<1>3. \A k \in 1..m.size : Place(q[k]) = k
  BY <1>1, <1>2
<1>4. Rechained(m, count) =
        [n \in DOMAIN m.node |-> [m.node[n] EXCEPT !.hash_next = Before(n, Place(n))]]
  BY DEF Rechained
<1>5. \A n \in DOMAIN m.node : Place(n) \in 1..m.size
  <2> TAKE n \in DOMAIN m.node
  <2>1. PICK k \in 1..m.size : q[k] = n
    BY <1>1
  <2>2. Place(q[k]) = k
    <3> HIDE DEF Place
    <3> QED
      BY <1>3
  <2> HIDE DEF Place
  <2> QED
    BY <2>1, <2>2
<1>6. \A n \in DOMAIN m.node : Before(n, Place(n)) \in Pointer
  <2> TAKE n \in DOMAIN m.node
  <2>1. Place(n) - 1 \in 0..m.size
    <3> HIDE DEF Place
    <3> QED
      BY <1>1, <1>5
  <2> HIDE DEF Place
  <2> QED
    BY <2>1, LastOfIs
<1>7. \A k \in 1..m.size : Before(q[k], Place(q[k])) = Before(q[k], k)
  BY <1>3
<1> HIDE DEF Before, Place
<1>8. \A n \in DOMAIN m.node :
        /\ m.node[n] \in NodeType
        /\ Rechained(m, count)[n] = [m.node[n] EXCEPT !.hash_next = Before(n, Place(n))]
  BY <1>1, <1>4
<1>9. \A n \in DOMAIN m.node :
        /\ Rechained(m, count)[n] \in NodeType
        /\ Rechained(m, count)[n].name = m.node[n].name
        /\ Rechained(m, count)[n].value = m.node[n].value
        /\ Rechained(m, count)[n].prev = m.node[n].prev
        /\ Rechained(m, count)[n].next = m.node[n].next
        /\ Rechained(m, count)[n].hash_next = Before(n, Place(n))
  BY <1>6, <1>8 DEF NodeType
<1>10. Rechained(m, count) \in [DOMAIN m.node -> NodeType]
  BY <1>4, <1>9
<1> QED
  BY <1>1, <1>7, <1>9, <1>10 DEF Before

(* A rehash leaves the list alone and chains every node anew, whatever the *)
(* chains were before.                                                     *)
LEMMA RehashIsChained ==
  ASSUME NEW m, NEW q, Linked(m, q), NEW count \in Nat \ {0}
  PROVE  LET r == Rehash(m, count)
         IN  /\ Linked(r, q) /\ Chained(r, q)
             /\ r.size = m.size /\ DOMAIN r.node = DOMAIN m.node
             /\ HeadersAlong(r, q) = HeadersAlong(m, q)
             /\ NamesDiffer(m, q) => NamesDiffer(r, q)
<1> DEFINE r == Rehash(m, count)
           FrontOf(b) == LastOf(m, InBucket(m, b, count, m.size))
<1>1. /\ m.size \in Nat /\ DOMAIN m.node \subseteq 1..MaxNodes
      /\ \A k \in 1..m.size : q[k] \in DOMAIN m.node
      /\ m \in [node : [DOMAIN m.node -> NodeType], head : Pointer, tail : Pointer,
                size : 0..MaxNodes, buckets : [0 .. (m.bucket_count - 1) -> Pointer],
                bucket_count : Nat \ {0}]
  BY DEF Linked, IsMap, Lists
<1>2. /\ r.node = Rechained(m, count) /\ r.head = m.head /\ r.tail = m.tail
      /\ r.size = m.size /\ r.bucket_count = count
      /\ r.buckets = [b \in 0 .. (count - 1) |-> FrontOf(b)]
      /\ r = [node |-> r.node, head |-> r.head, tail |-> r.tail, size |-> r.size,
              buckets |-> r.buckets, bucket_count |-> r.bucket_count]
  <2> HIDE DEF FrontOf
  <2>1. r = [m EXCEPT !.node = Rechained(m, count),
                      !.buckets = [b \in 0 .. (count - 1) |-> FrontOf(b)],
                      !.bucket_count = count]
    BY Zenon DEF Rehash, FrontOf
  <2> HIDE DEF r
  <2> QED
    BY <1>1, <2>1
<1>3. \A b \in 0 .. (count - 1) : FrontOf(b) \in Pointer
  <2> TAKE b \in 0 .. (count - 1)
  <2>1. m.size \in 0..m.size
    BY <1>1
  <2> QED
    BY <2>1, LastOfIs
<1> HIDE DEF r, FrontOf
<1>4. /\ r.node \in [DOMAIN m.node -> NodeType]
      /\ \A n \in DOMAIN m.node :
           /\ r.node[n].name = m.node[n].name /\ r.node[n].value = m.node[n].value
           /\ r.node[n].prev = m.node[n].prev /\ r.node[n].next = m.node[n].next
      /\ \A k \in 1..m.size :
           r.node[q[k]].hash_next =
             LastOf(m, InBucket(m, BucketIndex(m.node[q[k]].name, count), count, k - 1))
  BY <1>2, RechainedNodes
<1>5. IsMap(r)
  <2>1. r.buckets \in [0 .. (count - 1) -> Pointer]
    BY <1>2, <1>3
  <2>2. DOMAIN r.node = DOMAIN m.node
    BY <1>4
  <2> QED
    BY <1>1, <1>2, <1>4, <2>1, <2>2 DEF IsMap
<1>6. Linked(r, q)
  <2>1. DOMAIN r.node = DOMAIN m.node
    BY <1>4
  <2> QED
    BY <1>2, <1>4, <1>5, <2>1, SameList
<1>7. \A i \in 1..m.size : BucketAt(r, q, i) = BucketIndex(m.node[q[i]].name, count)
  BY <1>1, <1>2, <1>4 DEF BucketAt
<1>8. ASSUME NEW b, NEW k \in 0..m.size
      PROVE  IsLast(r, q, b, k, LastOf(m, InBucket(m, b, count, k)))
  <2> DEFINE p == LastOf(m, InBucket(m, b, count, k))
  <2>1. \/ /\ p = NULL
           /\ \A i \in 1..k : BucketIndex(m.node[q[i]].name, count) # b
        \/ \E i \in 1..k :
             /\ p = q[i] /\ BucketIndex(m.node[q[i]].name, count) = b
             /\ \A j \in 1..k : j > i => BucketIndex(m.node[q[j]].name, count) # b
    BY LastOfIs
  <2>2. \A i \in 1..k : BucketAt(r, q, i) = BucketIndex(m.node[q[i]].name, count)
    BY <1>1, <1>7
  <2> HIDE DEF p
  <2>3. IsLast(r, q, b, k, p)
    BY <2>1, <2>2 DEF IsLast
  <2> QED
    BY <2>3 DEF p
<1>9. Chained(r, q)
  <2>1. ASSUME NEW k \in 1..m.size
        PROVE  IsLast(r, q, BucketAt(r, q, k), k - 1, r.node[q[k]].hash_next)
    <3>1. k - 1 \in 0..m.size
      BY <1>1
    <3>2. r.node[q[k]].hash_next = LastOf(m, InBucket(m, BucketAt(r, q, k), count, k - 1))
      BY <1>4, <1>7
    <3> QED
      BY <1>8, <3>1, <3>2
  <2>2. ASSUME NEW b \in 0 .. (count - 1)
        PROVE  IsLast(r, q, b, m.size, r.buckets[b])
    <3>1. m.size \in 0..m.size /\ r.buckets[b] = FrontOf(b)
      BY <1>1, <1>2
    <3> QED
      BY <1>8, <3>1 DEF FrontOf
  <2> QED
    BY <1>2, <2>1, <2>2 DEF Chained
<1>10. HeadersAlong(r, q) = HeadersAlong(m, q)
  BY <1>1, <1>2, <1>4 DEF HeadersAlong
<1>11. NamesDiffer(m, q) => NamesDiffer(r, q)
  BY <1>1, <1>2, <1>4 DEF NamesDiffer
<1>12. r.size = m.size /\ DOMAIN r.node = DOMAIN m.node
  BY <1>2, <1>4
<1> QED
  BY <1>6, <1>9, <1>10, <1>11, <1>12, Zenon DEF r

(* A rehash that stops half way leaves the list alone as well.             *)
LEMMA HalfRehashIsLinked ==
  ASSUME NEW m, NEW q, Linked(m, q), NEW count \in Nat \ {0}
  PROVE  Linked(HalfRehash(m, count), q)
<1> DEFINE r == HalfRehash(m, count)
<1>1. m \in [node : [DOMAIN m.node -> NodeType], head : Pointer, tail : Pointer,
             size : 0..MaxNodes, buckets : [0 .. (m.bucket_count - 1) -> Pointer],
             bucket_count : Nat \ {0}]
      /\ DOMAIN m.node \subseteq 1..MaxNodes
  BY DEF Linked, IsMap
<1>2. /\ Rechained(m, count) \in [DOMAIN m.node -> NodeType]
      /\ \A n \in DOMAIN m.node : /\ Rechained(m, count)[n].prev = m.node[n].prev
                                  /\ Rechained(m, count)[n].next = m.node[n].next
  BY RechainedNodes
<1>3. r = [m EXCEPT !.node = Rechained(m, count)]
  BY Zenon DEF HalfRehash
<1> HIDE DEF r
<1>4. /\ r.node = Rechained(m, count) /\ DOMAIN r.node = DOMAIN m.node
      /\ r.head = m.head /\ r.tail = m.tail /\ r.size = m.size
  BY <1>1, <1>2, <1>3
<1>5. IsMap(r)
  BY <1>1, <1>2, <1>3, <1>4 DEF IsMap
<1>6. Linked(r, q)
  BY <1>2, <1>4, <1>5, SameList
<1> QED
  BY <1>6 DEF r

(* Making room for one more header changes neither the list nor the        *)
(* headers.                                                                *)
LEMMA RoomyKeepsList ==
  ASSUME NEW m, NEW q, Linked(m, q)
  PROVE  LET r == Roomy(m)
         IN  /\ Linked(r, q)
             /\ r.size = m.size /\ DOMAIN r.node = DOMAIN m.node
             /\ HeadersAlong(r, q) = HeadersAlong(m, q)
             /\ Chained(m, q) => Chained(r, q)
             /\ NamesDiffer(m, q) => NamesDiffer(r, q)
             /\ r # m => Chained(r, q)
<1>1. m.bucket_count * 2 \in Nat \ {0}
  BY DEF Linked, IsMap
<1>2. CASE IsCrowded(m)
  <2>1. Roomy(m) = Rehash(m, m.bucket_count * 2)
    BY <1>2 DEF Roomy
  <2> QED
    BY <1>1, <2>1, RehashIsChained
<1>3. CASE ~IsCrowded(m)
  BY <1>3 DEF Roomy
<1> QED
  BY <1>2, <1>3

(* A failed set leaves the list as it was, and the chains too unless the   *)
(* rehash was what failed.                                                 *)
LEMMA FailureKeepsList ==
  ASSUME NEW m, NEW q, Linked(m, q), NEW r \in SetFailures(m)
  PROVE  /\ Linked(r, q)
         /\ r \in {m, Roomy(m)} /\ Sound(m, q) =>
              Sound(r, q) /\ HeadersAlong(r, q) = HeadersAlong(m, q)
<1>1. m.bucket_count * 2 \in Nat \ {0}
  BY DEF Linked, IsMap
<1>2. r = m \/ r = Roomy(m) \/ r = HalfRehash(m, m.bucket_count * 2)
  BY Zenon DEF SetFailures
<1>3. Linked(HalfRehash(m, m.bucket_count * 2), q)
  BY <1>1, HalfRehashIsLinked
<1>4. /\ Linked(Roomy(m), q)
      /\ HeadersAlong(Roomy(m), q) = HeadersAlong(m, q)
      /\ Chained(m, q) => Chained(Roomy(m), q)
      /\ NamesDiffer(m, q) => NamesDiffer(Roomy(m), q)
  BY RoomyKeepsList
<1>5. Linked(r, q)
  BY <1>2, <1>3, <1>4
<1>6. ASSUME r \in {m, Roomy(m)}, Sound(m, q)
      PROVE  Sound(r, q) /\ HeadersAlong(r, q) = HeadersAlong(m, q)
  BY <1>4, <1>6 DEF Sound
<1> QED
  BY <1>5, <1>6

-----------------------------------------------------------------------------
(* Looking a name up.                                                      *)

(* No bucket and no chain of m leads to a deleted node.                    *)
NoneDangles(m) ==
  /\ \A b \in DOMAIN m.buckets : m.buckets[b] \in DOMAIN m.node \cup {NULL}
  /\ \A n \in DOMAIN m.node : m.node[n].hash_next \in DOMAIN m.node \cup {NULL}

(* A chained map holds no pointer to a node that is gone.                  *)
LEMMA ChainedDangleNot ==
  ASSUME NEW m, NEW q, Linked(m, q), Chained(m, q)
  PROVE  NoneDangles(m)
<1>1. /\ m.size \in Nat /\ DOMAIN m.buckets = 0 .. (m.bucket_count - 1)
      /\ \A k \in 1..m.size : q[k] \in DOMAIN m.node
      /\ \A n \in DOMAIN m.node : \E k \in 1..m.size : q[k] = n
  BY DEF Linked, IsMap, Lists
<1>2. ASSUME NEW b, NEW k \in 0..m.size, NEW p, IsLast(m, q, b, k, p)
      PROVE  p \in DOMAIN m.node \cup {NULL}
  <2>1. p = NULL \/ \E i \in 1..k : p = q[i]
    BY <1>2 DEF IsLast
  <2> QED
    BY <1>1, <2>1
<1>3. ASSUME NEW b \in DOMAIN m.buckets
      PROVE  m.buckets[b] \in DOMAIN m.node \cup {NULL}
  <2>1. m.size \in 0..m.size /\ IsLast(m, q, b, m.size, m.buckets[b])
    BY <1>1 DEF Chained
  <2> QED
    BY <1>2, <2>1
<1>4. ASSUME NEW n \in DOMAIN m.node
      PROVE  m.node[n].hash_next \in DOMAIN m.node \cup {NULL}
  <2>1. PICK k \in 1..m.size : q[k] = n
    BY <1>1
  <2>2. /\ k - 1 \in 0..m.size
        /\ IsLast(m, q, BucketAt(m, q, k), k - 1, m.node[n].hash_next)
    BY <1>1, <2>1 DEF Chained
  <2> QED
    BY <1>2, <2>2
<1> QED
  BY <1>3, <1>4 DEF NoneDangles

(* A lookup that never meets a deleted node ends at a node of that name,   *)
(* the first in the chain, or finds that the chain has none.               *)
LEMMA LookupEnds ==
  ASSUME NEW m, NEW q, Linked(m, q), NoneDangles(m), NEW name \in LowerName
  PROVE  /\ \A k \in 0..m.size : Chain(m, name)[k] \in DOMAIN m.node \cup {NULL}
         /\ Matches(m, name) = {} => FindInBucket(m, name) = NULL
         /\ Matches(m, name) # {} =>
              LET k == Min(Matches(m, name))
                  n == Chain(m, name)[k]
              IN  /\ k \in 0..m.size /\ k \in Matches(m, name)
                  /\ \A j \in Matches(m, name) : k <= j
                  /\ n \in DOMAIN m.node /\ m.node[n].name = name
                  /\ FindInBucket(m, name) = n
<1> DEFINE c == Chain(m, name)
           M == Matches(m, name)
<1>1. /\ m.size \in Nat /\ Cardinality(DOMAIN m.node) = m.size
      /\ DOMAIN m.buckets = 0 .. (m.bucket_count - 1)
      /\ m.bucket_count \in Nat \ {0}
  BY NodesAreCounted DEF Linked, IsMap
<1>2. BucketIndex(name, m.bucket_count) \in DOMAIN m.buckets
  BY <1>1, NamesFold
<1>3. /\ DOMAIN c = 0..m.size
      /\ c[0] = m.buckets[BucketIndex(name, m.bucket_count)]
      /\ \A k \in 1..m.size : c[k] = IF c[k - 1] = NULL THEN NULL
                                     ELSE m.node[c[k - 1]].hash_next
  BY <1>1, ChainIs
<1>4. M = {k \in 0..m.size : c[k] # NULL /\ m.node[c[k]].name = name}
  BY <1>3, Zenon DEF Matches
<1> HIDE DEF c, M
<1>5. \A k \in 0..m.size : c[k] \in DOMAIN m.node \cup {NULL}
  <2> DEFINE S == {k \in Nat : k <= m.size => c[k] \in DOMAIN m.node \cup {NULL}}
  <2>1. 0 \in S
    BY <1>2, <1>3 DEF NoneDangles
  <2>2. ASSUME NEW k \in Nat, k \in S
        PROVE  k + 1 \in S
    <3> SUFFICES ASSUME k + 1 <= m.size
                 PROVE  c[k + 1] \in DOMAIN m.node \cup {NULL}
      OBVIOUS
    <3>1. k + 1 \in 1..m.size /\ k + 1 - 1 = k /\ c[k] \in DOMAIN m.node \cup {NULL}
      BY <1>1, <2>2
    <3>2. c[k + 1] = IF c[k] = NULL THEN NULL ELSE m.node[c[k]].hash_next
      BY <1>3, <3>1
    <3> QED
      BY <3>1, <3>2 DEF NoneDangles
  <2>3. Nat \subseteq S
    <3> HIDE DEF S
    <3> QED
      BY <2>1, <2>2, NatsByInduction
  <2> QED
    BY <1>1, <2>3
<1>6. M # {} => Min(M) \in M /\ \A j \in M : Min(M) <= j
  <2>1. M \in SUBSET Nat
    BY <1>1, <1>4
  <2> QED
    BY <2>1, MinOfNats
<1>7. M = {} => FindInBucket(m, name) = NULL
  BY DEF FindInBucket, M
<1>8. ASSUME M # {}
      PROVE  /\ Min(M) \in 0..m.size /\ Min(M) \in M
             /\ \A j \in M : Min(M) <= j
             /\ c[Min(M)] \in DOMAIN m.node /\ m.node[c[Min(M)]].name = name
             /\ FindInBucket(m, name) = c[Min(M)]
  <2>1. FindInBucket(m, name) = c[Min(M)]
    BY <1>8 DEF FindInBucket, M, c
  <2>2. Min(M) \in M
    BY <1>6, <1>8
  <2>3. Min(M) \in 0..m.size /\ c[Min(M)] # NULL /\ m.node[c[Min(M)]].name = name
    BY <1>4, <2>2
  <2> QED
    BY <1>5, <1>6, <1>8, <2>1, <2>2, <2>3
<1> QED
  BY <1>5, <1>7, <1>8 DEF M, c

(* The node at place t of the list is found under its name: its chain goes *)
(* on from the last node of the bucket to earlier and earlier ones, and    *)
(* passes none by.                                                         *)
LEMMA LookupFinds ==
  ASSUME NEW m, NEW q, Sound(m, q), NEW t \in 1..m.size
  PROVE  LET name == m.node[q[t]].name
         IN  /\ FindInBucket(m, name) = q[t]
             /\ Matches(m, name) # {}
             /\ Chain(m, name)[Min(Matches(m, name))] = q[t]
<1> DEFINE name == m.node[q[t]].name
           c == Chain(m, name)
           M == Matches(m, name)
           b == BucketIndex(name, m.bucket_count)
<1>1. /\ m.size \in Nat /\ DOMAIN m.buckets = 0 .. (m.bucket_count - 1)
      /\ m.bucket_count \in Nat \ {0}
      /\ m.node \in [DOMAIN m.node -> NodeType]
      /\ \A k \in 1..m.size : q[k] \in DOMAIN m.node
      /\ DOMAIN m.node \subseteq 1..MaxNodes
      /\ \A j, k \in 1..m.size : q[j] = q[k] => j = k
      /\ \A n \in DOMAIN m.node : \E k \in 1..m.size : q[k] = n
  BY DEF Sound, Linked, IsMap, Lists
<1>2. Linked(m, q) /\ Chained(m, q) /\ NamesDiffer(m, q) /\ NoneDangles(m)
  BY ChainedDangleNot DEF Sound
<1>3. name \in LowerName
  BY <1>1 DEF NodeType
<1>4. b \in 0 .. (m.bucket_count - 1) /\ BucketAt(m, q, t) = b
  <2>1. BucketAt(m, q, t) = b
    BY DEF BucketAt
  <2> QED
    BY <1>1, <1>3, <2>1, NamesFold
<1> HIDE DEF name
<1>5. /\ Cardinality(DOMAIN m.node) = m.size
      /\ DOMAIN c = 0..m.size
      /\ c[0] = m.buckets[b]
      /\ \A k \in 1..m.size : c[k] = IF c[k - 1] = NULL THEN NULL
                                     ELSE m.node[c[k - 1]].hash_next
  <2>1. Cardinality(DOMAIN m.node) = m.size
    BY <1>1, <1>2, NodesAreCounted DEF Linked
  <2> QED
    BY <1>1, <2>1, ChainIs
<1> HIDE DEF c, b
<1>6. NULL \notin DOMAIN m.node /\ NULL = 0
  BY <1>1, HeaderMapAssumption DEF NULL
<1> DEFINE Ahead(k) == \/ \E j \in 0..k : c[j] = q[t]
                       \/ \E p \in t .. (m.size - k) :
                            c[k] = q[p] /\ BucketAt(m, q, p) = b
           S == {k \in Nat : k <= m.size => Ahead(k)}
<1>7. 0 \in S
  <2>1. IsLast(m, q, b, m.size, c[0])
    BY <1>2, <1>4, <1>5 DEF Chained
  <2>2. PICK p \in 1..m.size : /\ c[0] = q[p] /\ BucketAt(m, q, p) = b
                               /\ \A j \in 1..m.size : j > p => BucketAt(m, q, j) # b
    BY <1>4, <2>1 DEF IsLast
  <2>3. p \in t .. (m.size - 0)
    BY <1>1, <1>4, <2>2
  <2>4. Ahead(0)
    BY <2>2, <2>3
  <2> QED
    BY <2>4
<1>8. ASSUME NEW k \in Nat, k \in S
      PROVE  k + 1 \in S
  <2> SUFFICES ASSUME k + 1 <= m.size PROVE Ahead(k + 1)
    OBVIOUS
  <2>1. Ahead(k) /\ k + 1 \in 1..m.size /\ k + 1 - 1 = k
    BY <1>1, <1>8
  <2>2. CASE \E j \in 0..k : c[j] = q[t]
    BY <2>1, <2>2
  <2>3. CASE \E p \in t .. (m.size - k) : c[k] = q[p] /\ BucketAt(m, q, p) = b
    <3>1. PICK p \in t .. (m.size - k) : c[k] = q[p] /\ BucketAt(m, q, p) = b
      BY <2>3
    <3>2. p \in 1..m.size
      BY <1>1, <3>1
    <3>3. CASE p = t
      <4>1. c[k] = q[t] /\ k \in 0..(k + 1)
        BY <3>1, <3>3
      <4> QED
        BY <4>1
    <3>4. CASE p # t
      <4>1. c[k + 1] = m.node[q[p]].hash_next
        <5>1. c[k + 1] = IF c[k] = NULL THEN NULL ELSE m.node[c[k]].hash_next
          <6>1. c[k + 1] = IF c[k + 1 - 1] = NULL THEN NULL
                           ELSE m.node[c[k + 1 - 1]].hash_next
            BY <1>5, <2>1
          <6> QED
            BY <2>1, <6>1
        <5>2. q[p] \in DOMAIN m.node /\ q[p] # NULL
          BY <1>1, <1>6, <3>2
        <5> QED
          BY <3>1, <5>1, <5>2
      <4>2. IsLast(m, q, b, p - 1, c[k + 1])
        BY <1>2, <3>1, <3>2, <4>1 DEF Chained
      <4>3. t \in 1..(p - 1)
        BY <1>1, <3>1, <3>2, <3>4
      <4>4. PICK i \in 1..(p - 1) :
              /\ c[k + 1] = q[i] /\ BucketAt(m, q, i) = b
              /\ \A j \in 1..(p - 1) : j > i => BucketAt(m, q, j) # b
        BY <1>4, <4>2, <4>3 DEF IsLast
      <4>5. i >= t
        BY <1>4, <4>3, <4>4
      <4>6. i \in t .. (m.size - (k + 1))
        BY <1>1, <3>1, <3>2, <4>3, <4>4, <4>5
      <4> QED
        BY <4>4, <4>6
    <3> QED
      BY <3>3, <3>4
  <2> QED
    BY <2>1, <2>2, <2>3
<1>9. Nat \subseteq S
  <2> HIDE DEF S
  <2> QED
    BY <1>7, <1>8, NatsByInduction
<1>10. Ahead(m.size)
  <2>1. m.size \in S
    BY <1>1, <1>9
  <2> HIDE DEF Ahead
  <2> QED
    BY <1>1, <2>1
<1>11. PICK j \in 0..m.size : c[j] = q[t]
  <2>1. ~ \E p \in t .. (m.size - m.size) : TRUE
    BY <1>1
  <2> QED
    BY <1>10, <2>1
<1>12. M # {}
  <2>1. c[j] # NULL /\ m.node[c[j]].name = name /\ j \in DOMAIN c
    BY <1>1, <1>5, <1>6, <1>11 DEF name
  <2>2. j \in M
    BY <2>1 DEF Matches, c
  <2> QED
    BY <2>2
<1>13. /\ c[Min(M)] \in DOMAIN m.node /\ m.node[c[Min(M)]].name = name
       /\ FindInBucket(m, name) = c[Min(M)]
  BY <1>2, <1>3, <1>12, LookupEnds DEF c
<1>14. c[Min(M)] = q[t]
  <2>1. PICK i \in 1..m.size : q[i] = c[Min(M)]
    BY <1>1, <1>13
  <2>2. m.node[q[i]].name = m.node[q[t]].name
    BY <1>13, <2>1 DEF name
  <2>3. i = t
    BY <1>2, <2>2 DEF NamesDiffer
  <2> QED
    BY <2>1, <2>3
<1> QED
  BY <1>12, <1>13, <1>14, Zenon DEF name, c

(* A name that no node has is not found.                                   *)
LEMMA LookupMisses ==
  ASSUME NEW m, NEW q, Sound(m, q), NEW name \in LowerName,
         \A k \in 1..m.size : m.node[q[k]].name # name
  PROVE  Matches(m, name) = {} /\ FindInBucket(m, name) = NULL
<1>1. \A n \in DOMAIN m.node : m.node[n].name # name
  BY DEF Sound, Linked, Lists
<1>2. Linked(m, q) /\ NoneDangles(m)
  BY ChainedDangleNot DEF Sound
<1>3. Matches(m, name) = {}
  BY <1>1, <1>2, LookupEnds
<1> QED
  BY <1>2, <1>3, LookupEnds

-----------------------------------------------------------------------------
(* Inserting and replacing.                                                *)

(* Whether p is the last node of a bucket among the first k places depends *)
(* on those places only.                                                   *)
LEMMA SameLast ==
  ASSUME NEW m, NEW q, NEW r, NEW s, NEW b, NEW k \in Nat, NEW p,
         IsLast(m, q, b, k, p),
         \A i \in 1..k : s[i] = q[i] /\ BucketAt(r, s, i) = BucketAt(m, q, i)
  PROVE  IsLast(r, s, b, k, p)
BY DEF IsLast

(* While a node is free, the one that is taken is not in the list.         *)
LEMMA FreeNode ==
  ASSUME NEW m, NEW q, Linked(m, q), m.size < MaxNodes
  PROVE  Min(1..MaxNodes \ DOMAIN m.node) \in 1..MaxNodes \ DOMAIN m.node
<1> DEFINE F == 1..MaxNodes \ DOMAIN m.node
<1>1. MaxNodes \in Nat /\ m.size \in Nat /\ DOMAIN m.node \subseteq 1..MaxNodes
  BY HeaderMapAssumption DEF Linked, IsMap
<1>2. Cardinality(DOMAIN m.node) = m.size
  BY <1>1, NodesAreCounted DEF Linked
<1>3. Cardinality(1..MaxNodes) = MaxNodes
  BY <1>1, FS_Interval
<1>4. F # {}
  <2>1. 1..MaxNodes # DOMAIN m.node
    BY <1>1, <1>2, <1>3
  <2> QED
    BY <1>1, <2>1
<1>5. F \in SUBSET Nat
  BY <1>1
<1>6. Min(F) \in F
  <2> HIDE DEF F
  <2> QED
    BY <1>4, <1>5, MinOfNats
<1> QED
  BY <1>6

(* A new node becomes the end of the list and the front of its chain.      *)
LEMMA AppendedIsLinked ==
  ASSUME NEW m, NEW q, Linked(m, q), m.size < MaxNodes,
         NEW name \in LowerName, NEW value \in Value
  PROVE  LET r == Appended(m, name, value)
         IN  \E s : /\ Linked(r, s) /\ r.size = m.size + 1
                    /\ HeadersAlong(r, s) =
                         Append(HeadersAlong(m, q), [name |-> name, value |-> value])
                    /\ Chained(m, q) => Chained(r, s)
                    /\ NamesDiffer(m, q)
                         /\ (\A k \in 1..m.size : m.node[q[k]].name # name)
                         => NamesDiffer(r, s)
<1> DEFINE n == Min(1..MaxNodes \ DOMAIN m.node)
           b == BucketIndex(name, m.bucket_count)
           r == Appended(m, name, value)
           s == Append(q, n)
<1>1. /\ m.size \in Nat /\ MaxNodes \in Nat /\ m.size < MaxNodes
      /\ DOMAIN m.node \subseteq 1..MaxNodes
      /\ q \in Seq(DOMAIN m.node) /\ Len(q) = m.size
      /\ \A k \in 1..m.size : q[k] \in DOMAIN m.node
      /\ \A k \in DOMAIN m.node : \E i \in 1..m.size : q[i] = k
      /\ \A j, k \in 1..m.size : q[j] = q[k] => j = k
      /\ m \in [node : [DOMAIN m.node -> NodeType], head : Pointer, tail : Pointer,
                size : 0..MaxNodes, buckets : [0 .. (m.bucket_count - 1) -> Pointer],
                bucket_count : Nat \ {0}]
      /\ m.head = IF m.size = 0 THEN NULL ELSE q[1]
      /\ m.tail = IF m.size = 0 THEN NULL ELSE q[m.size]
      /\ \A k \in 1..m.size :
           /\ m.node[q[k]].prev = IF k = 1 THEN NULL ELSE q[k - 1]
           /\ m.node[q[k]].next = IF k = m.size THEN NULL ELSE q[k + 1]
  BY HeaderMapAssumption DEF Linked, IsMap, Lists
<1>2. n \in 1..MaxNodes /\ n \notin DOMAIN m.node
  BY FreeNode
<1>3. b \in 0 .. (m.bucket_count - 1)
  BY <1>1, NamesFold
<1>4. NULL = 0 /\ NULL \in Pointer /\ n \in Pointer /\ n # NULL
  BY <1>1, <1>2 DEF NULL, Pointer
<1> DEFINE new == NewNode(name, value, m.tail, m.buckets[b])
           all == [k \in DOMAIN m.node \cup {n} |->
                     IF k = n THEN new
                     ELSE IF k = m.tail THEN [m.node[k] EXCEPT !.next = n]
                     ELSE m.node[k]]
<1>5. r = [m EXCEPT !.node = all,
                    !.head = IF m.tail = NULL THEN n ELSE @,
                    !.tail = n, !.buckets[b] = n, !.size = @ + 1]
  BY Zenon DEF Appended
<1>6. m.tail = NULL <=> m.size = 0
  BY <1>1, <1>4
<1> HIDE DEF n, b, r, new
<1>7. /\ all[n] = new
      /\ \A k \in DOMAIN m.node :
           /\ all[k] \in NodeType
           /\ all[k].name = m.node[k].name /\ all[k].value = m.node[k].value
           /\ all[k].prev = m.node[k].prev
           /\ all[k].hash_next = m.node[k].hash_next
           /\ all[k].next = IF k = m.tail THEN n ELSE m.node[k].next
  <2>1. \A k \in DOMAIN m.node :
          /\ m.node[k] \in NodeType
          /\ all[k] = IF k = m.tail THEN [m.node[k] EXCEPT !.next = n] ELSE m.node[k]
    BY <1>1, <1>2
  <2> HIDE DEF all
  <2>2. \A k \in DOMAIN m.node :
           /\ all[k] \in NodeType
           /\ all[k].name = m.node[k].name /\ all[k].value = m.node[k].value
           /\ all[k].prev = m.node[k].prev
           /\ all[k].hash_next = m.node[k].hash_next
           /\ all[k].next = IF k = m.tail THEN n ELSE m.node[k].next
    BY <1>4, <2>1 DEF NodeType
  <2> QED
    BY <2>2 DEF all
<1>8. new \in NodeType
  BY <1>1, <1>3, <1>4 DEF NewNode, NodeType, new
<1>9. /\ DOMAIN all = DOMAIN m.node \cup {n}
      /\ all \in [DOMAIN m.node \cup {n} -> NodeType]
  BY <1>2, <1>7, <1>8
<1> HIDE DEF all
<1>10. /\ r.node = all /\ r.size = m.size + 1 /\ r.tail = n
       /\ r.head = IF m.size = 0 THEN n ELSE m.head
       /\ r.buckets = [m.buckets EXCEPT ![b] = n]
       /\ r.bucket_count = m.bucket_count
       /\ r = [node |-> r.node, head |-> r.head, tail |-> r.tail, size |-> r.size,
               buckets |-> r.buckets, bucket_count |-> r.bucket_count]
  <2>1. r = [m EXCEPT !.node = all,
                      !.head = IF m.tail = NULL THEN n ELSE @,
                      !.tail = n, !.buckets[b] = n, !.size = @ + 1]
    BY <1>5 DEF all, r, n, b, new
  <2> QED
    BY <1>1, <1>6, <2>1
<1>11. IsMap(r)
  <2>1. /\ r.node \in [DOMAIN r.node -> NodeType] /\ DOMAIN r.node \subseteq 1..MaxNodes
        /\ r.head \in Pointer /\ r.tail \in Pointer /\ r.size \in 0..MaxNodes
        /\ r.buckets \in [0 .. (r.bucket_count - 1) -> Pointer]
        /\ r.bucket_count \in Nat \ {0}
    BY <1>1, <1>2, <1>3, <1>4, <1>9, <1>10
  <2> QED
    BY <1>10, <2>1 DEF IsMap
<1>12. /\ s \in Seq(DOMAIN m.node \cup {n}) /\ Len(s) = r.size
       /\ \A k \in 1..m.size : s[k] = q[k]
       /\ s[m.size + 1] = n
  <2>1. q \in Seq(DOMAIN m.node \cup {n})
    BY <1>1
  <2> QED
    BY <1>1, <1>10, <2>1, AppendProperties
<1> HIDE DEF s
<1>13. Lists(r, s)
  <2>1. DOMAIN r.node = DOMAIN m.node \cup {n}
    BY <1>9, <1>10
  <2>2. \A k \in DOMAIN r.node : \E i \in 1..r.size : s[i] = k
    BY <1>1, <1>10, <1>12, <2>1
  <2>3. \A j, k \in 1..r.size : s[j] = s[k] => j = k
    <3> TAKE j, k \in 1..r.size
    <3>1. (j \in 1..m.size \/ j = m.size + 1) /\ (k \in 1..m.size \/ k = m.size + 1)
      BY <1>1, <1>10
    <3> QED
      BY <1>1, <1>2, <1>12, <3>1
  <2> QED
    BY <1>12, <2>1, <2>2, <2>3 DEF Lists
<1>14. \A k \in 1..m.size :
         /\ r.node[s[k]].name = m.node[q[k]].name
         /\ r.node[s[k]].value = m.node[q[k]].value
         /\ r.node[s[k]].prev = m.node[q[k]].prev
         /\ r.node[s[k]].hash_next = m.node[q[k]].hash_next
         /\ r.node[s[k]].next = IF k = m.size THEN n ELSE m.node[q[k]].next
  <2> TAKE k \in 1..m.size
  <2>1. s[k] = q[k] /\ q[k] \in DOMAIN m.node /\ r.node[s[k]] = all[q[k]]
    BY <1>1, <1>9, <1>10, <1>12
  <2>2. q[k] = m.tail <=> k = m.size
    BY <1>1
  <2> QED
    BY <1>7, <2>1, <2>2
<1>15. /\ r.node[n].name = name /\ r.node[n].value = value
       /\ r.node[n].prev = m.tail /\ r.node[n].next = NULL
       /\ r.node[n].hash_next = m.buckets[b]
  BY <1>7, <1>10 DEF NewNode, new, b, all
<1>16. \A k \in 1..r.size :
         /\ r.node[s[k]].prev = IF k = 1 THEN NULL ELSE s[k - 1]
         /\ r.node[s[k]].next = IF k = r.size THEN NULL ELSE s[k + 1]
  <2> TAKE k \in 1..r.size
  <2>1. CASE k = m.size + 1
    <3>1. k # 1 => k - 1 = m.size /\ s[m.size] = q[m.size]
      BY <1>1, <1>12, <2>1
    <3>2. r.size = k /\ s[k] = n
      BY <1>10, <1>12, <2>1
    <3> QED
      BY <1>1, <1>15, <2>1, <3>1, <3>2
  <2>2. CASE k # m.size + 1
    <3>1. k \in 1..m.size /\ k # r.size /\ (k # 1 => k - 1 \in 1..m.size)
          /\ (k # m.size => k + 1 \in 1..m.size)
      BY <1>1, <1>10, <2>2
    <3>2. (k # 1 => s[k - 1] = q[k - 1]) /\ (k # m.size => s[k + 1] = q[k + 1])
          /\ (k = m.size => s[k + 1] = n)
      BY <1>12, <3>1
    <3>3. /\ m.node[q[k]].prev = IF k = 1 THEN NULL ELSE q[k - 1]
          /\ k # m.size => m.node[q[k]].next = q[k + 1]
      BY <1>1, <3>1
    <3>4. /\ r.node[s[k]].prev = m.node[q[k]].prev
          /\ r.node[s[k]].next = IF k = m.size THEN n ELSE m.node[q[k]].next
      BY <1>14, <3>1
    <3> QED
      BY <3>1, <3>2, <3>3, <3>4
  <2> QED
    BY <2>1, <2>2
<1>17. Linked(r, s)
  <2>1. r.size # 0 /\ r.tail = s[r.size]
    BY <1>1, <1>10, <1>12
  <2>2. r.head = s[1]
    <3>1. CASE m.size = 0
      BY <1>10, <1>12, <3>1
    <3>2. CASE m.size # 0
      <4>1. 1 \in 1..m.size /\ m.head = q[1]
        BY <1>1, <3>2
      <4> QED
        BY <1>10, <1>12, <3>2, <4>1
    <3> QED
      BY <3>1, <3>2
  <2> QED
    BY <1>11, <1>13, <1>16, <2>1, <2>2 DEF Linked
<1>18. HeadersAlong(r, s) =
         Append(HeadersAlong(m, q), [name |-> name, value |-> value])
  <2> DEFINE h == HeadersAlong(m, q)
             e == [name |-> name, value |-> value]
             S == {h[k] : k \in 1..m.size} \cup {e}
  <2>1. h \in Seq(S) /\ e \in S /\ Len(h) = m.size
        /\ \A k \in 1..m.size :
             h[k] = [name |-> m.node[q[k]].name, value |-> m.node[q[k]].value]
    <3>1. h = [k \in 1..m.size |->
                 [name |-> m.node[q[k]].name, value |-> m.node[q[k]].value]]
      BY DEF HeadersAlong
    <3>2. m.size \in Nat
      BY <1>1
    <3> HIDE DEF h, e
    <3>3. \A k \in 1..m.size : h[k] \in S
      OBVIOUS
    <3>4. h \in [1..m.size -> S]
      BY <3>1, <3>3
    <3>5. h \in Seq(S) /\ Len(h) = m.size
      BY <3>2, <3>4
    <3>6. \A k \in 1..m.size :
            h[k] = [name |-> m.node[q[k]].name, value |-> m.node[q[k]].value]
      BY <3>1, Zenon
    <3> QED
      BY <3>5, <3>6
  <2> HIDE DEF h, S
  <2>2. /\ Append(h, e) \in Seq(S) /\ Len(Append(h, e)) = m.size + 1
        /\ \A k \in 1..m.size : Append(h, e)[k] = h[k]
        /\ Append(h, e)[m.size + 1] = e
    BY <2>1, AppendProperties
  <2>3. HeadersAlong(r, s) = [k \in 1..(m.size + 1) |->
          [name |-> r.node[s[k]].name, value |-> r.node[s[k]].value]]
    BY <1>10 DEF HeadersAlong
  <2>4. \A k \in 1..(m.size + 1) : HeadersAlong(r, s)[k] = Append(h, e)[k]
    <3> TAKE k \in 1..(m.size + 1)
    <3>1. CASE k = m.size + 1
      BY <1>12, <1>15, <2>2, <2>3, <3>1
    <3>2. CASE k # m.size + 1
      <4>1. k \in 1..m.size
        BY <1>1, <3>2
      <4>2. Append(h, e)[k] = [name |-> m.node[q[k]].name, value |-> m.node[q[k]].value]
        BY <2>1, <2>2, <4>1
      <4>3. HeadersAlong(r, s)[k] = [name |-> r.node[s[k]].name, value |-> r.node[s[k]].value]
        BY <2>3, Zenon
      <4>4. r.node[s[k]].name = m.node[q[k]].name /\ r.node[s[k]].value = m.node[q[k]].value
        BY <1>14, <4>1
      <4> QED
        BY <4>2, <4>3, <4>4
    <3> QED
      BY <3>1, <3>2
  <2>5. Append(h, e) = [k \in 1..(m.size + 1) |-> Append(h, e)[k]]
    BY <2>2
  <2>6. HeadersAlong(r, s) = Append(h, e)
    BY <2>3, <2>4, <2>5
  <2> QED
    BY <2>6 DEF h
<1>19. ASSUME Chained(m, q)
       PROVE  Chained(r, s)
  <2>1. \A k \in 1..m.size : s[k] = q[k] /\ BucketAt(r, s, k) = BucketAt(m, q, k)
    BY <1>10, <1>12, <1>14 DEF BucketAt
  <2>2. s[r.size] = n /\ BucketAt(r, s, r.size) = b
    BY <1>10, <1>12, <1>15 DEF BucketAt, b
  <2>3. ASSUME NEW x, NEW k \in 0..m.size, NEW p, IsLast(m, q, x, k, p)
        PROVE  IsLast(r, s, x, k, p)
    <3>1. k \in Nat /\ \A i \in 1..k : s[i] = q[i] /\ BucketAt(r, s, i) = BucketAt(m, q, i)
      BY <1>1, <2>1
    <3> QED
      BY <2>3, <3>1, SameLast
  <2>4. ASSUME NEW k \in 1..r.size
        PROVE  IsLast(r, s, BucketAt(r, s, k), k - 1, r.node[s[k]].hash_next)
    <3>1. CASE k = m.size + 1
      <4>1. IsLast(m, q, b, m.size, m.buckets[b]) /\ m.size \in 0..m.size
        BY <1>1, <1>3, <1>19 DEF Chained
      <4>2. IsLast(r, s, b, m.size, m.buckets[b])
        BY <2>3, <4>1
      <4>3. k - 1 = m.size /\ k = r.size
        BY <1>1, <1>10, <3>1
      <4> QED
        BY <1>15, <2>2, <4>2, <4>3
    <3>2. CASE k # m.size + 1
      <4>1. k \in 1..m.size /\ k - 1 \in 0..m.size
        BY <1>1, <1>10, <3>2
      <4>2. IsLast(m, q, BucketAt(m, q, k), k - 1, m.node[q[k]].hash_next)
        BY <1>19, <4>1 DEF Chained
      <4> QED
        BY <1>14, <2>1, <2>3, <4>1, <4>2
    <3> QED
      BY <3>1, <3>2
  <2>5. ASSUME NEW x \in 0 .. (r.bucket_count - 1)
        PROVE  IsLast(r, s, x, r.size, r.buckets[x])
    <3>1. r.size \in 1..r.size /\ r.size = m.size + 1
      BY <1>1, <1>10
    <3>2. CASE x = b
      <4>1. r.buckets[x] = n
        BY <1>1, <1>3, <1>10, <3>2
      <4>2. \A j \in 1..r.size : ~ (j > r.size)
        BY <1>1, <3>1
      <4> QED
        BY <2>2, <3>1, <3>2, <4>1, <4>2 DEF IsLast
    <3>3. CASE x # b
      <4>1. r.buckets[x] = m.buckets[x] /\ x \in 0 .. (m.bucket_count - 1)
        BY <1>1, <1>10, <3>3
      <4>2. IsLast(m, q, x, m.size, m.buckets[x]) /\ m.size \in 0..m.size
        BY <1>1, <1>19, <4>1 DEF Chained
      <4>3. IsLast(r, s, x, m.size, r.buckets[x])
        BY <2>3, <4>1, <4>2
      <4>4. \A i \in 1..r.size : i \in 1..m.size \/ i = r.size
        BY <1>1, <3>1
      <4>5. \A i \in 1..m.size : i \in 1..r.size
        BY <1>1, <3>1
      <4> QED
        BY <2>2, <3>3, <4>3, <4>4, <4>5 DEF IsLast
    <3> QED
      BY <3>2, <3>3
  <2> QED
    BY <2>4, <2>5 DEF Chained
<1>20. ASSUME NamesDiffer(m, q), \A k \in 1..m.size : m.node[q[k]].name # name
       PROVE  NamesDiffer(r, s)
  <2> SUFFICES ASSUME NEW j \in 1..r.size, NEW k \in 1..r.size,
                      r.node[s[j]].name = r.node[s[k]].name
               PROVE  j = k
    BY DEF NamesDiffer
  <2>1. (j \in 1..m.size \/ j = m.size + 1) /\ (k \in 1..m.size \/ k = m.size + 1)
    BY <1>1, <1>10
  <2>2. s[m.size + 1] = n
    BY <1>12
  <2> QED
    BY <1>14, <1>15, <1>20, <2>1, <2>2 DEF NamesDiffer
<1> QED
  BY <1>10, <1>17, <1>18, <1>19, <1>20 DEF r

(* A value is replaced where it is.                                        *)
LEMMA ReplacedIsLinked ==
  ASSUME NEW m, NEW q, Linked(m, q), NEW t \in 1..m.size, NEW value \in Value
  PROVE  LET r == [m EXCEPT !.node[q[t]].value = value]
             h == HeadersAlong(m, q)
         IN  /\ Linked(r, q) /\ r.size = m.size
             /\ Chained(m, q) => Chained(r, q)
             /\ NamesDiffer(m, q) => NamesDiffer(r, q)
             /\ HeadersAlong(r, q) =
                  [i \in 1..m.size |-> IF i = t THEN [h[i] EXCEPT !.value = value]
                                       ELSE h[i]]
<1> DEFINE r == [m EXCEPT !.node[q[t]].value = value]
           h == HeadersAlong(m, q)
<1>1. /\ m.size \in Nat /\ DOMAIN m.node \subseteq 1..MaxNodes
      /\ \A k \in 1..m.size : q[k] \in DOMAIN m.node
      /\ \A j, k \in 1..m.size : q[j] = q[k] => j = k
      /\ m \in [node : [DOMAIN m.node -> NodeType], head : Pointer, tail : Pointer,
                size : 0..MaxNodes, buckets : [0 .. (m.bucket_count - 1) -> Pointer],
                bucket_count : Nat \ {0}]
  BY DEF Linked, IsMap, Lists
<1>2. /\ r.node = [m.node EXCEPT ![q[t]].value = value]
      /\ r.head = m.head /\ r.tail = m.tail /\ r.size = m.size
      /\ r.buckets = m.buckets /\ r.bucket_count = m.bucket_count
      /\ r = [node |-> r.node, head |-> r.head, tail |-> r.tail, size |-> r.size,
              buckets |-> r.buckets, bucket_count |-> r.bucket_count]
  <2> DEFINE node == [m.node EXCEPT ![q[t]].value = value]
  <2>1. r = [m EXCEPT !.node = node]
    BY <1>1
  <2> HIDE DEF r, node
  <2>2. /\ r.node = node /\ r.head = m.head /\ r.tail = m.tail /\ r.size = m.size
        /\ r.buckets = m.buckets /\ r.bucket_count = m.bucket_count
        /\ r = [node |-> r.node, head |-> r.head, tail |-> r.tail, size |-> r.size,
                buckets |-> r.buckets, bucket_count |-> r.bucket_count]
    BY <1>1, <2>1
  <2> QED
    BY <2>2 DEF node
<1> HIDE DEF r
<1>3. /\ DOMAIN r.node = DOMAIN m.node
      /\ \A n \in DOMAIN m.node :
           r.node[n] = IF n = q[t] THEN [m.node[n] EXCEPT !.value = value]
                       ELSE m.node[n]
  BY <1>1, <1>2
<1>4. \A n \in DOMAIN m.node :
        /\ r.node[n] \in NodeType
        /\ r.node[n].name = m.node[n].name
        /\ r.node[n].value = IF n = q[t] THEN value ELSE m.node[n].value
        /\ r.node[n].prev = m.node[n].prev /\ r.node[n].next = m.node[n].next
        /\ r.node[n].hash_next = m.node[n].hash_next
  <2>1. \A n \in DOMAIN m.node : m.node[n] \in NodeType
    BY <1>1
  <2> QED
    BY <1>3, <2>1 DEF NodeType
<1>5. IsMap(r)
  <2>1. r.node \in [DOMAIN r.node -> NodeType]
    BY <1>2, <1>3, <1>4
  <2> QED
    BY <1>1, <1>2, <1>3, <2>1 DEF IsMap
<1>6. Linked(r, q)
  BY <1>2, <1>3, <1>4, <1>5, SameList
<1>7. \A k \in 1..m.size : BucketAt(r, q, k) = BucketAt(m, q, k)
  BY <1>1, <1>2, <1>4 DEF BucketAt
<1>8. ASSUME Chained(m, q)
      PROVE  Chained(r, q)
  <2>1. ASSUME NEW b, NEW k \in 0..m.size, NEW p, IsLast(m, q, b, k, p)
        PROVE  IsLast(r, q, b, k, p)
    <3>1. k \in Nat /\ \A i \in 1..k : BucketAt(r, q, i) = BucketAt(m, q, i)
      BY <1>1, <1>7
    <3> QED
      BY <2>1, <3>1, SameLast
  <2>2. \A k \in 1..m.size :
          IsLast(r, q, BucketAt(r, q, k), k - 1, r.node[q[k]].hash_next)
    <3> TAKE k \in 1..m.size
    <3>1. IsLast(m, q, BucketAt(m, q, k), k - 1, m.node[q[k]].hash_next)
      BY <1>8 DEF Chained
    <3>2. k - 1 \in 0..m.size
      BY <1>1
    <3> QED
      BY <1>1, <1>4, <1>7, <2>1, <3>1, <3>2
  <2>3. \A b \in 0 .. (m.bucket_count - 1) : IsLast(r, q, b, m.size, r.buckets[b])
    <3> TAKE b \in 0 .. (m.bucket_count - 1)
    <3>1. IsLast(m, q, b, m.size, m.buckets[b]) /\ m.size \in 0..m.size
      BY <1>1, <1>8 DEF Chained
    <3> QED
      BY <1>2, <2>1, <3>1
  <2> QED
    BY <1>2, <2>2, <2>3 DEF Chained
<1>9. NamesDiffer(m, q) => NamesDiffer(r, q)
  BY <1>1, <1>2, <1>4 DEF NamesDiffer
<1>10. HeadersAlong(r, q) =
         [i \in 1..m.size |-> IF i = t THEN [h[i] EXCEPT !.value = value] ELSE h[i]]
  <2>1. \A i \in 1..m.size :
          h[i] = [name |-> m.node[q[i]].name, value |-> m.node[q[i]].value]
    BY DEF HeadersAlong
  <2>2. HeadersAlong(r, q) = [i \in 1..m.size |->
          [name |-> r.node[q[i]].name, value |-> r.node[q[i]].value]]
    BY <1>2 DEF HeadersAlong
  <2> HIDE DEF h
  <2>3. \A i \in 1..m.size :
          [name |-> r.node[q[i]].name, value |-> r.node[q[i]].value] =
            IF i = t THEN [h[i] EXCEPT !.value = value] ELSE h[i]
    <3> TAKE i \in 1..m.size
    <3>1. q[i] = q[t] <=> i = t
      BY <1>1
    <3>2. /\ r.node[q[i]].name = m.node[q[i]].name
          /\ r.node[q[i]].value = IF i = t THEN value ELSE m.node[q[i]].value
      BY <1>1, <1>4, <3>1
    <3>3. h[i] = [name |-> m.node[q[i]].name, value |-> m.node[q[i]].value]
      BY <2>1
    <3>4. [h[i] EXCEPT !.value = value] = [name |-> m.node[q[i]].name, value |-> value]
      BY <3>3
    <3> QED
      BY <3>2, <3>3, <3>4
  <2> QED
    BY <2>2, <2>3
<1> QED
  BY <1>2, <1>6, <1>8, <1>9, <1>10, Zenon DEF r, h

(* Where the headers of a name are.                                        *)
LEMMA PlacesAlong ==
  ASSUME NEW m, NEW q, NEW name \in Name
  PROVE  /\ DOMAIN HeadersAlong(m, q) = 1..m.size
         /\ \A k : k \in Places(HeadersAlong(m, q), name)
                    <=> k \in 1..m.size /\ m.node[q[k]].name = ToLower(name)
BY DEF HeadersAlong, Places

(* set, of a map whose list is sound and of one whose rehash has failed.   *)
LEMMA SetIsLinked ==
  ASSUME NEW m, NEW q, Linked(m, q), NoneDangles(m), m.size < MaxNodes,
         NEW name \in Name, NEW value \in Value
  PROVE  \E s : Linked(Set(m, name, value), s)
<1> DEFINE room == Roomy(m)
           lower == ToLower(name)
           existing == FindInBucket(room, lower)
<1>1. lower \in LowerName
  BY NamesFold
<1>2. Linked(room, q) /\ NoneDangles(room) /\ room.size = m.size
  BY RoomyKeepsList, ChainedDangleNot
<1>3. Set(m, name, value) = IF existing # NULL
                            THEN [room EXCEPT !.node[existing].value = value]
                            ELSE Appended(room, lower, value)
  BY Zenon DEF Set
<1> HIDE DEF room, lower
<1>4. CASE existing # NULL
  <2>1. existing \in DOMAIN room.node
    BY <1>1, <1>2, <1>4, LookupEnds
  <2>2. PICK t \in 1..room.size : q[t] = existing
    BY <1>2, <2>1 DEF Linked, Lists
  <2> HIDE DEF existing
  <2>3. Linked([room EXCEPT !.node[q[t]].value = value], q)
    BY <1>2, ReplacedIsLinked
  <2> QED
    BY <1>3, <1>4, <2>2, <2>3, Zenon
<1>5. CASE existing = NULL
  <2>1. \E s : Linked(Appended(room, lower, value), s)
    BY <1>1, <1>2, AppendedIsLinked
  <2> QED
    BY <1>3, <1>5, <2>1, Zenon
<1> QED
  BY <1>4, <1>5

(* set does to the headers what HeaderSet does, and keeps the map sound.   *)
LEMMA SetIsSound ==
  ASSUME NEW m, NEW q, Sound(m, q), m.size < MaxNodes,
         NEW name \in Name, NEW value \in Value
  PROVE  LET r == Set(m, name, value)
         IN  \E s : /\ Sound(r, s) /\ r.size <= m.size + 1
                    /\ HeadersAlong(r, s) =
                         HeaderSet(HeadersAlong(m, q), name, value)
<1> DEFINE room == Roomy(m)
           lower == ToLower(name)
           existing == FindInBucket(room, lower)
           h == HeadersAlong(m, q)
           r == Set(m, name, value)
<1>1. lower \in LowerName /\ ToLower(lower) = lower
  BY NamesFold
<1>2. /\ Sound(room, q) /\ room.size = m.size /\ HeadersAlong(room, q) = h
      /\ m.size \in Nat
  <2>1. Linked(m, q) /\ Chained(m, q) /\ NamesDiffer(m, q)
    BY DEF Sound
  <2>2. m.size \in Nat
    BY <2>1 DEF Linked, IsMap
  <2> QED
    BY <2>1, <2>2, RoomyKeepsList DEF Sound
<1>3. r = IF existing # NULL THEN [room EXCEPT !.node[existing].value = value]
          ELSE Appended(room, lower, value)
  BY Zenon DEF Set
<1>4. /\ DOMAIN h = 1..m.size
      /\ \A k : k \in Places(h, name)
                 <=> k \in 1..m.size /\ room.node[q[k]].name = lower
  <2>1. h = HeadersAlong(room, q)
    BY <1>2
  <2> HIDE DEF h, room
  <2>2. DOMAIN HeadersAlong(room, q) = 1..room.size
    BY PlacesAlong
  <2>3. \A k : k \in Places(HeadersAlong(room, q), name)
                <=> k \in 1..room.size /\ room.node[q[k]].name = lower
    BY PlacesAlong
  <2> QED
    BY <1>2, <2>1, <2>2, <2>3
<1> HIDE DEF room, h, r, lower
<1>5. CASE \E t \in 1..m.size : room.node[q[t]].name = lower
  <2>1. PICK t \in 1..m.size : room.node[q[t]].name = lower
    BY <1>5
  <2>2. existing = q[t]
    BY <1>2, <2>1, LookupFinds
  <2>3. q[t] # NULL
    BY <1>2, HeaderMapAssumption DEF Sound, Linked, IsMap, Lists, NULL
  <2>4. \A k \in 1..m.size : k \in Places(h, name) <=> k = t
    BY <1>2, <1>4, <2>1 DEF Sound, NamesDiffer
  <2>5. HeaderSet(h, name, value) =
          [i \in 1..m.size |-> IF i = t THEN [h[i] EXCEPT !.value = value] ELSE h[i]]
    <3>1. Places(h, name) # {}
      BY <2>4
    <3>2. HeaderSet(h, name, value) =
            [i \in 1..m.size |-> IF i \in Places(h, name)
                                 THEN [h[i] EXCEPT !.value = value] ELSE h[i]]
      BY <1>4, <3>1 DEF HeaderSet
    <3> QED
      BY <2>4, <3>2
  <2>6. r = [room EXCEPT !.node[q[t]].value = value]
    <3> HIDE DEF existing
    <3> QED
      BY <1>3, <2>2, <2>3, Zenon
  <2>7. /\ Linked(r, q) /\ r.size = m.size /\ Chained(r, q) /\ NamesDiffer(r, q)
        /\ HeadersAlong(r, q) =
          [i \in 1..m.size |-> IF i = t THEN [h[i] EXCEPT !.value = value] ELSE h[i]]
    <3> DEFINE g == [room EXCEPT !.node[q[t]].value = value]
               old == HeadersAlong(room, q)
    <3>1. /\ Linked(room, q) /\ Chained(room, q) /\ NamesDiffer(room, q)
          /\ room.size = m.size /\ t \in 1..room.size /\ old = h
      BY <1>2 DEF Sound
    <3>2. /\ Linked(g, q) /\ g.size = room.size
          /\ Chained(room, q) => Chained(g, q)
          /\ NamesDiffer(room, q) => NamesDiffer(g, q)
          /\ HeadersAlong(g, q) =
               [i \in 1..room.size |-> IF i = t THEN [old[i] EXCEPT !.value = value]
                                       ELSE old[i]]
      BY <3>1, ReplacedIsLinked
    <3>3. r = g
      BY <2>6
    <3> HIDE DEF g, old
    <3> QED
      BY <3>1, <3>2, <3>3
  <2>8. HeadersAlong(r, q) = HeaderSet(h, name, value)
    BY <2>5, <2>7
  <2>9. r.size <= m.size + 1
    BY <1>2, <2>7
  <2> QED
    BY <2>7, <2>8, <2>9, Zenon DEF Sound, r, h
<1>6. CASE \A t \in 1..m.size : room.node[q[t]].name # lower
  <2>1. existing = NULL
    BY <1>1, <1>2, <1>6, LookupMisses
  <2>2. Places(h, name) = {}
    BY <1>4, <1>6
  <2>3. HeaderSet(h, name, value) = Append(h, [name |-> lower, value |-> value])
    BY <2>2 DEF HeaderSet, lower
  <2>4. r = Appended(room, lower, value)
    <3> HIDE DEF existing
    <3> QED
      BY <1>3, <2>1, Zenon
  <2>5. PICK s : /\ Linked(r, s) /\ r.size = m.size + 1
                 /\ HeadersAlong(r, s) = Append(h, [name |-> lower, value |-> value])
                 /\ Chained(r, s) /\ NamesDiffer(r, s)
    BY <1>1, <1>2, <1>6, <2>4, AppendedIsLinked DEF Sound
  <2>6. r.size <= m.size + 1
    BY <1>2, <2>5
  <2> QED
    BY <2>3, <2>5, <2>6, Zenon DEF Sound, r, h
<1> QED
  BY <1>5, <1>6

-----------------------------------------------------------------------------
(* Clearing and copying.                                                   *)

(* A map without nodes has an empty list and empty chains.                 *)
LEMMA NoNodesIsSound ==
  ASSUME NEW m, IsMap(m), DOMAIN m.node = {}, m.size = 0,
         m.head = NULL, m.tail = NULL,
         \A b \in 0 .. (m.bucket_count - 1) : m.buckets[b] = NULL
  PROVE  Sound(m, <<>>) /\ HeadersAlong(m, <<>>) = <<>>
<1>1. Lists(m, <<>>)
  BY DEF Lists
<1>2. Linked(m, <<>>)
  BY <1>1 DEF Linked
<1>3. Chained(m, <<>>)
  BY DEF Chained, IsLast
<1>4. NamesDiffer(m, <<>>)
  BY DEF NamesDiffer
<1>5. HeadersAlong(m, <<>>) = <<>>
  BY DEF HeadersAlong
<1> QED
  BY <1>2, <1>3, <1>4, <1>5 DEF Sound

(* A new map is sound and empty.                                           *)
LEMMA EmptyMapIsSound ==
  Sound(EmptyMap, <<>>) /\ HeadersAlong(EmptyMap, <<>>) = <<>> /\ EmptyMap.size = 0
<1>1. /\ InitialBucketCount \in Nat \ {0} /\ MaxNodes \in Nat /\ NULL \in Pointer
  BY HeaderMapAssumption DEF NULL, Pointer
<1>2. DOMAIN EmptyMap.node = {} /\ EmptyMap.node \in [{} -> NodeType]
  BY DEF EmptyMap
<1>3. IsMap(EmptyMap)
  BY <1>1, <1>2 DEF IsMap, EmptyMap
<1> QED
  BY <1>2, <1>3, NoNodesIsSound DEF EmptyMap

(* So is one that was cleared, whatever state its chains were in.          *)
LEMMA ClearedIsSound ==
  ASSUME NEW m, NEW q, Linked(m, q)
  PROVE  /\ Sound(Cleared(m), <<>>) /\ HeadersAlong(Cleared(m), <<>>) = <<>>
         /\ Cleared(m).size = 0
<1>1. Order(m) = q
  BY OrderIs
<1>2. /\ m.size \in Nat /\ m.bucket_count \in Nat \ {0} /\ MaxNodes \in Nat
      /\ q \in Seq(DOMAIN m.node) /\ Len(q) = m.size
      /\ \A n \in DOMAIN m.node : \E k \in 1..m.size : q[k] = n
  BY HeaderMapAssumption DEF Linked, IsMap, Lists
<1>3. DOMAIN m.node \ ToSet(q) = {}
  <2>1. \A k \in 1..m.size : q[k] \in ToSet(q)
    BY <1>2 DEF ToSet
  <2> QED
    BY <1>2, <2>1
<1> DEFINE r == Cleared(m)
<1>4. /\ DOMAIN r.node = {} /\ r.node \in [{} -> NodeType]
      /\ r.size = 0 /\ r.head = NULL /\ r.tail = NULL
      /\ r.bucket_count = m.bucket_count
      /\ r.buckets = [b \in 0 .. (m.bucket_count - 1) |-> NULL]
      /\ r = [node |-> r.node, head |-> r.head, tail |-> r.tail, size |-> r.size,
              buckets |-> r.buckets, bucket_count |-> r.bucket_count]
  BY <1>1, <1>3 DEF Cleared
<1> HIDE DEF r
<1>5. NULL \in Pointer
  BY <1>2 DEF NULL, Pointer
<1>6. IsMap(r)
  BY <1>2, <1>4, <1>5 DEF IsMap
<1>7. Sound(r, <<>>) /\ HeadersAlong(r, <<>>) = <<>> /\ r.size = 0
  BY <1>4, <1>6, NoNodesIsSound
<1> QED
  BY <1>7 DEF r

(* What may be copied: headers of distinct names, not more than fit.       *)
Copyable(headers) ==
  /\ headers \in Seq(Header) /\ Len(headers) <= MaxNodes
  /\ \A i, j \in DOMAIN headers : headers[i].name = headers[j].name => i = j

(* A header whose name is new goes to the end.                             *)
LEMMA SetAppends ==
  ASSUME NEW headers, Copyable(headers), NEW k \in 0 .. (Len(headers) - 1)
  PROVE  LET e == headers[k + 1]
         IN  HeaderSet(SubSeq(headers, 1, k), e.name, e.value) =
               SubSeq(headers, 1, k + 1)
<1> DEFINE e == headers[k + 1]
           h == SubSeq(headers, 1, k)
           l == SubSeq(headers, 1, k + 1)
<1>1. headers \in Seq(Header) /\ Len(headers) \in Nat /\ k + 1 \in 1..Len(headers)
      /\ DOMAIN headers = 1..Len(headers) /\ k \in Nat /\ k <= Len(headers)
  BY DEF Copyable
<1>2. e \in Header /\ e.name \in LowerName
      /\ e = [name |-> e.name, value |-> e.value]
  <2>1. e \in Header
    BY <1>1
  <2> HIDE DEF e
  <2> QED
    BY <2>1 DEF Header
<1>3. ToLower(e.name) = e.name
  BY <1>2, NamesFold
<1> HIDE DEF h, l
<1>4. /\ h \in Seq(Header) /\ Len(h) = k
      /\ \A i \in 1..k : h[i] = headers[i]
  <2>1. \A i \in 1..k : headers[i] \in Header
    BY <1>1
  <2> QED
    BY <1>1, <2>1, SubSeqProperties DEF h
<1>5. /\ l \in Seq(Header) /\ Len(l) = k + 1
      /\ \A i \in 1..(k + 1) : l[i] = headers[i]
  <2>1. \A i \in 1..(k + 1) : headers[i] \in Header
    BY <1>1
  <2> QED
    BY <1>1, <2>1, SubSeqProperties DEF l
<1>6. Places(h, e.name) = {}
  <2>1. \A i \in 1..k : i \in DOMAIN headers /\ k + 1 \in DOMAIN headers /\ i # k + 1
    BY <1>1
  <2>2. \A i \in 1..k : headers[i].name # e.name
    BY <2>1 DEF Copyable
  <2> QED
    BY <1>3, <1>4, <2>2 DEF Places
<1>7. HeaderSet(h, e.name, e.value) = Append(h, e)
  BY <1>2, <1>3, <1>6 DEF HeaderSet
<1>8. Append(h, e) = l
  <2>1. /\ Len(Append(h, e)) = k + 1 /\ Append(h, e) \in Seq(Header)
        /\ \A i \in 1..k : Append(h, e)[i] = headers[i]
        /\ Append(h, e)[k + 1] = headers[k + 1]
    BY <1>1, <1>2, <1>4, AppendProperties
  <2>2. \A i \in 1..(k + 1) : i \in 1..k \/ i = k + 1
    BY <1>1
  <2>3. \A i \in 1..(k + 1) : Append(h, e)[i] = l[i]
    BY <1>5, <2>1, <2>2
  <2> HIDE DEF e
  <2> QED
    BY <1>1, <1>5, <2>1, <2>3
<1> QED
  BY <1>7, <1>8 DEF h, l

(* copyFrom into an empty map leaves a sound map with these headers.       *)
LEMMA CopyIsSound ==
  ASSUME NEW m, Sound(m, <<>>), HeadersAlong(m, <<>>) = <<>>, m.size = 0,
         NEW headers, Copyable(headers)
  PROVE  \E s : /\ Sound(CopiedFrom(m, headers), s)
                /\ HeadersAlong(CopiedFrom(m, headers), s) = headers
<1> DEFINE l == Len(headers)
           Step(c, k) == Set(c, headers[k].name, headers[k].value)
           Copy(n, copy) == [k \in 0..n |-> IF k = 0 THEN m
                               ELSE Set(copy[k - 1], headers[k].name, headers[k].value)]
           Copied(c, k) == \E s : /\ Sound(c, s) /\ c.size <= k
                                  /\ HeadersAlong(c, s) = SubSeq(headers, 1, k)
           S == {n \in Nat : \E copy : copy = Copy(n, copy)}
<1>1. l \in Nat /\ l <= MaxNodes /\ MaxNodes \in Nat /\ headers \in Seq(Header)
  BY HeaderMapAssumption DEF Copyable
<1>2. 0 \in S
  <2>1. [k \in 0..0 |-> m] = Copy(0, [k \in 0..0 |-> m])
    OBVIOUS
  <2> QED
    BY <2>1
<1>3. ASSUME NEW n \in Nat, n \in S
      PROVE  n + 1 \in S
  <2>1. PICK copy : copy = Copy(n, copy)
    BY <1>3
  <2> DEFINE longer == [k \in 0..(n + 1) |-> IF k = n + 1 THEN Step(copy[n], n + 1)
                                             ELSE copy[k]]
  <2>2. \A k \in 0..(n + 1) : longer[k] = Copy(n + 1, longer)[k]
    <3> TAKE k \in 0..(n + 1)
    <3>1. CASE k = n + 1
      BY <3>1
    <3>2. CASE k # n + 1
      <4>1. k \in 0..n /\ longer[k] = copy[k] /\ (k # 0 => longer[k - 1] = copy[k - 1])
        BY <3>2
      <4>2. copy[k] = IF k = 0 THEN m
                      ELSE Set(copy[k - 1], headers[k].name, headers[k].value)
        BY <2>1, <4>1
      <4> QED
        BY <4>1, <4>2
    <3> QED
      BY <3>1, <3>2
  <2>3. longer = Copy(n + 1, longer)
    BY <2>2
  <2> HIDE DEF longer, Copy
  <2> QED
    BY <2>3
<1>4. l \in S
  <2>1. Nat \subseteq S
    <3> HIDE DEF S
    <3> QED
      BY <1>2, <1>3, NatsByInduction
  <2> QED
    BY <1>1, <2>1
<1> DEFINE copy == CHOOSE copy : copy = Copy(l, copy)
<1>5. copy = Copy(l, copy)
  <2> HIDE DEF Copy
  <2> QED
    BY <1>4
<1>6. CopiedFrom(m, headers) = copy[l]
  BY Zenon DEF CopiedFrom
<1> HIDE DEF copy
<1>7. copy[0] = m /\ \A k \in 0..(l - 1) : copy[k + 1] = Step(copy[k], k + 1)
  <2>1. copy[0] = m
    BY <1>1, <1>5
  <2>2. ASSUME NEW k \in 0..(l - 1)
        PROVE  copy[k + 1] = Step(copy[k], k + 1)
    <3>1. k + 1 \in 0..l /\ k + 1 # 0 /\ k + 1 - 1 = k
      BY <1>1
    <3>2. copy[k + 1] = Set(copy[k + 1 - 1], headers[k + 1].name, headers[k + 1].value)
      BY <1>5, <3>1
    <3> QED
      BY <3>1, <3>2
  <2> QED
    BY <2>1, <2>2
<1> DEFINE T == {k \in Nat : k <= l => Copied(copy[k], k)}
<1>8. 0 \in T
  <2>1. SubSeq(headers, 1, 0) = <<>>
    BY <1>1, SubSeqEmpty
  <2>2. Copied(m, 0)
    <3>1. m.size <= 0
      OBVIOUS
    <3> QED
      BY <2>1, <3>1, Zenon
  <2> QED
    BY <1>7, <2>2
<1>9. ASSUME NEW k \in Nat, k \in T
      PROVE  k + 1 \in T
  <2> SUFFICES ASSUME k + 1 <= l PROVE Copied(copy[k + 1], k + 1)
    OBVIOUS
  <2>1. k \in 0..(l - 1) /\ k + 1 \in 1..l /\ k <= l
    BY <1>1
  <2>2. PICK s : /\ Sound(copy[k], s) /\ copy[k].size <= k
                 /\ HeadersAlong(copy[k], s) = SubSeq(headers, 1, k)
    BY <1>9, <2>1
  <2>3. headers[k + 1] \in Header
    BY <1>1, <2>1
  <2>4. headers[k + 1].name \in Name /\ headers[k + 1].value \in Value
    BY <2>3, NamesFold DEF Header
  <2>5. copy[k].size \in Nat
    BY <2>2 DEF Sound, Linked, IsMap
  <2>6. copy[k].size < MaxNodes
    BY <1>1, <2>1, <2>2, <2>5
  <2>7. copy[k + 1] = Set(copy[k], headers[k + 1].name, headers[k + 1].value)
    BY <1>7, <2>1
  <2> DEFINE r == Set(copy[k], headers[k + 1].name, headers[k + 1].value)
  <2>8. PICK t : /\ Sound(r, t) /\ r.size <= copy[k].size + 1
                 /\ HeadersAlong(r, t) = HeaderSet(SubSeq(headers, 1, k),
                                           headers[k + 1].name, headers[k + 1].value)
    <3> DEFINE c == copy[k]
               name == headers[k + 1].name
               value == headers[k + 1].value
    <3> HIDE DEF c, name, value
    <3>1. Sound(c, s) /\ c.size < MaxNodes /\ name \in Name /\ value \in Value
      BY <2>2, <2>4, <2>6 DEF c, name, value
    <3>2. \E t : /\ Sound(Set(c, name, value), t)
                 /\ Set(c, name, value).size <= c.size + 1
                 /\ HeadersAlong(Set(c, name, value), t) =
                      HeaderSet(HeadersAlong(c, s), name, value)
      BY <3>1, SetIsSound
    <3>3. HeadersAlong(c, s) = SubSeq(headers, 1, k)
      BY <2>2 DEF c
    <3> QED
      BY <3>2, <3>3, Zenon DEF c, name, value
  <2>9. HeaderSet(SubSeq(headers, 1, k), headers[k + 1].name, headers[k + 1].value)
          = SubSeq(headers, 1, k + 1)
    BY <2>1, SetAppends
  <2>10. r.size \in Nat
    BY <2>8 DEF Sound, Linked, IsMap
  <2> HIDE DEF r
  <2>11. r.size <= k + 1
    BY <2>2, <2>5, <2>8, <2>10
  <2>12. Copied(r, k + 1)
    BY <2>8, <2>9, <2>11
  <2> QED
    BY <2>7, <2>12 DEF r
<1>10. Copied(copy[l], l)
  <2>1. Nat \subseteq T
    <3> HIDE DEF T
    <3> QED
      BY <1>8, <1>9, NatsByInduction
  <2>2. l \in T
    BY <1>1, <2>1
  <2> HIDE DEF Copied
  <2> QED
    BY <1>1, <2>2
<1>11. SubSeq(headers, 1, l) = headers
  BY <1>1, SubSeqFull
<1> QED
  BY <1>6, <1>10, <1>11

-----------------------------------------------------------------------------
(* Removing.                                                               *)

(* What taking the element at place t out of a sequence leaves.            *)
LEMMA RemoveAtIs ==
  ASSUME NEW S, NEW q \in Seq(S), NEW t \in 1..Len(q)
  PROVE  /\ RemoveAt(q, t) \in Seq(S) /\ Len(RemoveAt(q, t)) = Len(q) - 1
         /\ \A i \in 1 .. (Len(q) - 1) :
              RemoveAt(q, t)[i] = IF i < t THEN q[i] ELSE q[i + 1]
<1> DEFINE before == SubSeq(q, 1, t - 1)
           after == SubSeq(q, t + 1, Len(q))
<1>1. Len(q) \in Nat /\ t \in Nat /\ 1 <= t /\ t <= Len(q)
      /\ \A i \in 1..Len(q) : q[i] \in S
  OBVIOUS
<1>2. /\ before \in Seq(S) /\ Len(before) = t - 1
      /\ \A i \in 1..(t - 1) : before[i] = q[i]
  <2>1. \A i \in 1..(t - 1) : q[i] \in S
    BY <1>1
  <2> QED
    BY <1>1, <2>1, SubSeqProperties
<1>3. /\ after \in Seq(S) /\ Len(after) = Len(q) - t
      /\ \A i \in 1 .. (Len(q) - t) : after[i] = q[t + i]
  <2>1. \A i \in (t + 1)..Len(q) : q[i] \in S
    BY <1>1
  <2>2. /\ after \in Seq(S)
        /\ Len(after) = IF t + 1 <= Len(q) THEN Len(q) - (t + 1) + 1 ELSE 0
        /\ \A i \in 1 .. (Len(q) - (t + 1) + 1) : after[i] = q[t + 1 + i - 1]
    BY <1>1, <2>1, SubSeqProperties
  <2> QED
    BY <1>1, <2>2
<1>4. RemoveAt(q, t) = before \o after
  BY DEF RemoveAt
<1> HIDE DEF before, after
<1>5. before \o after \in Seq(S) /\ Len(before \o after) = Len(q) - 1
  BY <1>1, <1>2, <1>3
<1>6. \A i \in 1 .. (Len(q) - 1) :
        (before \o after)[i] = IF i < t THEN q[i] ELSE q[i + 1]
  <2> TAKE i \in 1 .. (Len(q) - 1)
  <2>1. CASE i < t
    BY <1>1, <1>2, <1>3, <2>1
  <2>2. CASE ~(i < t)
    <3>1. (before \o after)[i] = after[i - (t - 1)]
      BY <1>1, <1>2, <1>3, <2>2
    <3>2. i - (t - 1) \in 1 .. (Len(q) - t) /\ t + (i - (t - 1)) = i + 1
      BY <1>1, <2>2
    <3> QED
      BY <1>3, <2>2, <3>1, <3>2
  <2> QED
    BY <2>1, <2>2
<1> QED
  BY <1>4, <1>5, <1>6

(* Of two nodes of a chain, at most one goes on to a given third, and none *)
(* does if the bucket itself does.                                         *)
LEMMA OneLeadsTo ==
  ASSUME NEW m, NEW q, Linked(m, q), Chained(m, q), NEW t \in 1..m.size
  PROVE  /\ \A i, j \in 1..m.size :
              m.node[q[i]].hash_next = q[t] /\ m.node[q[j]].hash_next = q[t] => i = j
         /\ \A i \in 1..m.size : m.node[q[i]].hash_next = q[t] =>
              /\ t < i /\ BucketAt(m, q, i) = BucketAt(m, q, t)
              /\ \A b \in 0 .. (m.bucket_count - 1) : m.buckets[b] # q[t]
         /\ \A b \in 0 .. (m.bucket_count - 1) :
              m.buckets[b] = q[t] => b = BucketAt(m, q, t)
<1>1. /\ m.size \in Nat /\ NULL \notin DOMAIN m.node
      /\ \A k \in 1..m.size : q[k] \in DOMAIN m.node
      /\ \A j, k \in 1..m.size : q[j] = q[k] => j = k
  BY HeaderMapAssumption DEF Linked, IsMap, Lists, NULL
<1>2. ASSUME NEW b, NEW k \in 0..m.size, IsLast(m, q, b, k, q[t])
      PROVE  /\ t \in 1..k /\ BucketAt(m, q, t) = b
             /\ \A j \in 1..k : j > t => BucketAt(m, q, j) # b
  <2>1. PICK i \in 1..k : /\ q[t] = q[i] /\ BucketAt(m, q, i) = b
                          /\ \A j \in 1..k : j > i => BucketAt(m, q, j) # b
    BY <1>1, <1>2 DEF IsLast
  <2>2. i = t
    BY <1>1, <2>1
  <2> QED
    BY <2>1, <2>2
<1>3. ASSUME NEW i \in 1..m.size, m.node[q[i]].hash_next = q[t]
      PROVE  /\ t \in 1..(i - 1) /\ BucketAt(m, q, t) = BucketAt(m, q, i)
             /\ \A j \in 1..(i - 1) : j > t => BucketAt(m, q, j) # BucketAt(m, q, i)
  <2>1. i - 1 \in 0..m.size
    BY <1>1
  <2>2. IsLast(m, q, BucketAt(m, q, i), i - 1, q[t])
    BY <1>3 DEF Chained
  <2> QED
    BY <1>2, <2>1, <2>2
<1>4. ASSUME NEW b \in 0 .. (m.bucket_count - 1), m.buckets[b] = q[t]
      PROVE  /\ BucketAt(m, q, t) = b
             /\ \A j \in 1..m.size : j > t => BucketAt(m, q, j) # b
  <2>1. IsLast(m, q, b, m.size, q[t]) /\ m.size \in 0..m.size
    BY <1>1, <1>4 DEF Chained
  <2> QED
    BY <1>2, <2>1
<1>5. ASSUME NEW i \in 1..m.size, NEW j \in 1..m.size, i < j,
             m.node[q[i]].hash_next = q[t], m.node[q[j]].hash_next = q[t]
      PROVE  FALSE
  <2>1. t \in 1..(i - 1) /\ BucketAt(m, q, t) = BucketAt(m, q, i)
    BY <1>3, <1>5
  <2>2. /\ BucketAt(m, q, t) = BucketAt(m, q, j)
        /\ \A k \in 1..(j - 1) : k > t => BucketAt(m, q, k) # BucketAt(m, q, j)
    BY <1>3, <1>5
  <2>3. i \in 1..(j - 1) /\ i > t
    BY <1>1, <1>5, <2>1
  <2> QED
    BY <2>1, <2>2, <2>3
<1>6. \A i, j \in 1..m.size :
        m.node[q[i]].hash_next = q[t] /\ m.node[q[j]].hash_next = q[t] => i = j
  <2> TAKE i, j \in 1..m.size
  <2>1. i \in Nat /\ j \in Nat
    BY <1>1
  <2>2. i < j \/ j < i \/ i = j
    BY <2>1
  <2> QED
    BY <1>5, <2>2
<1>7. ASSUME NEW i \in 1..m.size, m.node[q[i]].hash_next = q[t]
      PROVE  /\ t < i /\ BucketAt(m, q, i) = BucketAt(m, q, t)
             /\ \A b \in 0 .. (m.bucket_count - 1) : m.buckets[b] # q[t]
  <2>1. t \in 1..(i - 1) /\ BucketAt(m, q, t) = BucketAt(m, q, i)
    BY <1>3, <1>7
  <2>2. t < i
    BY <1>1, <2>1
  <2>3. ASSUME NEW b \in 0 .. (m.bucket_count - 1), m.buckets[b] = q[t]
        PROVE  FALSE
    BY <1>4, <2>1, <2>2, <2>3
  <2> QED
    BY <2>1, <2>2, <2>3
<1> QED
  BY <1>4, <1>6, <1>7

(* The last node of a bucket after the node at place t has gone: what it   *)
(* was, unless that was the node at t; then the one before in the chain.   *)
LEMMA LastWithout ==
  ASSUME NEW m, NEW q, Linked(m, q), NEW t \in 1..m.size,
         NEW r, NEW s,
         \A i \in 1 .. (m.size - 1) :
           /\ s[i] = IF i < t THEN q[i] ELSE q[i + 1]
           /\ BucketAt(r, s, i) = BucketAt(m, q, IF i < t THEN i ELSE i + 1),
         NEW b, NEW k \in t..m.size, NEW p, IsLast(m, q, b, k, p),
         NEW before, b = BucketAt(m, q, t) => IsLast(m, q, b, t - 1, before)
  PROVE  IsLast(r, s, b, k - 1, IF p = q[t] THEN before ELSE p)
<1>1. /\ m.size \in Nat /\ NULL \notin DOMAIN m.node
      /\ \A i \in 1..m.size : q[i] \in DOMAIN m.node
      /\ \A i, j \in 1..m.size : q[i] = q[j] => i = j
  BY HeaderMapAssumption DEF Linked, IsMap, Lists, NULL
<1>2. \A i \in 1..(k - 1) :
        /\ s[i] = IF i < t THEN q[i] ELSE q[i + 1]
        /\ BucketAt(r, s, i) = IF i < t THEN BucketAt(m, q, i) ELSE BucketAt(m, q, i + 1)
  <2> TAKE i \in 1..(k - 1)
  <2>1. i \in 1 .. (m.size - 1)
    BY <1>1
  <2> QED
    BY <2>1
<1>3. CASE p = NULL
  <2>1. \A i \in 1..k : BucketAt(m, q, i) # b
    BY <1>1, <1>3 DEF IsLast
  <2>2. \A i \in 1..(k - 1) : BucketAt(r, s, i) # b
    BY <1>1, <1>2, <2>1
  <2>3. p # q[t]
    BY <1>1, <1>3
  <2> QED
    BY <1>3, <2>2, <2>3 DEF IsLast
<1>4. ASSUME NEW i \in 1..k, p = q[i], BucketAt(m, q, i) = b,
             \A j \in 1..k : j > i => BucketAt(m, q, j) # b
      PROVE  IsLast(r, s, b, k - 1, IF p = q[t] THEN before ELSE p)
  <2>1. CASE i = t
    <3>1. IsLast(m, q, b, t - 1, before)
      BY <1>4, <2>1
    <3>2. \A j \in 1..(k - 1) : ~(j < t) => BucketAt(r, s, j) # b
      <4> TAKE j \in 1..(k - 1)
      <4>1. j + 1 \in 1..k /\ (~(j < t) => j + 1 > t)
        BY <1>1
      <4> QED
        BY <1>2, <1>4, <2>1, <4>1
    <3>3. \A j \in 1..(t - 1) : /\ j \in 1..(k - 1) /\ j < t
                                /\ s[j] = q[j] /\ BucketAt(r, s, j) = BucketAt(m, q, j)
      <4> TAKE j \in 1..(t - 1)
      <4>1. j \in 1..(k - 1) /\ j < t
        BY <1>1
      <4> QED
        BY <1>2, <4>1
    <3>4. \A j \in 1..(k - 1) : j < t => j \in 1..(t - 1)
      BY <1>1
    <3>5. IsLast(r, s, b, k - 1, before)
      <4>1. CASE before = NULL /\ \A j \in 1..(t - 1) : BucketAt(m, q, j) # b
        <5>1. \A j \in 1..(k - 1) : BucketAt(r, s, j) # b
          BY <3>2, <3>3, <3>4, <4>1
        <5> QED
          BY <4>1, <5>1 DEF IsLast
      <4>2. ASSUME NEW x \in 1..(t - 1), before = q[x], BucketAt(m, q, x) = b,
                   \A j \in 1..(t - 1) : j > x => BucketAt(m, q, j) # b
            PROVE  IsLast(r, s, b, k - 1, before)
        <5>1. x \in 1..(k - 1) /\ before = s[x] /\ BucketAt(r, s, x) = b
          BY <3>3, <4>2
        <5>2. \A j \in 1..(k - 1) : j > x => BucketAt(r, s, j) # b
          BY <3>2, <3>3, <3>4, <4>2
        <5> QED
          BY <5>1, <5>2 DEF IsLast
      <4> QED
        BY <3>1, <4>1, <4>2 DEF IsLast
    <3> QED
      BY <1>4, <2>1, <3>5
  <2>2. CASE i # t
    <3> DEFINE x == IF i < t THEN i ELSE i - 1
    <3>1. /\ x \in 1..(k - 1) /\ (IF x < t THEN x ELSE x + 1) = i
          /\ i \in 1..m.size
      BY <1>1, <2>2
    <3>2. s[x] = p /\ BucketAt(r, s, x) = b
      <4>1. CASE i < t
        BY <1>2, <1>4, <3>1, <4>1
      <4>2. CASE ~(i < t)
        <5>1. ~(x < t) /\ x + 1 = i
          BY <1>1, <2>2, <4>2
        <5> HIDE DEF x
        <5> QED
          BY <1>2, <1>4, <3>1, <5>1
      <4> QED
        BY <4>1, <4>2
    <3>3. \A j \in 1..(k - 1) : j > x => BucketAt(r, s, j) # b
      <4> TAKE j \in 1..(k - 1)
      <4>1. CASE j < t
        <5>1. j \in 1..k /\ (j > x => j > i)
          BY <1>1, <2>2, <4>1
        <5> QED
          BY <1>2, <1>4, <4>1, <5>1
      <4>2. CASE ~(j < t)
        <5>1. j + 1 \in 1..k /\ (j > x => j + 1 > i)
          BY <1>1, <2>2, <4>2
        <5> QED
          BY <1>2, <1>4, <4>2, <5>1
      <4> QED
        BY <4>1, <4>2
    <3>4. p # q[t]
      BY <1>1, <1>4, <2>2, <3>1
    <3> HIDE DEF x
    <3> QED
      BY <3>1, <3>2, <3>3, <3>4 DEF IsLast
  <2> QED
    BY <2>1, <2>2
<1> QED
  BY <1>3, <1>4 DEF IsLast

(* Taking a node out of its chain leaves the list alone.                   *)
LEMMA UnchainedIsLinked ==
  ASSUME NEW m, NEW q, Linked(m, q), NoneDangles(m), NEW name \in LowerName,
         Matches(m, name) # {}
  PROVE  LET k == Min(Matches(m, name))
             n == Chain(m, name)[k]
             u == Unchained(m, name, n, k)
             b == BucketIndex(name, m.bucket_count)
         IN  /\ n \in DOMAIN m.node /\ m.node[n].name = name
             /\ Linked(u, q) /\ DOMAIN u.node = DOMAIN m.node
             /\ u.size = m.size /\ u.bucket_count = m.bucket_count
             /\ \A x \in DOMAIN m.node : /\ u.node[x].name = m.node[x].name
                                         /\ u.node[x].value = m.node[x].value
             /\ k > 0 => LET y == Chain(m, name)[k - 1]
                         IN  /\ y \in DOMAIN m.node /\ m.node[y].hash_next = n
                             /\ u.buckets = m.buckets
                             /\ \A x \in DOMAIN m.node : u.node[x].hash_next =
                                  IF x = y THEN m.node[n].hash_next
                                  ELSE m.node[x].hash_next
             /\ ~(k > 0) => /\ m.buckets[b] = n
                            /\ u.node = m.node
                            /\ u.buckets =
                                 [m.buckets EXCEPT ![b] = m.node[n].hash_next]
<1> DEFINE k == Min(Matches(m, name))
           n == Chain(m, name)[k]
           u == Unchained(m, name, n, k)
           b == BucketIndex(name, m.bucket_count)
           y == Chain(m, name)[k - 1]
           after == m.node[n].hash_next
<1>1. /\ m.size \in Nat /\ DOMAIN m.node \subseteq 1..MaxNodes
      /\ m \in [node : [DOMAIN m.node -> NodeType], head : Pointer, tail : Pointer,
                size : 0..MaxNodes, buckets : [0 .. (m.bucket_count - 1) -> Pointer],
                bucket_count : Nat \ {0}]
  BY DEF Linked, IsMap
<1>2. b \in 0 .. (m.bucket_count - 1)
  BY <1>1, NamesFold
<1>3. /\ k \in 0..m.size /\ n \in DOMAIN m.node /\ m.node[n].name = name
      /\ \A j \in 0..m.size : Chain(m, name)[j] \in DOMAIN m.node \cup {NULL}
  BY LookupEnds
<1>4. /\ Chain(m, name)[0] = m.buckets[b]
      /\ \A j \in 1..m.size :
           Chain(m, name)[j] = IF Chain(m, name)[j - 1] = NULL THEN NULL
                               ELSE m.node[Chain(m, name)[j - 1]].hash_next
  <2>1. Cardinality(DOMAIN m.node) = m.size
    BY <1>1, NodesAreCounted DEF Linked
  <2> QED
    BY <1>1, <2>1, ChainIs
<1>5. NULL \notin DOMAIN m.node
  BY <1>1, HeaderMapAssumption DEF NULL
<1>6. after \in Pointer
  BY <1>1, <1>3 DEF NodeType
<1>7. u = IF k > 0 THEN [m EXCEPT !.node[y].hash_next = after]
          ELSE [m EXCEPT !.buckets[b] = after]
  BY Zenon DEF Unchained
<1> HIDE DEF k, n, u, b, y, after
<1>8. CASE k > 0
  <2>1. y \in DOMAIN m.node /\ m.node[y].hash_next = n
    <3>1. k \in 1..m.size /\ k - 1 \in 0..m.size
      BY <1>1, <1>3, <1>8
    <3>2. n = IF y = NULL THEN NULL ELSE m.node[y].hash_next
      BY <1>4, <3>1 DEF n, y
    <3>3. y \in DOMAIN m.node \cup {NULL}
      BY <1>3, <3>1 DEF y
    <3> QED
      BY <1>3, <1>5, <3>2, <3>3
  <2> DEFINE node == [m.node EXCEPT ![y].hash_next = after]
  <2>2. u = [m EXCEPT !.node = node]
    BY <1>1, <1>7, <1>8
  <2>3. /\ DOMAIN node = DOMAIN m.node
        /\ \A x \in DOMAIN m.node :
             /\ m.node[x] \in NodeType
             /\ node[x] = IF x = y THEN [m.node[x] EXCEPT !.hash_next = after]
                          ELSE m.node[x]
        /\ node = [x \in DOMAIN m.node |-> node[x]]
    BY <1>1, <2>1
  <2> HIDE DEF node
  <2>4. \A x \in DOMAIN m.node :
          /\ node[x] \in NodeType
          /\ node[x].name = m.node[x].name /\ node[x].value = m.node[x].value
          /\ node[x].prev = m.node[x].prev /\ node[x].next = m.node[x].next
          /\ node[x].hash_next = IF x = y THEN after ELSE m.node[x].hash_next
    BY <1>6, <2>3 DEF NodeType
  <2>5. node \in [DOMAIN m.node -> NodeType]
    BY <2>3, <2>4
  <2>6. /\ u.node = node /\ u.head = m.head /\ u.tail = m.tail /\ u.size = m.size
        /\ u.buckets = m.buckets /\ u.bucket_count = m.bucket_count
        /\ u = [node |-> u.node, head |-> u.head, tail |-> u.tail, size |-> u.size,
                buckets |-> u.buckets, bucket_count |-> u.bucket_count]
    BY <1>1, <2>2
  <2>7. IsMap(u)
    BY <1>1, <2>3, <2>5, <2>6 DEF IsMap
  <2>8. Linked(u, q)
    <3>1. DOMAIN u.node = DOMAIN m.node
      BY <2>3, <2>6
    <3>2. \A x \in DOMAIN m.node : /\ u.node[x].prev = m.node[x].prev
                                   /\ u.node[x].next = m.node[x].next
      BY <2>4, <2>6
    <3> QED
      BY <2>6, <2>7, <3>1, <3>2, SameList
  <2> QED
    BY <1>3, <1>8, <2>1, <2>3, <2>4, <2>6, <2>8 DEF k, n, u, y, after
<1>9. CASE ~(k > 0)
  <2>1. k = 0 /\ m.buckets[b] = n
    <3>1. k = 0
      BY <1>1, <1>3, <1>9
    <3> QED
      BY <1>4, <3>1 DEF n
  <2>2. u = [m EXCEPT !.buckets = [m.buckets EXCEPT ![b] = after]]
    BY <1>1, <1>7, <1>9
  <2> DEFINE buckets == [m.buckets EXCEPT ![b] = after]
  <2>3. buckets \in [0 .. (m.bucket_count - 1) -> Pointer]
    BY <1>1, <1>6
  <2>4. u = [m EXCEPT !.buckets = buckets]
    BY <2>2
  <2> HIDE DEF buckets
  <2>5. /\ u.node = m.node /\ u.head = m.head /\ u.tail = m.tail /\ u.size = m.size
        /\ u.buckets = buckets /\ u.bucket_count = m.bucket_count
        /\ u = [node |-> u.node, head |-> u.head, tail |-> u.tail, size |-> u.size,
                buckets |-> u.buckets, bucket_count |-> u.bucket_count]
    BY <1>1, <2>4
  <2>6. IsMap(u)
    BY <1>1, <2>3, <2>5 DEF IsMap
  <2>7. Linked(u, q)
    BY <2>5, <2>6, SameList
  <2> QED
    BY <1>3, <1>9, <2>1, <2>5, <2>7 DEF k, n, u, b, after, buckets
<1> QED
  BY <1>8, <1>9

(* Whatever led to the node leads to the one behind it instead.            *)
LEMMA UnchainedSkips ==
  ASSUME NEW m, NEW q, Sound(m, q), NEW t \in 1..m.size
  PROVE  LET name == m.node[q[t]].name
             k == Min(Matches(m, name))
             u == Unchained(m, name, q[t], k)
             after == m.node[q[t]].hash_next
         IN  /\ \A x \in DOMAIN m.node : u.node[x].hash_next =
                  IF m.node[x].hash_next = q[t] THEN after ELSE m.node[x].hash_next
             /\ \A b \in 0 .. (m.bucket_count - 1) : u.buckets[b] =
                  IF m.buckets[b] = q[t] THEN after ELSE m.buckets[b]
<1> DEFINE name == m.node[q[t]].name
           k == Min(Matches(m, name))
           n == Chain(m, name)[k]
           u == Unchained(m, name, n, k)
           after == m.node[n].hash_next
           first == BucketIndex(name, m.bucket_count)
           y == Chain(m, name)[k - 1]
<1>1. /\ Linked(m, q) /\ Chained(m, q) /\ NoneDangles(m)
  BY ChainedDangleNot DEF Sound
<1>2. /\ \A i \in 1..m.size : q[i] \in DOMAIN m.node
      /\ \A x \in DOMAIN m.node : \E i \in 1..m.size : q[i] = x
      /\ m.node \in [DOMAIN m.node -> NodeType]
      /\ DOMAIN m.buckets = 0 .. (m.bucket_count - 1)
      /\ m.bucket_count \in Nat \ {0}
      /\ m.size \in Nat
  BY <1>1 DEF Linked, IsMap, Lists
<1>3. n = q[t] /\ Matches(m, name) # {}
  BY LookupFinds
<1>4. name \in LowerName
  BY <1>2 DEF NodeType
<1>5. first \in 0 .. (m.bucket_count - 1)
  BY <1>2, <1>4, NamesFold
<1>6. /\ k > 0 => /\ y \in DOMAIN m.node /\ m.node[y].hash_next = n
                  /\ u.buckets = m.buckets
                  /\ \A x \in DOMAIN m.node : u.node[x].hash_next =
                       IF x = y THEN after ELSE m.node[x].hash_next
      /\ ~(k > 0) => /\ m.buckets[first] = n
                     /\ u.node = m.node
                     /\ u.buckets = [m.buckets EXCEPT ![first] = after]
  BY <1>1, <1>3, <1>4, UnchainedIsLinked
<1> HIDE DEF name, k, n, u, after, first, y
<1>7. \A x, z \in DOMAIN m.node :
        m.node[x].hash_next = n /\ m.node[z].hash_next = n => x = z
  <2> SUFFICES ASSUME NEW x \in DOMAIN m.node, NEW z \in DOMAIN m.node,
                      m.node[x].hash_next = n, m.node[z].hash_next = n
               PROVE  x = z
    OBVIOUS
  <2>1. PICK i \in 1..m.size : q[i] = x
    BY <1>2
  <2>2. PICK j \in 1..m.size : q[j] = z
    BY <1>2
  <2>3. i = j
    BY <1>1, <1>3, <2>1, <2>2, OneLeadsTo
  <2> QED
    BY <2>1, <2>2, <2>3
<1>8. \A x \in DOMAIN m.node : m.node[x].hash_next = n =>
        \A b \in 0 .. (m.bucket_count - 1) : m.buckets[b] # n
  <2> SUFFICES ASSUME NEW x \in DOMAIN m.node, m.node[x].hash_next = n
               PROVE  \A b \in 0 .. (m.bucket_count - 1) : m.buckets[b] # n
    OBVIOUS
  <2>1. PICK i \in 1..m.size : q[i] = x
    BY <1>2
  <2> QED
    BY <1>1, <1>3, <2>1, OneLeadsTo
<1>9. \A b, c \in 0 .. (m.bucket_count - 1) :
        m.buckets[b] = n /\ m.buckets[c] = n => b = c
  BY <1>1, <1>3, OneLeadsTo
<1>10. /\ \A x \in DOMAIN m.node : u.node[x].hash_next =
            IF m.node[x].hash_next = n THEN after ELSE m.node[x].hash_next
       /\ \A b \in 0 .. (m.bucket_count - 1) : u.buckets[b] =
            IF m.buckets[b] = n THEN after ELSE m.buckets[b]
  <2>1. CASE k > 0
    BY <1>6, <1>7, <1>8, <2>1
  <2>2. CASE ~(k > 0)
    <3>1. \A b \in 0 .. (m.bucket_count - 1) :
            u.buckets[b] = IF b = first THEN after ELSE m.buckets[b]
      BY <1>2, <1>5, <1>6, <2>2
    <3> QED
      BY <1>5, <1>6, <1>8, <1>9, <2>2, <3>1
  <2> QED
    BY <2>1, <2>2
<1> QED
  BY <1>3, <1>10, Zenon DEF name, k, u, after

(* m without node n, which is in no chain any more.                        *)
Deleted(m, n) ==
  LET rest == Unlisted(m, n)
  IN  [rest EXCEPT !.node = Without(rest.node, n), !.size = @ - 1]

(* Taking the node at place t out of the list.                             *)
LEMMA DeletedIsLinked ==
  ASSUME NEW m, NEW q, Linked(m, q), NEW t \in 1..m.size
  PROVE  LET r == Deleted(m, q[t])
             s == RemoveAt(q, t)
         IN  /\ Linked(r, s)
             /\ r.size = m.size - 1 /\ r.buckets = m.buckets
             /\ r.bucket_count = m.bucket_count
             /\ \A i \in 1 .. (m.size - 1) :
                  /\ s[i] = IF i < t THEN q[i] ELSE q[i + 1]
                  /\ r.node[s[i]].name = m.node[s[i]].name
                  /\ r.node[s[i]].value = m.node[s[i]].value
                  /\ r.node[s[i]].hash_next = m.node[s[i]].hash_next
<1> DEFINE n == q[t]
           prev == m.node[n].prev
           next == m.node[n].next
           rest == Unlisted(m, n)
           r == Deleted(m, n)
           s == RemoveAt(q, t)
           node == [i \in DOMAIN m.node |->
                      IF i = prev THEN [m.node[i] EXCEPT !.next = next]
                      ELSE IF i = next THEN [m.node[i] EXCEPT !.prev = prev]
                      ELSE m.node[i]]
<1>1. /\ m.size \in Nat /\ MaxNodes \in Nat
      /\ DOMAIN m.node \subseteq 1..MaxNodes
      /\ q \in Seq(DOMAIN m.node) /\ Len(q) = m.size
      /\ \A k \in 1..m.size : q[k] \in DOMAIN m.node
      /\ \A k \in DOMAIN m.node : \E i \in 1..m.size : q[i] = k
      /\ \A j, k \in 1..m.size : q[j] = q[k] => j = k
      /\ m \in [node : [DOMAIN m.node -> NodeType], head : Pointer, tail : Pointer,
                size : 0..MaxNodes, buckets : [0 .. (m.bucket_count - 1) -> Pointer],
                bucket_count : Nat \ {0}]
      /\ m.head = IF m.size = 0 THEN NULL ELSE q[1]
      /\ m.tail = IF m.size = 0 THEN NULL ELSE q[m.size]
      /\ \A k \in 1..m.size :
           /\ m.node[q[k]].prev = IF k = 1 THEN NULL ELSE q[k - 1]
           /\ m.node[q[k]].next = IF k = m.size THEN NULL ELSE q[k + 1]
  BY HeaderMapAssumption DEF Linked, IsMap, Lists
<1> DEFINE l == m.size
<1> HIDE DEF l
<1>length. l \in Nat /\ t \in 1..l /\ l = m.size
  BY <1>1 DEF l
<1>links.
      /\ q \in Seq(DOMAIN m.node) /\ Len(q) = l
      /\ \A k \in 1..l : q[k] \in DOMAIN m.node
      /\ \A j, k \in 1..l : q[j] = q[k] => j = k
      /\ \A k \in 1..l : /\ m.node[q[k]].prev = IF k = 1 THEN NULL ELSE q[k - 1]
                         /\ m.node[q[k]].next = IF k = l THEN NULL ELSE q[k + 1]
  BY <1>1, <1>length
<1>2. /\ prev = IF t = 1 THEN NULL ELSE q[t - 1]
      /\ next = IF t = m.size THEN NULL ELSE q[t + 1]
      /\ n \in DOMAIN m.node /\ NULL \notin DOMAIN m.node /\ NULL \in Pointer
      /\ prev \in Pointer /\ next \in Pointer
  <2>1. m.node[n] \in NodeType /\ n \in DOMAIN m.node
    BY <1>1
  <2> QED
    BY <1>1, <2>1 DEF NodeType, NULL, Pointer
<1>3. /\ s \in Seq(DOMAIN m.node) /\ Len(s) = l - 1
      /\ \A i \in 1 .. (l - 1) : s[i] = IF i < t THEN q[i] ELSE q[i + 1]
  <2> HIDE DEF s
  <2>1. /\ RemoveAt(q, t) \in Seq(DOMAIN m.node) /\ Len(RemoveAt(q, t)) = Len(q) - 1
        /\ \A i \in 1 .. (Len(q) - 1) :
             RemoveAt(q, t)[i] = IF i < t THEN q[i] ELSE q[i + 1]
    <3>1. q \in Seq(DOMAIN m.node) /\ t \in 1..Len(q)
      BY <1>length, <1>links
    <3> HIDE DEF n, prev, next, rest, r, node
    <3> QED
      BY <3>1, RemoveAtIs
  <2> QED
    BY <1>links, <2>1 DEF s
<1>4. rest = [m EXCEPT !.node = node,
                       !.head = IF prev = NULL THEN next ELSE @,
                       !.tail = IF next = NULL THEN prev ELSE @]
  BY Zenon DEF Unlisted
<1> HIDE DEF s, rest, node, n, prev, next
<1>5. /\ DOMAIN node = DOMAIN m.node
      /\ \A x \in DOMAIN m.node :
           node[x] = IF x = prev THEN [m.node[x] EXCEPT !.next = next]
                     ELSE IF x = next THEN [m.node[x] EXCEPT !.prev = prev]
                     ELSE m.node[x]
  BY DEF node
<1>6. prev = next => prev = NULL
  <2>1. t # 1 => t - 1 \in 1..m.size
    BY <1>1
  <2>2. t # m.size => t + 1 \in 1..m.size
    BY <1>1
  <2> QED
    BY <1>1, <1>2, <2>1, <2>2
<1>7. \A x \in DOMAIN m.node :
        /\ node[x] \in NodeType
        /\ node[x].name = m.node[x].name /\ node[x].value = m.node[x].value
        /\ node[x].hash_next = m.node[x].hash_next
        /\ node[x].next = IF x = prev THEN next ELSE m.node[x].next
        /\ node[x].prev = IF x = next THEN prev ELSE m.node[x].prev
  <2>1. \A x \in DOMAIN m.node : m.node[x] \in NodeType /\ x # NULL
    BY <1>1, <1>2
  <2> QED
    BY <1>2, <1>5, <1>6, <2>1 DEF NodeType
<1>8. /\ rest.node = node /\ rest.size = m.size /\ rest.buckets = m.buckets
      /\ rest.bucket_count = m.bucket_count
      /\ rest.head = IF prev = NULL THEN next ELSE m.head
      /\ rest.tail = IF next = NULL THEN prev ELSE m.tail
      /\ rest = [node |-> rest.node, head |-> rest.head, tail |-> rest.tail,
                 size |-> rest.size, buckets |-> rest.buckets,
                 bucket_count |-> rest.bucket_count]
  BY <1>1, <1>4
<1>9. /\ r.node = Without(node, n) /\ r.size = m.size - 1
      /\ r.buckets = m.buckets /\ r.bucket_count = m.bucket_count
      /\ r.head = IF prev = NULL THEN next ELSE m.head
      /\ r.tail = IF next = NULL THEN prev ELSE m.tail
      /\ r = [node |-> r.node, head |-> r.head, tail |-> r.tail, size |-> r.size,
              buckets |-> r.buckets, bucket_count |-> r.bucket_count]
  <2> DEFINE left == Without(rest.node, n)
  <2>1. r = [rest EXCEPT !.node = left, !.size = @ - 1]
    BY Zenon DEF Deleted, rest
  <2> HIDE DEF left, r
  <2>2. /\ r.node = left /\ r.size = rest.size - 1
        /\ r.buckets = rest.buckets /\ r.bucket_count = rest.bucket_count
        /\ r.head = rest.head /\ r.tail = rest.tail
        /\ r = [node |-> r.node, head |-> r.head, tail |-> r.tail, size |-> r.size,
                buckets |-> r.buckets, bucket_count |-> r.bucket_count]
    BY <1>8, <2>1
  <2>3. left = Without(node, n)
    BY <1>8 DEF left
  <2> QED
    BY <1>8, <2>2, <2>3
<1> HIDE DEF r
<1>10. /\ DOMAIN r.node = DOMAIN m.node \ {n}
       /\ \A x \in DOMAIN m.node \ {n} : r.node[x] = node[x]
       /\ r.node \in [DOMAIN m.node \ {n} -> NodeType]
  <2>1. r.node = [x \in DOMAIN m.node \ {n} |-> node[x]]
    BY <1>5, <1>9 DEF Without
  <2> QED
    BY <1>7, <2>1
<1>11. IsMap(r)
  <2>1. /\ r.size \in 0..MaxNodes /\ r.head \in Pointer /\ r.tail \in Pointer
        /\ r.buckets \in [0 .. (r.bucket_count - 1) -> Pointer]
        /\ r.bucket_count \in Nat \ {0}
    BY <1>1, <1>2, <1>9
  <2>2. r.node \in [DOMAIN r.node -> NodeType] /\ DOMAIN r.node \subseteq 1..MaxNodes
    BY <1>1, <1>10
  <2> QED
    BY <1>9, <2>1, <2>2 DEF IsMap
<1> DEFINE old(i) == IF i < t THEN i ELSE i + 1
<1>12. \A i \in 1 .. (l - 1) :
         old(i) \in 1..l /\ old(i) # t /\ s[i] = q[old(i)]
  BY <1>length, <1>3
<1>13. \A i \in 1 .. (l - 1) : s[i] \in DOMAIN m.node \ {n}
  <2> HIDE DEF old
  <2> QED
    BY <1>links, <1>length, <1>12 DEF n
<1>14. Lists(r, s)
  <2>0. r.size = l - 1
    BY <1>9, <1>length
  <2>1. s \in Seq(DOMAIN r.node)
    <3>1. \A i \in 1..Len(s) : s[i] \in DOMAIN r.node
      BY <1>3, <1>10, <1>13
    <3>2. s = [i \in 1..Len(s) |-> s[i]] /\ Len(s) \in Nat
      BY <1>3
    <3> QED
      BY <3>1, <3>2
  <2>2. ASSUME NEW x \in DOMAIN r.node
        PROVE  \E k \in 1..r.size : s[k] = x
    <3>1. x \in DOMAIN m.node /\ x # n
      BY <1>10
    <3>2. PICK i \in 1..l : q[i] = x
      BY <1>1, <1>length, <3>1
    <3>3. i # t
      BY <3>1, <3>2 DEF n
    <3> DEFINE k == IF i < t THEN i ELSE i - 1
    <3>4. k \in 1 .. (l - 1) /\ old(k) = i
      BY <1>length, <3>3
    <3> HIDE DEF k, old
    <3> QED
      BY <2>0, <1>12, <3>2, <3>4
  <2>3. ASSUME NEW j \in 1..r.size, NEW k \in 1..r.size, s[j] = s[k]
        PROVE  j = k
    <3>1. j \in 1 .. (l - 1) /\ k \in 1 .. (l - 1)
      BY <2>0
    <3>2. old(j) = old(k)
      <4> HIDE DEF old
      <4> QED
        BY <1>links, <1>12, <2>3, <3>1
    <3> QED
      BY <1>length, <3>1, <3>2
  <2> QED
    BY <1>3, <2>0, <2>1, <2>2, <2>3 DEF Lists
<1>15. \A i \in 1 .. (l - 1) :
         /\ r.node[s[i]].name = m.node[s[i]].name
         /\ r.node[s[i]].value = m.node[s[i]].value
         /\ r.node[s[i]].hash_next = m.node[s[i]].hash_next
         /\ r.node[s[i]].next = IF s[i] = prev THEN next ELSE m.node[s[i]].next
         /\ r.node[s[i]].prev = IF s[i] = next THEN prev ELSE m.node[s[i]].prev
  BY <1>7, <1>10, <1>13
<1>neighbours.
       /\ prev = IF t = 1 THEN NULL ELSE q[t - 1]
       /\ next = IF t = l THEN NULL ELSE q[t + 1]
       /\ NULL \notin DOMAIN m.node
  BY <1>2, <1>length
<1>ends. (l # 0 => m.head = q[1]) /\ (l # 0 => m.tail = q[l])
  BY <1>1, <1>length
<1>result.
       /\ r.size = l - 1
       /\ r.head = IF prev = NULL THEN next ELSE m.head
       /\ r.tail = IF next = NULL THEN prev ELSE m.tail
  BY <1>9, <1>length
<1>16. ASSUME NEW i \in 1 .. (l - 1)
       PROVE  r.node[s[i]].prev = IF i = 1 THEN NULL ELSE s[i - 1]
  <2>1. r.node[s[i]].prev = IF s[i] = next THEN prev ELSE m.node[s[i]].prev
    BY <1>15
  <2>2. i # 1 => i - 1 \in 1 .. (l - 1)
    BY <1>length
  <2>3. CASE i < t
    <3>1. s[i] = q[i] /\ i \in 1..l /\ (i # 1 => s[i - 1] = q[i - 1])
      <4>1. i \in 1..l /\ (i # 1 => i - 1 < t)
        BY <1>length, <2>3
      <4> QED
        BY <1>3, <2>2, <2>3, <4>1
    <3>2. s[i] # next
      <4>1. t # l => t + 1 \in 1..l /\ t + 1 # i
        BY <1>length, <2>3
      <4> QED
        BY <1>links, <1>neighbours, <3>1, <4>1
    <3> QED
      BY <1>links, <2>1, <3>1, <3>2
  <2>4. CASE i = t
    <3>1. s[i] = q[t + 1] /\ t # l /\ (i # 1 => s[i - 1] = q[t - 1])
      BY <1>length, <1>3, <2>2, <2>4
    <3> QED
      BY <1>neighbours, <2>1, <2>4, <3>1
  <2>5. CASE i > t
    <3>1. /\ s[i] = q[i + 1] /\ i + 1 \in 1..l /\ i + 1 # 1 /\ i # 1
          /\ s[i - 1] = q[i] /\ i + 1 - 1 = i
      BY <1>length, <1>3, <2>2, <2>5
    <3>2. s[i] # next
      <4>1. t # l => t + 1 \in 1..l /\ t + 1 # i + 1
        BY <1>length, <2>5
      <4> QED
        BY <1>links, <1>neighbours, <3>1, <4>1
    <3>3. m.node[q[i + 1]].prev = q[i]
      BY <1>links, <3>1
    <3> QED
      BY <2>1, <3>1, <3>2, <3>3
  <2>6. i < t \/ i = t \/ i > t
    BY <1>length
  <2> QED
    BY <2>3, <2>4, <2>5, <2>6
<1>17. ASSUME NEW i \in 1 .. (l - 1)
       PROVE  r.node[s[i]].next = IF i = l - 1 THEN NULL ELSE s[i + 1]
  <2>1. r.node[s[i]].next = IF s[i] = prev THEN next ELSE m.node[s[i]].next
    BY <1>15
  <2>2. i # l - 1 => i + 1 \in 1 .. (l - 1)
    BY <1>length
  <2>3. CASE i >= t
    <3>1. /\ s[i] = q[i + 1] /\ i + 1 \in 1..l
          /\ i # l - 1 => s[i + 1] = q[i + 1 + 1]
      BY <1>length, <1>3, <2>2, <2>3
    <3>2. s[i] # prev
      <4>1. t # 1 => t - 1 \in 1..l /\ t - 1 # i + 1
        BY <1>length, <2>3
      <4> QED
        BY <1>links, <1>neighbours, <3>1, <4>1
    <3>3. i + 1 = l <=> i = l - 1
      BY <1>length
    <3>4. m.node[q[i + 1]].next = IF i + 1 = l THEN NULL ELSE q[i + 1 + 1]
      BY <1>links, <3>1
    <3> QED
      BY <2>1, <3>1, <3>2, <3>3, <3>4
  <2>4. CASE i = t - 1
    <3>1. /\ s[i] = q[t - 1] /\ t # 1
          /\ i # l - 1 => s[i + 1] = q[t + 1]
          /\ t = l <=> i = l - 1
      BY <1>length, <1>3, <2>2, <2>4
    <3> QED
      BY <1>neighbours, <2>1, <3>1
  <2>5. CASE i < t - 1
    <3>1. /\ s[i] = q[i] /\ i \in 1..l /\ i # l /\ i # l - 1
          /\ s[i + 1] = q[i + 1]
      BY <1>length, <1>3, <2>2, <2>5
    <3>2. s[i] # prev
      <4>1. t # 1 => t - 1 \in 1..l /\ t - 1 # i
        BY <1>length, <2>5
      <4> QED
        BY <1>links, <1>neighbours, <3>1, <4>1
    <3>3. m.node[q[i]].next = q[i + 1]
      BY <1>links, <3>1
    <3> QED
      BY <2>1, <3>1, <3>2, <3>3
  <2>6. i >= t \/ i = t - 1 \/ i < t - 1
    BY <1>length
  <2> QED
    BY <2>3, <2>4, <2>5, <2>6
<1>18. r.head = IF r.size = 0 THEN NULL ELSE s[1]
  <2>1. CASE t = 1
    <3>1. r.size # 0 => 1 \in 1 .. (l - 1) /\ s[1] = q[1 + 1] /\ t # l
      BY <1>length, <1>3, <1>result, <2>1
    <3>2. r.size = 0 => t = l
      BY <1>length, <1>result, <2>1
    <3> QED
      BY <1>neighbours, <1>result, <2>1, <3>1, <3>2
  <2>2. CASE t # 1
    <3>1. 1 \in 1 .. (l - 1) /\ 1 < t /\ r.size # 0 /\ t - 1 \in 1..l
      BY <1>length, <1>result, <2>2
    <3>2. s[1] = q[1] /\ prev # NULL /\ m.head = q[1]
      BY <1>links, <1>neighbours, <1>3, <1>ends, <2>2, <3>1
    <3> QED
      BY <1>result, <3>1, <3>2
  <2> QED
    BY <2>1, <2>2
<1>19. r.tail = IF r.size = 0 THEN NULL ELSE s[r.size]
  <2>1. CASE t = l
    <3>1. r.size # 0 => r.size \in 1 .. (l - 1) /\ s[r.size] = q[t - 1] /\ t # 1
      BY <1>length, <1>3, <1>result, <2>1
    <3>2. r.size = 0 => t = 1
      BY <1>length, <1>result, <2>1
    <3> QED
      BY <1>neighbours, <1>result, <2>1, <3>1, <3>2
  <2>2. CASE t # l
    <3>1. /\ r.size \in 1 .. (l - 1) /\ ~(r.size < t) /\ r.size # 0
          /\ r.size + 1 = l /\ t + 1 \in 1..l
      BY <1>length, <1>result, <2>2
    <3>2. s[r.size] = q[l] /\ next # NULL /\ m.tail = q[l]
      BY <1>links, <1>neighbours, <1>3, <1>ends, <2>2, <3>1
    <3> QED
      BY <1>result, <3>1, <3>2
  <2> QED
    BY <2>1, <2>2
<1>20. Linked(r, s)
  BY <1>result, <1>11, <1>14, <1>16, <1>17, <1>18, <1>19 DEF Linked
<1> QED
  BY <1>9, <1>length, <1>3, <1>15, <1>20 DEF r, s, n

(* remove, of a map whose rehash may have failed and of one whose chains   *)
(* are sound.                                                              *)
LEMMA RemovedIsLinked ==
  ASSUME NEW m, NEW q, Linked(m, q), NoneDangles(m), NEW name \in LowerName,
         Matches(m, name) # {}
  PROVE  \E s : Linked(Removed(m, name), s)
<1> DEFINE k == Min(Matches(m, name))
           n == Chain(m, name)[k]
           u == Unchained(m, name, n, k)
<1>1. /\ n \in DOMAIN m.node /\ Linked(u, q) /\ u.size = m.size
  BY UnchainedIsLinked
<1>2. PICK t \in 1..m.size : q[t] = n
  BY <1>1 DEF Linked, Lists
<1>3. Removed(m, name) = Deleted(u, n)
  BY Zenon DEF Removed, Deleted
<1> HIDE DEF u, n
<1>4. Linked(Deleted(u, q[t]), RemoveAt(q, t))
  <2>1. t \in 1..u.size
    BY <1>1
  <2> QED
    BY <1>1, <2>1, DeletedIsLinked
<1>5. Linked(Removed(m, name), RemoveAt(q, t))
  BY <1>2, <1>3, <1>4
<1> QED
  BY <1>5

(* remove does to the headers what HeaderRemove does.                      *)
LEMMA RemovedIsSound ==
  ASSUME NEW m, NEW q, Sound(m, q), NEW name \in Name,
         Matches(m, ToLower(name)) # {}
  PROVE  LET r == Removed(m, ToLower(name))
         IN  \E s : /\ Sound(r, s)
                    /\ HeadersAlong(r, s) = HeaderRemove(HeadersAlong(m, q), name)
<1> DEFINE lower == ToLower(name)
           k == Min(Matches(m, lower))
           h == HeadersAlong(m, q)
<1>1. lower \in LowerName
  BY NamesFold
<1>2. Linked(m, q) /\ Chained(m, q) /\ NamesDiffer(m, q) /\ NoneDangles(m)
  BY ChainedDangleNot DEF Sound
<1> HIDE DEF lower
<1>3. PICK t \in 1..m.size : m.node[q[t]].name = lower
  <2>1. \E t \in 1..m.size : m.node[q[t]].name = lower
    BY <1>1, LookupMisses DEF lower
  <2> QED
    BY <2>1
<1>4. Chain(m, lower)[k] = q[t] /\ Matches(m, lower) # {}
  BY <1>3, LookupFinds
<1> DEFINE n == q[t]
           u == Unchained(m, lower, n, k)
           after == m.node[n].hash_next
           r == Removed(m, lower)
           s == RemoveAt(q, t)
           l == m.size
           old(i) == IF i < t THEN i ELSE i + 1
<1>5. r = Deleted(u, n)
  <2>1. LET x == Chain(m, lower)[k]
        IN  Removed(m, lower) = Deleted(Unchained(m, lower, x, k), x)
    BY Zenon DEF Removed, Deleted
  <2> QED
    BY <1>4, <2>1
<1>6. /\ Linked(u, q) /\ DOMAIN u.node = DOMAIN m.node
      /\ u.size = l /\ u.bucket_count = m.bucket_count
      /\ \A x \in DOMAIN m.node : /\ u.node[x].name = m.node[x].name
                                  /\ u.node[x].value = m.node[x].value
  <2> DEFINE x == Chain(m, lower)[k]
             v == Unchained(m, lower, x, k)
  <2>1. /\ Linked(v, q) /\ DOMAIN v.node = DOMAIN m.node
        /\ v.size = m.size /\ v.bucket_count = m.bucket_count
        /\ \A i \in DOMAIN m.node : /\ v.node[i].name = m.node[i].name
                                    /\ v.node[i].value = m.node[i].value
    BY <1>1, <1>2, <1>4, UnchainedIsLinked
  <2>2. v = u
    BY <1>4
  <2> HIDE DEF v, u
  <2> QED
    BY <2>1, <2>2
<1>7. /\ \A x \in DOMAIN m.node : u.node[x].hash_next =
           IF m.node[x].hash_next = n THEN after ELSE m.node[x].hash_next
      /\ \A b \in 0 .. (m.bucket_count - 1) : u.buckets[b] =
           IF m.buckets[b] = n THEN after ELSE m.buckets[b]
  BY <1>3, UnchainedSkips
<1> HIDE DEF k, h, u, after
<1>8. /\ Linked(r, s)
      /\ r.size = l - 1 /\ r.buckets = u.buckets /\ r.bucket_count = m.bucket_count
      /\ \A i \in 1 .. (l - 1) :
           /\ s[i] = IF i < t THEN q[i] ELSE q[i + 1]
           /\ r.node[s[i]].name = u.node[s[i]].name
           /\ r.node[s[i]].value = u.node[s[i]].value
           /\ r.node[s[i]].hash_next = u.node[s[i]].hash_next
  <2>1. t \in 1..u.size
    BY <1>6
  <2> HIDE DEF r, s
  <2> DEFINE v == Deleted(u, q[t])
             w == RemoveAt(q, t)
  <2>2. /\ Linked(v, w)
        /\ v.size = u.size - 1 /\ v.buckets = u.buckets
        /\ v.bucket_count = u.bucket_count
        /\ \A i \in 1 .. (u.size - 1) :
             /\ w[i] = IF i < t THEN q[i] ELSE q[i + 1]
             /\ v.node[w[i]].name = u.node[w[i]].name
             /\ v.node[w[i]].value = u.node[w[i]].value
             /\ v.node[w[i]].hash_next = u.node[w[i]].hash_next
    BY <1>6, <2>1, DeletedIsLinked
  <2>3. v = r /\ w = s
    BY <1>5 DEF s
  <2> HIDE DEF v, w
  <2> QED
    BY <1>6, <2>2, <2>3
<1> HIDE DEF n, r, s, l
<1>9. /\ l \in Nat /\ t \in 1..l /\ l = m.size
      /\ \A i \in 1..l : q[i] \in DOMAIN m.node
      /\ m.bucket_count \in Nat \ {0}
  BY <1>2, <1>3 DEF Linked, IsMap, Lists, l
<1>10. \A i \in 1 .. (l - 1) : /\ old(i) \in 1..l /\ old(i) # t
                               /\ (i < t => old(i) = i) /\ (~(i < t) => old(i) = i + 1)
                               /\ s[i] = q[old(i)]
  BY <1>8, <1>9
<1>11. \A i \in 1 .. (l - 1) :
         /\ s[i] = q[old(i)] /\ s[i] \in DOMAIN m.node
         /\ r.node[s[i]].name = m.node[q[old(i)]].name
         /\ r.node[s[i]].value = m.node[q[old(i)]].value
         /\ r.node[s[i]].hash_next =
              IF m.node[q[old(i)]].hash_next = n THEN after
              ELSE m.node[q[old(i)]].hash_next
  <2> HIDE DEF old
  <2> QED
    BY <1>6, <1>7, <1>8, <1>9, <1>10
<1>12. \A i \in 1 .. (l - 1) : BucketAt(r, s, i) = BucketAt(m, q, old(i))
  BY <1>8, <1>11 DEF BucketAt
<1>13. IsLast(m, q, BucketAt(m, q, t), t - 1, after)
  BY <1>2, <1>3 DEF Chained, after, n
<1>14. ASSUME NEW b, NEW j \in t..l, NEW p, IsLast(m, q, b, j, p)
       PROVE  IsLast(r, s, b, j - 1, IF p = n THEN after ELSE p)
  <2>1. \A i \in 1 .. (m.size - 1) :
           /\ s[i] = IF i < t THEN q[i] ELSE q[i + 1]
           /\ BucketAt(r, s, i) = BucketAt(m, q, IF i < t THEN i ELSE i + 1)
    BY <1>9, <1>10, <1>11, <1>12
  <2>2. b = BucketAt(m, q, t) => IsLast(m, q, b, t - 1, after)
    BY <1>13
  <2>3. j \in t..m.size
    BY <1>9
  <2> HIDE DEF old
  <2> QED
    BY <1>2, <1>3, <1>14, <2>1, <2>2, <2>3, LastWithout DEF n
<1>15. ASSUME NEW i \in 1..r.size
       PROVE  IsLast(r, s, BucketAt(r, s, i), i - 1, r.node[s[i]].hash_next)
  <2>1. i \in 1 .. (l - 1)
    BY <1>8
  <2>2. CASE i < t
    <3>1. i \in 1..m.size /\ i - 1 \in Nat /\ old(i) = i
      BY <1>9, <2>1, <2>2
    <3>2. IsLast(m, q, BucketAt(m, q, i), i - 1, m.node[q[i]].hash_next)
      BY <1>2, <3>1 DEF Chained
    <3>3. m.node[q[i]].hash_next # n
      <4>1. ~(t < i)
        BY <1>9, <2>1, <2>2
      <4> QED
        BY <1>2, <1>3, <3>1, <4>1, OneLeadsTo DEF n
    <3>4. \A j \in 1..(i - 1) : s[j] = q[j] /\ BucketAt(r, s, j) = BucketAt(m, q, j)
      <4> TAKE j \in 1..(i - 1)
      <4>1. j \in 1 .. (l - 1) /\ old(j) = j
        BY <1>9, <2>1, <2>2
      <4> QED
        BY <1>11, <1>12, <4>1
    <3>5. IsLast(r, s, BucketAt(m, q, i), i - 1, m.node[q[i]].hash_next)
      BY <3>1, <3>2, <3>4, SameLast
    <3>6. r.node[s[i]].hash_next = m.node[q[i]].hash_next
      BY <1>11, <2>1, <3>1, <3>3
    <3>7. BucketAt(r, s, i) = BucketAt(m, q, i)
      BY <1>12, <2>1, <3>1
    <3> QED
      BY <3>5, <3>6, <3>7
  <2>3. CASE ~(i < t)
    <3>1. i + 1 \in 1..m.size /\ i + 1 - 1 = i /\ old(i) = i + 1 /\ i \in t..l
      BY <1>9, <2>1, <2>3
    <3>2. IsLast(m, q, BucketAt(m, q, i + 1), i, m.node[q[i + 1]].hash_next)
      BY <1>2, <3>1 DEF Chained
    <3>3. IsLast(r, s, BucketAt(m, q, i + 1), i - 1,
                 IF m.node[q[i + 1]].hash_next = n THEN after
                 ELSE m.node[q[i + 1]].hash_next)
      BY <1>14, <3>1, <3>2
    <3>4. r.node[s[i]].hash_next = IF m.node[q[i + 1]].hash_next = n THEN after
                                   ELSE m.node[q[i + 1]].hash_next
      BY <1>11, <2>1, <3>1
    <3>5. BucketAt(r, s, i) = BucketAt(m, q, i + 1)
      BY <1>12, <2>1, <3>1
    <3> QED
      BY <3>3, <3>4, <3>5
  <2> QED
    BY <2>2, <2>3
<1>16. ASSUME NEW b \in 0 .. (r.bucket_count - 1)
       PROVE  IsLast(r, s, b, r.size, r.buckets[b])
  <2>1. b \in 0 .. (m.bucket_count - 1) /\ l \in t..l /\ r.size = l - 1
    BY <1>8, <1>9
  <2>2. IsLast(m, q, b, l, m.buckets[b])
    BY <1>2, <1>9, <2>1 DEF Chained
  <2>3. r.buckets[b] = IF m.buckets[b] = n THEN after ELSE m.buckets[b]
    BY <1>7, <1>8, <2>1
  <2> QED
    BY <1>14, <2>1, <2>2, <2>3
<1>17. Chained(r, s)
  BY <1>15, <1>16 DEF Chained
<1>18. NamesDiffer(r, s)
  <2> SUFFICES ASSUME NEW i \in 1..r.size, NEW j \in 1..r.size,
                      r.node[s[i]].name = r.node[s[j]].name
               PROVE  i = j
    BY DEF NamesDiffer
  <2>1. i \in 1 .. (l - 1) /\ j \in 1 .. (l - 1)
    BY <1>8
  <2>2. old(i) = old(j)
    <3> HIDE DEF old
    <3>1. old(i) \in 1..m.size /\ old(j) \in 1..m.size
      BY <1>9, <1>10, <2>1
    <3>2. m.node[q[old(i)]].name = m.node[q[old(j)]].name
      BY <1>11, <2>1
    <3> QED
      BY <1>2, <3>1, <3>2 DEF NamesDiffer
  <2> QED
    BY <1>9, <2>1, <2>2
<1>19. HeadersAlong(r, s) = HeaderRemove(h, name)
  <2>1. /\ DOMAIN h = 1..l /\ h = [i \in 1..l |-> h[i]]
        /\ \A i \in 1..l :
             h[i] = [name |-> m.node[q[i]].name, value |-> m.node[q[i]].value]
    BY <1>9 DEF HeadersAlong, h
  <2>2. \A i : i \in Places(h, name) <=> i = t
    <3>1. \A i : i \in Places(h, name)
                   <=> i \in 1..m.size /\ m.node[q[i]].name = ToLower(name)
      BY PlacesAlong DEF h
    <3>2. \A i \in 1..m.size : m.node[q[i]].name = lower <=> i = t
      BY <1>2, <1>3 DEF NamesDiffer
    <3> QED
      BY <1>3, <3>1, <3>2 DEF lower
  <2>3. HeaderRemove(h, name) = RemoveAt(h, t)
    <3>1. Places(h, name) # {} /\ (CHOOSE i \in Places(h, name) : TRUE) = t
      BY <2>2
    <3> QED
      BY <3>1 DEF HeaderRemove
  <2> DEFINE S == {h[i] : i \in 1..l}
  <2>4. h \in Seq(S) /\ Len(h) = l
    <3>1. \A i \in 1..l : h[i] \in S
      OBVIOUS
    <3>2. h \in [1..l -> S]
      BY <2>1, <3>1
    <3> HIDE DEF S
    <3> QED
      BY <1>9, <2>1, <3>2
  <2> HIDE DEF S
  <2>5. /\ RemoveAt(h, t) \in Seq(S) /\ Len(RemoveAt(h, t)) = l - 1
        /\ \A i \in 1 .. (l - 1) : RemoveAt(h, t)[i] = IF i < t THEN h[i] ELSE h[i + 1]
    <3>1. t \in 1..Len(h)
      BY <1>9, <2>4
    <3> QED
      BY <2>4, <3>1, RemoveAtIs
  <2>6. HeadersAlong(r, s) = [i \in 1 .. (l - 1) |->
          [name |-> r.node[s[i]].name, value |-> r.node[s[i]].value]]
    BY <1>8 DEF HeadersAlong
  <2>7. \A i \in 1 .. (l - 1) : HeadersAlong(r, s)[i] = RemoveAt(h, t)[i]
    <3> TAKE i \in 1 .. (l - 1)
    <3>1. RemoveAt(h, t)[i] = h[old(i)]
      BY <2>5
    <3>2. HeadersAlong(r, s)[i] =
            [name |-> r.node[s[i]].name, value |-> r.node[s[i]].value]
      BY <2>6, Zenon
    <3> HIDE DEF old
    <3>3. h[old(i)] =
            [name |-> m.node[q[old(i)]].name, value |-> m.node[q[old(i)]].value]
      BY <1>10, <2>1
    <3> QED
      BY <1>11, <3>1, <3>2, <3>3
  <2>8. RemoveAt(h, t) = [i \in 1 .. (l - 1) |-> RemoveAt(h, t)[i]]
    BY <1>9, <2>5
  <2> QED
    BY <2>3, <2>6, <2>7, <2>8
<1>20. Sound(r, s)
  BY <1>8, <1>17, <1>18 DEF Sound
<1> QED
  BY <1>19, <1>20 DEF r, h, lower

-----------------------------------------------------------------------------
(* The invariant.                                                          *)

(* What an operation leaves is described by the order the links give it.   *)
LEMMA OrderOfLinked ==
  ASSUME NEW m, NEW q, Linked(m, q)
  PROVE  /\ Linked(m, Order(m))
         /\ Sound(m, q) => Sound(m, Order(m))
         /\ HeadersAlong(m, Order(m)) = HeadersAlong(m, q)
         /\ Listed(m) = HeadersAlong(m, q)
<1>1. Order(m) = q
  BY OrderIs
<1>2. Listed(m) = HeadersAlong(m, Order(m))
  BY Zenon DEF Listed, HeadersAlong
<1> QED
  BY <1>1, <1>2

(* The maps that are copied, or a part of one, may be copied.              *)
LEMMA OthersAreCopyable ==
  ASSUME NEW headers \in Others
  PROVE  /\ Copyable(headers)
         /\ \A k \in 0 .. (Len(headers) - 1) : Copyable(SubSeq(headers, 1, k))
<1>1. /\ headers \in Seq(Header) /\ Len(headers) <= MaxNodes /\ MaxNodes \in Nat
      /\ \A i, j \in DOMAIN headers : headers[i].name = headers[j].name => i = j
  BY HeaderMapAssumption DEF Header, LowerName
<1>2. Copyable(headers)
  BY <1>1 DEF Copyable
<1>3. ASSUME NEW k \in 0 .. (Len(headers) - 1)
      PROVE  Copyable(SubSeq(headers, 1, k))
  <2> DEFINE h == SubSeq(headers, 1, k)
  <2>1. Len(headers) \in Nat /\ DOMAIN headers = 1..Len(headers)
    BY <1>1
  <2>2. \A i \in 1..k : i \in DOMAIN headers /\ headers[i] \in Header
    BY <1>1, <2>1
  <2>3. h \in Seq(Header) /\ Len(h) = k /\ \A i \in 1..k : h[i] = headers[i]
    <3>1. /\ h \in Seq(Header)
          /\ Len(h) = IF 1 <= k THEN k - 1 + 1 ELSE 0
          /\ \A i \in 1..(k - 1 + 1) : h[i] = headers[1 + i - 1]
      BY <2>2, SubSeqProperties
    <3> QED
      BY <2>1, <3>1
  <2> HIDE DEF h
  <2>4. DOMAIN h = 1..k /\ Len(h) <= MaxNodes
    BY <1>1, <2>1, <2>3
  <2>5. \A i, j \in DOMAIN h : h[i].name = h[j].name => i = j
    BY <1>1, <2>2, <2>3, <2>4
  <2>6. Copyable(h)
    BY <2>3, <2>4, <2>5 DEF Copyable
  <2> QED
    BY <2>6 DEF h
<1> QED
  BY <1>2, <1>3

(* The invariant holds of the copies a caller may begin with.              *)
LEMMA InitIsSound ==
  Init => MapInv
<1> SUFFICES ASSUME Init PROVE MapInv
  OBVIOUS
<1>1. PICK headers \in Others : map = CopiedFrom(EmptyMap, headers) /\ promised = headers
  BY DEF Init
<1>2. PICK q : Sound(map, q) /\ HeadersAlong(map, q) = headers
  BY <1>1, EmptyMapIsSound, OthersAreCopyable, CopyIsSound
<1>3. Linked(map, q)
  BY <1>2 DEF Sound
<1>4. damaged \in BOOLEAN /\ faults \in 0..MaxFaults
  <2>1. damaged = FALSE /\ faults = 0
    BY Zenon DEF Init
  <2>2. 0 \in 0..MaxFaults
    BY HeaderMapAssumption
  <2> QED
    BY <2>1, <2>2, Zenon
<1> QED
  BY <1>1, <1>2, <1>3, <1>4, OrderOfLinked DEF MapInv

(* The invariant after a step, from what the step leaves.                  *)
LEMMA StepIsSound ==
  ASSUME NEW q, Linked(map', q), damaged' \in BOOLEAN, faults' \in 0..MaxFaults,
         ~damaged' => Sound(map', q) /\ promised' = HeadersAlong(map', q)
  PROVE  MapInv'
<1>1. /\ Linked(map', Order(map'))
      /\ Sound(map', q) => Sound(map', Order(map'))
      /\ HeadersAlong(map', Order(map')) = HeadersAlong(map', q)
  BY OrderOfLinked
<1> QED
  BY <1>1 DEF MapInv

(* A set keeps the invariant.                                              *)
LEMMA SetHeaderKeeps ==
  ASSUME MapInv, NothingDangles, NEW name \in Name, NEW value \in Value,
         SetHeader(name, value)
  PROVE  MapInv'
<1> DEFINE q == Order(map)
<1>1. /\ Linked(map, q) /\ NoneDangles(map) /\ map.size < MaxNodes
      /\ map' = Set(map, name, value)
      /\ promised' = HeaderSet(promised, name, value)
      /\ damaged' = damaged /\ faults' = faults
  <2>1. Linked(map, q) /\ map.size \in Nat
    BY DEF MapInv, Linked, IsMap
  <2>2. Cardinality(DOMAIN map.node) = map.size
    BY <2>1, NodesAreCounted DEF Linked
  <2> QED
    BY <2>1, <2>2 DEF SetHeader, NothingDangles, NoneDangles
<1> HIDE DEF q
<1>2. CASE damaged
  <2>1. PICK s : Linked(map', s)
    BY <1>1, SetIsLinked
  <2> QED
    BY <1>1, <1>2, <2>1, StepIsSound DEF MapInv
<1>3. CASE ~damaged
  <2>1. Sound(map, q) /\ promised = HeadersAlong(map, q)
    BY <1>3 DEF MapInv, q
  <2>2. PICK s : /\ Sound(map', s)
                 /\ HeadersAlong(map', s) = HeaderSet(promised, name, value)
    BY <1>1, <2>1, SetIsSound
  <2>3. Linked(map', s)
    BY <2>2 DEF Sound
  <2> QED
    BY <1>1, <2>2, <2>3, StepIsSound DEF MapInv
<1> QED
  BY <1>2, <1>3 DEF MapInv

(* So does one that fails, which may damage the chains but not the list.   *)
LEMMA SetHeaderFailsKeeps ==
  ASSUME MapInv, SetHeaderFails
  PROVE  MapInv'
<1> DEFINE q == Order(map)
<1>1. /\ Linked(map, q) /\ map' \in SetFailures(map) /\ promised' = promised
      /\ damaged' = (damaged \/ map' \notin {map, Roomy(map)})
      /\ faults' \in 0..MaxFaults
  BY HeaderMapAssumption DEF MapInv, SetHeaderFails
<1>2. /\ Linked(map', q)
      /\ map' \in {map, Roomy(map)} /\ Sound(map, q) =>
           Sound(map', q) /\ HeadersAlong(map', q) = HeadersAlong(map, q)
  BY <1>1, FailureKeepsList
<1>3. ~damaged' => /\ map' \in {map, Roomy(map)} /\ Sound(map, q)
                   /\ promised = HeadersAlong(map, q)
  BY <1>1 DEF MapInv
<1>4. damaged' \in BOOLEAN
  BY <1>1 DEF MapInv
<1> HIDE DEF q
<1> QED
  BY <1>1, <1>2, <1>3, <1>4, StepIsSound

(* So does a removal.                                                      *)
LEMMA RemoveHeaderKeeps ==
  ASSUME MapInv, NothingDangles, NEW name \in Name, RemoveHeader(name)
  PROVE  MapInv'
<1> DEFINE q == Order(map)
<1>1. /\ Linked(map, q) /\ NoneDangles(map)
      /\ Matches(map, ToLower(name)) # {} /\ ToLower(name) \in LowerName
      /\ map' = Removed(map, ToLower(name))
      /\ promised' = HeaderRemove(promised, name)
      /\ damaged' = damaged /\ faults' = faults
  BY NamesFold DEF MapInv, RemoveHeader, NothingDangles, NoneDangles
<1>2. CASE damaged
  <2>1. PICK s : Linked(map', s)
    BY <1>1, RemovedIsLinked
  <2> QED
    BY <1>1, <1>2, <2>1, StepIsSound DEF MapInv
<1>3. CASE ~damaged
  <2>1. Sound(map, q) /\ promised = HeadersAlong(map, q)
    BY <1>3 DEF MapInv
  <2> HIDE DEF q
  <2>2. PICK s : /\ Sound(map', s)
                 /\ HeadersAlong(map', s) = HeaderRemove(promised, name)
    BY <1>1, <2>1, RemovedIsSound
  <2>3. Linked(map', s)
    BY <2>2 DEF Sound
  <2> QED
    BY <1>1, <2>2, <2>3, StepIsSound DEF MapInv
<1> QED
  BY <1>2, <1>3 DEF MapInv

(* So does clear.                                                          *)
LEMMA ClearKeeps ==
  ASSUME MapInv, Clear
  PROVE  MapInv'
<1>1. Sound(map', <<>>) /\ HeadersAlong(map', <<>>) = <<>>
  BY ClearedIsSound DEF MapInv, Clear
<1>2. Linked(map', <<>>)
  BY <1>1 DEF Sound
<1> QED
  BY <1>1, <1>2, StepIsSound DEF MapInv, Clear

(* So does an assignment.                                                  *)
LEMMA AssignKeeps ==
  ASSUME MapInv, NEW headers \in Others, Assign(headers)
  PROVE  MapInv'
<1>1. /\ Sound(Cleared(map), <<>>) /\ HeadersAlong(Cleared(map), <<>>) = <<>>
      /\ Cleared(map).size = 0
  BY ClearedIsSound DEF MapInv
<1>2. PICK s : Sound(map', s) /\ HeadersAlong(map', s) = headers
  BY <1>1, OthersAreCopyable, CopyIsSound DEF Assign
<1>3. Linked(map', s)
  BY <1>2 DEF Sound
<1> QED
  BY <1>2, <1>3, StepIsSound DEF MapInv, Assign

(* So does an assignment that fails after some of the headers.             *)
LEMMA AssignFailsKeeps ==
  ASSUME MapInv, NEW headers \in Others, NEW k \in 0 .. (Len(headers) - 1),
         AssignFails(headers, k)
  PROVE  MapInv'
<1> DEFINE part == SubSeq(headers, 1, k)
           copied == CopiedFrom(Cleared(map), part)
<1>1. /\ Sound(Cleared(map), <<>>) /\ HeadersAlong(Cleared(map), <<>>) = <<>>
      /\ Cleared(map).size = 0
  BY ClearedIsSound DEF MapInv
<1>2. Copyable(part)
  BY OthersAreCopyable
<1>3. /\ map' \in SetFailures(copied) /\ promised' = part
      /\ damaged' = (map' \notin {copied, Roomy(copied)})
      /\ faults' \in 0..MaxFaults
  BY HeaderMapAssumption DEF AssignFails, MapInv
<1> HIDE DEF part
<1>4. PICK s : Sound(copied, s) /\ HeadersAlong(copied, s) = part
  BY <1>1, <1>2, CopyIsSound
<1> HIDE DEF copied
<1>5. Linked(copied, s)
  BY <1>4 DEF Sound
<1>6. /\ Linked(map', s)
      /\ map' \in {copied, Roomy(copied)} =>
           Sound(map', s) /\ HeadersAlong(map', s) = part
  BY <1>3, <1>4, <1>5, FailureKeepsList
<1> QED
  BY <1>3, <1>6, StepIsSound

(* MapInv is an inductive invariant.                                       *)
THEOREM MapInvariant == Spec => []MapInv
<1>1. Init => MapInv
  BY InitIsSound
<1>2. MapInv /\ [Next]_vars => MapInv'
  <2> SUFFICES ASSUME MapInv, [Next]_vars PROVE MapInv'
    OBVIOUS
  <2>1. CASE UNCHANGED vars
    BY <2>1 DEF MapInv, vars
  <2>2. CASE NothingDangles /\ Operation
    <3>1. ASSUME NEW name \in Name, NEW value \in Value, SetHeader(name, value)
          PROVE  MapInv'
      BY <2>2, <3>1, SetHeaderKeeps
    <3>2. CASE SetHeaderFails
      BY <3>2, SetHeaderFailsKeeps
    <3>3. ASSUME NEW name \in Name, RemoveHeader(name)
          PROVE  MapInv'
      BY <2>2, <3>3, RemoveHeaderKeeps
    <3>4. CASE Clear
      BY <3>4, ClearKeeps
    <3>5. ASSUME NEW headers \in Others, Assign(headers)
          PROVE  MapInv'
      BY <3>5, AssignKeeps
    <3>6. ASSUME NEW headers \in Others, NEW k \in 0 .. (Len(headers) - 1),
                 AssignFails(headers, k)
          PROVE  MapInv'
      BY <3>6, AssignFailsKeeps
    <3> QED
      BY <2>2, <3>1, <3>2, <3>3, <3>4, <3>5, <3>6 DEF Operation
  <2> QED
    BY <2>1, <2>2 DEF Next
<1> QED
  BY <1>1, <1>2, PTL DEF Spec

-----------------------------------------------------------------------------
(* What the invariant says to a caller.                                    *)

(* The fields of the map stay in their types (the constructors and all     *)
(* operations of HeaderMap.cpp).                                           *)
THEOREM TypeCorrect == Spec => []TypeOK
<1>1. MapInv => TypeOK
  BY LinkedIsIntact DEF MapInv
<1> QED
  BY <1>1, MapInvariant, PTL

(* The list can be walked both ways and holds every node exactly once,     *)
(* also when allocations fail, a rehash of them included (link_, unlink    *)
(* and clear in HeaderMap.cpp).                                            *)
THEOREM ListStaysIntact == Spec => []ListIntact
<1>1. MapInv => ListIntact
  BY LinkedIsIntact DEF MapInv
<1> QED
  BY <1>1, MapInvariant, PTL

(* "each header is stored once and keeps its original position in          *)
(* insertion order" (HeaderMap.hpp), unless a rehash has failed half way.  *)
THEOREM ListStaysInOrder == Spec => []ListKeepsOrder
<1>1. MapInv => ListKeepsOrder
  BY OrderOfLinked DEF MapInv, ListKeepsOrder
<1> QED
  BY <1>1, MapInvariant, PTL

(* get finds what the list holds and nothing else, whatever the hash       *)
(* function, the collisions and the rehashes (findInBucket), unless a      *)
(* rehash has failed half way; and no pointer dangles.                     *)
THEOREM LookupsAgree == Spec => []GetFindsUnlessDamaged
<1>1. MapInv => GetFindsUnlessDamaged
  <2> SUFFICES ASSUME MapInv, ~damaged PROVE NothingDangles /\ GetFindsStored
    BY DEF GetFindsUnlessDamaged
  <2> DEFINE q == Order(map)
             h == Listed(map)
  <2>1. Sound(map, q) /\ Linked(map, q) /\ Chained(map, q) /\ NamesDiffer(map, q)
    BY DEF MapInv, Sound
  <2>2. NothingDangles
    BY <2>1, ChainedDangleNot DEF NothingDangles, NoneDangles
  <2>3. h = HeadersAlong(map, q)
    BY <2>1, OrderOfLinked
  <2>4. NULL \notin DOMAIN map.node /\ \A k \in 1..map.size : q[k] \in DOMAIN map.node
    BY <2>1, HeaderMapAssumption DEF Linked, IsMap, Lists, NULL
  <2> HIDE DEF q, h
  <2>5. ASSUME NEW name \in Name
        PROVE  Get(map, name) = HeaderGet(h, name)
    <3> DEFINE lower == ToLower(name)
               match == FindInBucket(map, lower)
    <3>1. lower \in LowerName
      BY NamesFold
    <3>2. \A k : k \in Places(h, name) <=> k \in 1..map.size /\ map.node[q[k]].name = lower
      BY <2>3, PlacesAlong
    <3>3. Get(map, name) = IF match = NULL THEN None ELSE Some(map.node[match].value)
      BY Zenon DEF Get
    <3> HIDE DEF lower, match
    <3>4. CASE \E t \in 1..map.size : map.node[q[t]].name = lower
      <4>1. PICK t \in 1..map.size : map.node[q[t]].name = lower
        BY <3>4
      <4>2. match = q[t] /\ match # NULL
        BY <2>1, <2>4, <4>1, LookupFinds DEF match
      <4>3. \A k : k \in Places(h, name) <=> k = t
        BY <2>1, <3>2, <4>1 DEF NamesDiffer
      <4>4. Places(h, name) # {} /\ (CHOOSE k \in Places(h, name) : TRUE) = t
        BY <4>3
      <4>5. HeaderGet(h, name) = Some(h[t].value)
        BY <4>4 DEF HeaderGet
      <4>6. h[t].value = map.node[q[t]].value
        BY <2>3 DEF HeadersAlong
      <4> QED
        BY <3>3, <4>2, <4>5, <4>6
    <3>5. CASE \A t \in 1..map.size : map.node[q[t]].name # lower
      <4>1. match = NULL
        BY <2>1, <3>1, <3>5, LookupMisses DEF match
      <4>2. Places(h, name) = {}
        BY <3>2, <3>5
      <4> QED
        BY <3>3, <4>1, <4>2 DEF HeaderGet
    <3> QED
      BY <3>4, <3>5
  <2> QED
    BY <2>2, <2>5 DEF GetFindsStored, h
<1> QED
  BY <1>1, MapInvariant, PTL

=============================================================================
