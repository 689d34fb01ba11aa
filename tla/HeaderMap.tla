----------------------------- MODULE HeaderMap -----------------------------
(***************************************************************************)
(* HeaderMap: the headers are nodes that are linked twice, into a doubly   *)
(* linked list in insertion order and into the chain of a hash bucket.     *)
(*                                                                         *)
(* The map is one record with the fields of the class; node is the heap,   *)
(* from pointers to the nodes that are allocated.  promised is the list of *)
(* headers that HeaderMap.hpp speaks of, kept beside it.                   *)
(***************************************************************************)
EXTENDS HeaderList

CONSTANTS
  Name,                \* the names callers use, in any case
  Value,               \* the values
  Hash(_),             \* hashLowerName
  InitialBucketCount,  \* kInitialBucketCount
  MaxLoadPercent,      \* kMaxLoadPercent
  Others,              \* the headers of the maps that are copied
  MaxNodes,            \* bound: how many nodes may be allocated at a time
  MaxFaults            \* bound: how many allocations may fail

ASSUME HeaderMapAssumption ==
  /\ Name \subseteq String
  /\ \A name \in Name : ToLower(name) \in Name /\ Hash(ToLower(name)) \in Nat
  /\ InitialBucketCount \in Nat \ {0} /\ MaxLoadPercent \in 1..100
  /\ \A headers \in Others :
       /\ headers \in Seq([name : {ToLower(name) : name \in Name}, value : Value])
       /\ \A i, j \in DOMAIN headers :
            headers[i].name = headers[j].name => i = j
       /\ Len(headers) <= MaxNodes
  /\ MaxNodes \in Nat /\ MaxFaults \in Nat

VARIABLES
  map,        \* node, head, tail, size, buckets and bucket_count
  promised,   \* the headers the caller was promised (history)
  damaged,    \* a rehash has failed half way since the last clear (history)
  faults      \* how many allocations have failed

vars == <<map, promised, damaged, faults>>

NULL == 0

-----------------------------------------------------------------------------
(* The two ways through the nodes.                                         *)

(* The nodes in insertion order, from head_ along next.                    *)
Order(m) ==
  LET at[k \in 1..m.size] == IF k = 1 THEN m.head ELSE m.node[at[k - 1]].next
  IN  at

BucketIndex(name, count) == Hash(name) % count

(* The chain of name's bucket: chain[0] is the bucket's head, and NULL     *)
(* goes on for ever.                                                       *)
Chain(m, name) ==
  LET at[k \in 0 .. Cardinality(DOMAIN m.node)] ==
        IF k = 0 THEN m.buckets[BucketIndex(name, m.bucket_count)]
        ELSE IF at[k - 1] = NULL THEN NULL
        ELSE m.node[at[k - 1]].hash_next
  IN  at

(* The places in the chain at which findInBucket would stop.               *)
Matches(m, name) ==
  LET chain == Chain(m, name)
  IN  {k \in DOMAIN chain : chain[k] # NULL /\ m.node[chain[k]].name = name}

FindInBucket(m, name) ==
  IF Matches(m, name) = {} THEN NULL ELSE Chain(m, name)[Min(Matches(m, name))]

(* get(name)                                                               *)
Get(m, name) ==
  LET match == FindInBucket(m, ToLower(name))
  IN  IF match = NULL THEN None ELSE Some(m.node[match].value)

-----------------------------------------------------------------------------
(* rehash.                                                                 *)

(* The positions, among the first k nodes, of those that fall in a bucket. *)
InBucket(m, bucket, count, k) ==
  {i \in 1..k : BucketIndex(m.node[Order(m)[i]].name, count) = bucket}

LastOf(m, positions) ==
  IF positions = {} THEN NULL ELSE Order(m)[Max(positions)]

(* In insertion order each node is put at the front of its bucket's chain: *)
(* it is followed by the nodes of that bucket that were inserted before.   *)
Rechained(m, count) ==
  [n \in DOMAIN m.node |->
     LET k == CHOOSE i \in 1..m.size : Order(m)[i] = n
         bucket == BucketIndex(m.node[n].name, count)
     IN  [m.node[n] EXCEPT !.hash_next =
            LastOf(m, InBucket(m, bucket, count, k - 1))]]

(* The variants keep the chains of the smaller table, or its size.         *)
RehashWithoutChains(m, count) ==
  [m EXCEPT !.buckets = [b \in 0 .. (count - 1) |->
                           LastOf(m, InBucket(m, b, count, m.size))],
            !.bucket_count = count]
RehashKeepsCount(m, count) ==
  [m EXCEPT !.node = Rechained(m, count),
            !.buckets = [b \in 0 .. (count - 1) |->
                           LastOf(m, InBucket(m, b, count, m.size))]]
Rehash(m, count) ==
  [m EXCEPT !.node = Rechained(m, count),
            !.buckets = [b \in 0 .. (count - 1) |->
                           LastOf(m, InBucket(m, b, count, m.size))],
            !.bucket_count = count]

(* The nodes are chained anew, and then buckets_ = newBuckets runs out of  *)
(* memory: Vec has dropped its elements but not its block, so that the old *)
(* heads are still read, and now lead into the new chains.                 *)
HalfRehash(m, count) == [m EXCEPT !.node = Rechained(m, count)]

IsCrowded(m) == (m.size + 1) * 100 > m.bucket_count * MaxLoadPercent

(* maybeRehashForInsert                                                    *)
Roomy(m) == IF IsCrowded(m) THEN Rehash(m, m.bucket_count * 2) ELSE m

-----------------------------------------------------------------------------
(* set, remove and clear, as functions of the map.                         *)

NewNode(name, value, prev, hash_next) ==
  [name |-> name, value |-> value, prev |-> prev, next |-> NULL,
   hash_next |-> hash_next]

(* A new node goes to the end of the list and the front of its chain.      *)
Appended(m, name, value) ==
  LET n == Min(1..MaxNodes \ DOMAIN m.node)
      index == BucketIndex(name, m.bucket_count)
      new == NewNode(name, value, m.tail, m.buckets[index])
  IN  [m EXCEPT
         !.node = [k \in DOMAIN m.node \cup {n} |->
                     IF k = n THEN new
                     ELSE IF k = m.tail THEN [m.node[k] EXCEPT !.next = n]
                     ELSE m.node[k]],
         !.head = IF m.tail = NULL THEN n ELSE @,
         !.tail = n,
         !.buckets[index] = n,
         !.size = @ + 1]

(* The lookup follows the rehash, which happens for a known name too; the  *)
(* variant does not look the name up.                                      *)
SetWithoutLookup(m, name, value) == Appended(Roomy(m), ToLower(name), value)
Set(m, name, value) ==
  LET room == Roomy(m)
      existing == FindInBucket(room, ToLower(name))
  IN  IF existing # NULL THEN [room EXCEPT !.node[existing].value = value]
      ELSE Appended(room, ToLower(name), value)

Without(f, n) == [k \in DOMAIN f \ {n} |-> f[k]]

(* Taking node n, at place k of its chain, out of the chain...             *)
Unchained(m, name, n, k) ==
  IF k > 0
  THEN [m EXCEPT !.node[Chain(m, name)[k - 1]].hash_next = m.node[n].hash_next]
  ELSE [m EXCEPT !.buckets[BucketIndex(name, m.bucket_count)] =
                   m.node[n].hash_next]

(* ... and out of the list; the variant forgets the way back.              *)
UnlistedForward(m, n) ==
  LET prev == m.node[n].prev
      next == m.node[n].next
  IN  [m EXCEPT !.node = [i \in DOMAIN m.node |->
                            IF i = prev THEN [m.node[i] EXCEPT !.next = next]
                            ELSE m.node[i]],
                !.head = IF prev = NULL THEN next ELSE @,
                !.tail = IF next = NULL THEN prev ELSE @]
Unlisted(m, n) ==
  LET prev == m.node[n].prev
      next == m.node[n].next
  IN  [m EXCEPT !.node = [i \in DOMAIN m.node |->
                            IF i = prev THEN [m.node[i] EXCEPT !.next = next]
                            ELSE IF i = next THEN [m.node[i] EXCEPT !.prev = prev]
                            ELSE m.node[i]],
                !.head = IF prev = NULL THEN next ELSE @,
                !.tail = IF next = NULL THEN prev ELSE @]

Removed(m, name) ==
  LET k == Min(Matches(m, name))
      n == Chain(m, name)[k]
      rest == Unlisted(Unchained(m, name, n, k), n)
  IN  [rest EXCEPT !.node = Without(rest.node, n), !.size = @ - 1]

(* The nodes are deleted along the list; the buckets keep their number.    *)
Cleared(m) ==
  [node |-> [n \in DOMAIN m.node \ ToSet(Order(m)) |-> m.node[n]],
   head |-> NULL, tail |-> NULL, size |-> 0,
   buckets |-> [b \in 0 .. (m.bucket_count - 1) |-> NULL],
   bucket_count |-> m.bucket_count]

EmptyMap ==
  [node |-> <<>>, head |-> NULL, tail |-> NULL, size |-> 0,
   buckets |-> [b \in 0 .. (InitialBucketCount - 1) |-> NULL],
   bucket_count |-> InitialBucketCount]

(* copyFrom, and the list it copies.                                       *)
CopiedFrom(m, headers) ==
  LET copy[k \in 0..Len(headers)] ==
        IF k = 0 THEN m
        ELSE Set(copy[k - 1], headers[k].name, headers[k].value)
  IN  copy[Len(headers)]

(* What a set that throws leaves: nothing has changed, or the map was      *)
(* rehashed and then neither the value nor a node could be stored, or the  *)
(* rehash itself stopped half way.                                         *)
SetFailures(m) ==
  {m, Roomy(m)} \cup
    (IF IsCrowded(m) THEN {HalfRehash(m, m.bucket_count * 2)} ELSE {})

-----------------------------------------------------------------------------

(* The default constructor and the copy constructor.                       *)
Init ==
  /\ \E headers \in Others : /\ map = CopiedFrom(EmptyMap, headers)
                             /\ promised = headers
  /\ damaged = FALSE
  /\ faults = 0

(* No pointer in a bucket or a chain leads to a deleted node.              *)
NothingDangles ==
  /\ \A b \in DOMAIN map.buckets : map.buckets[b] \in DOMAIN map.node \cup {NULL}
  /\ \A n \in DOMAIN map.node : map.node[n].hash_next \in DOMAIN map.node \cup {NULL}

SetHeader(name, value) ==
  /\ Cardinality(DOMAIN map.node) < MaxNodes
  /\ map' = Set(map, name, value)
  /\ promised' = HeaderSet(promised, name, value)
  /\ UNCHANGED <<damaged, faults>>

SetHeaderFails ==
  /\ faults < MaxFaults
  /\ map' \in SetFailures(map)
  /\ damaged' = (damaged \/ map' \notin {map, Roomy(map)})
  /\ faults' = faults + 1
  /\ UNCHANGED promised

(* A name that is not found returns false and changes nothing.             *)
RemoveHeader(name) ==
  /\ Matches(map, ToLower(name)) # {}
  /\ map' = Removed(map, ToLower(name))
  /\ promised' = HeaderRemove(promised, name)
  /\ UNCHANGED <<damaged, faults>>

(* clear; the destructor does the same.                                    *)
Clear ==
  /\ map' = Cleared(map)
  /\ promised' = <<>>
  /\ damaged' = FALSE
  /\ UNCHANGED faults

(* operator= from a map with these headers.                                *)
Assign(headers) ==
  /\ map' = CopiedFrom(Cleared(map), headers)
  /\ promised' = headers
  /\ damaged' = FALSE
  /\ UNCHANGED faults

(* operator= fails once k headers have been copied.                        *)
AssignFails(headers, k) ==
  LET copied == CopiedFrom(Cleared(map), SubSeq(headers, 1, k))
  IN  /\ faults < MaxFaults
      /\ map' \in SetFailures(copied)
      /\ promised' = SubSeq(headers, 1, k)
      /\ damaged' = (map' \notin {copied, Roomy(copied)})
      /\ faults' = faults + 1

Operation ==
  \/ \E name \in Name, value \in Value : SetHeader(name, value)
  \/ SetHeaderFails
  \/ \E name \in Name : RemoveHeader(name)
  \/ Clear
  \/ \E headers \in Others : Assign(headers)
  \/ \E headers \in Others : \E k \in 0 .. (Len(headers) - 1) :
       AssignFails(headers, k)

(* What a map with a dangling pointer does next is undefined, and is not   *)
(* followed.                                                               *)
Next == NothingDangles /\ Operation

Spec == Init /\ [][Next]_vars

-----------------------------------------------------------------------------

Pointer == 0..MaxNodes

(* The fields stay in their types, and there is a bucket for every index.  *)
TypeOK ==
  /\ map \in [node : [DOMAIN map.node ->
                       [name : {ToLower(name) : name \in Name}, value : Value,
                        prev : Pointer, next : Pointer, hash_next : Pointer]],
              head : Pointer, tail : Pointer, size : 0..MaxNodes,
              buckets : [0 .. (map.bucket_count - 1) -> Pointer],
              bucket_count : Nat \ {0}]
  /\ damaged \in BOOLEAN
  /\ faults \in 0..MaxFaults

(* The list can be walked both ways between head_ and tail_, has size_     *)
(* nodes, and these are all the nodes there are: none leaks, none is       *)
(* deleted twice, whatever allocations fail.                               *)
ListIntact ==
  /\ ToSet(Order(map)) = DOMAIN map.node
  /\ Cardinality(DOMAIN map.node) = map.size
  /\ map.size = 0 => map.head = NULL /\ map.tail = NULL
  /\ map.size > 0 => /\ map.node[map.head].prev = NULL
                     /\ map.tail = Order(map)[map.size]
                     /\ map.node[map.tail].next = NULL
  /\ \A k \in 2..map.size : map.node[Order(map)[k]].prev = Order(map)[k - 1]

(* The list, read by a caller that follows next from head().               *)
Listed(m) == [k \in 1..m.size |->
                [name |-> m.node[Order(m)[k]].name,
                 value |-> m.node[Order(m)[k]].value]]

(* "each header is stored once and keeps its original position in          *)
(* insertion order" (HeaderMap.hpp): the list is the promised one after    *)
(* any insertions, removals and rehashes.                                  *)
ListKeepsOrder == ~damaged => Listed(map) = promised

(* get answers with the value that is stored, through whatever chain the   *)
(* rehashes and removals have left the node in.                            *)
GetFindsStored == \A name \in Name : Get(map, name) = HeaderGet(Listed(map), name)
GetFindsUnlessDamaged == ~damaged => NothingDangles /\ GetFindsStored

=============================================================================
