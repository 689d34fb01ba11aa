------------------------- MODULE Http10QueueProofs -------------------------
(***************************************************************************)
(* Theorems about the queue of Http10Parser and the objects it points to:  *)
(* requests leave in the order in which they came, each object has exactly *)
(* one owner, and the dispatcher of parseHttpRequest finds the version     *)
(* under which each of them was decoded.                                   *)
(***************************************************************************)
EXTENDS Http10ParserProofs, FiniteSetTheorems, Http10Dispatch

-----------------------------------------------------------------------------
(* Order.                                                                  *)

(* Every pointer is larger than those before it.                           *)
Ordered(l) == \A j, k \in DOMAIN l : j < k => l[j] < l[k]

(* r is how l ends.                                                        *)
EndsWith(l, r) ==
  /\ Len(r) <= Len(l)
  /\ \A k \in 1..Len(r) : r[k] = l[Len(l) - Len(r) + k]

(* How l ends, as a slice of it.                                           *)
LEMMA EndIsSlice ==
  ASSUME NEW n \in Nat, NEW l \in Seq(1..n), NEW r \in Seq(1..n),
         EndsWith(l, r)
  PROVE  r = SubSeq(l, Len(l) - Len(r) + 1, Len(l))
<1> DEFINE a == Len(l) - Len(r) + 1
           s == SubSeq(l, a, Len(l))
<1>1. Len(l) \in Nat /\ Len(r) \in Nat /\ Len(r) <= Len(l)
  BY DEF EndsWith
<1>2. a \in 1 .. (Len(l) + 1) /\ Len(l) - a + 1 = Len(r)
  BY <1>1
<1>3. /\ s \in Seq(1..n) /\ Len(s) = Len(r)
      /\ \A k \in 1..Len(r) : s[k] = l[Len(l) - Len(r) + k]
  <2>1. \A i \in a..Len(l) : l[i] \in 1..n
    BY <1>1, <1>2
  <2>2. /\ s \in Seq(1..n)
        /\ Len(s) = IF a <= Len(l) THEN Len(l) - a + 1 ELSE 0
        /\ \A k \in 1 .. (Len(l) - a + 1) : s[k] = l[a + k - 1]
    <3> HIDE DEF a
    <3> QED
      BY <1>1, <1>2, <2>1, SubSeqProperties
  <2>3. Len(s) = Len(r)
    BY <1>1, <1>2, <2>2
  <2>4. \A k \in 1..Len(r) : a + k - 1 = Len(l) - Len(r) + k
    BY <1>1
  <2> HIDE DEF s
  <2> QED
    BY <1>2, <2>2, <2>3, <2>4
<1> HIDE DEF s, a
<1>4. Len(r) = Len(s) /\ \A k \in 1..Len(r) : r[k] = s[k]
  BY <1>3 DEF EndsWith
<1>5. r = s
  BY <1>3, <1>4, SeqEqual
<1> QED
  BY <1>5 DEF s, a

(* A new pointer is larger than all before, and ends both sequences.       *)
LEMMA AppendKeepsOrder ==
  ASSUME NEW n \in Nat, NEW l \in Seq(1..n), Ordered(l)
  PROVE  Ordered(Append(l, n + 1))
<1> DEFINE m == Append(l, n + 1)
<1>1. /\ Len(l) \in Nat /\ DOMAIN l = 1..Len(l)
      /\ \A k \in 1..Len(l) : l[k] \in 1..n
  OBVIOUS
<1>2. /\ DOMAIN m = 1 .. (Len(l) + 1) /\ m[Len(l) + 1] = n + 1
      /\ \A k \in 1..Len(l) : m[k] = l[k]
  BY <1>1
<1> HIDE DEF m
<1>3. ASSUME NEW j \in DOMAIN m, NEW k \in DOMAIN m, j < k
      PROVE  m[j] < m[k]
  <2>1. j \in 1..Len(l) /\ m[j] = l[j] /\ l[j] \in 1..n
    BY <1>1, <1>2, <1>3
  <2>2. CASE k = Len(l) + 1
    BY <1>2, <2>1, <2>2
  <2>3. CASE k \in 1..Len(l)
    BY <1>1, <1>2, <1>3, <2>1, <2>3 DEF Ordered
  <2> QED
    BY <1>1, <1>2, <2>2, <2>3
<1>4. Ordered(m)
  BY <1>3 DEF Ordered
<1> QED
  BY <1>4 DEF m

(* Sequences that end alike still do when both get one more element.       *)
LEMMA AppendKeepsEnd ==
  ASSUME NEW n \in Nat, NEW l \in Seq(1..n), NEW r \in Seq(1..n),
         EndsWith(l, r), NEW x
  PROVE  EndsWith(Append(l, x), Append(r, x))
<1> DEFINE m == Append(l, x)
           s == Append(r, x)
<1>1. Len(l) \in Nat /\ Len(r) \in Nat /\ Len(r) <= Len(l)
  BY DEF EndsWith
<1>2. /\ Len(m) = Len(l) + 1 /\ m[Len(l) + 1] = x
      /\ \A k \in 1..Len(l) : m[k] = l[k]
      /\ Len(s) = Len(r) + 1 /\ s[Len(r) + 1] = x
      /\ \A k \in 1..Len(r) : s[k] = r[k]
  BY <1>1
<1> HIDE DEF m, s
<1>3. ASSUME NEW k \in 1..Len(s) PROVE s[k] = m[Len(m) - Len(s) + k]
  <2>1. Len(m) - Len(s) + k = Len(l) - Len(r) + k
    BY <1>1, <1>2
  <2>2. CASE k = Len(r) + 1
    <3>1. Len(l) - Len(r) + k = Len(l) + 1
      BY <1>1, <2>2
    <3> QED
      BY <1>2, <2>1, <2>2, <3>1
  <2>3. CASE k \in 1..Len(r)
    <3>1. Len(l) - Len(r) + k \in 1..Len(l)
      BY <1>1, <2>3
    <3> QED
      BY <1>2, <2>1, <2>3, <3>1 DEF EndsWith
  <2> QED
    BY <1>1, <1>2, <2>2, <2>3
<1>4. EndsWith(m, s)
  BY <1>1, <1>2, <1>3 DEF EndsWith
<1> QED
  BY <1>4 DEF m, s

(* The end of an end is an end.                                            *)
LEMMA TailKeepsEnd ==
  ASSUME NEW n \in Nat, NEW l \in Seq(1..n), NEW r \in Seq(1..n),
         EndsWith(l, r), r # <<>>
  PROVE  EndsWith(l, Tail(r))
<1> DEFINE t == Tail(r)
<1>1. /\ Len(l) \in Nat /\ Len(r) \in Nat /\ Len(r) <= Len(l)
      /\ \A k \in 1..Len(r) : r[k] = l[Len(l) - Len(r) + k]
  BY DEF EndsWith
<1>2. /\ Len(t) = Len(r) - 1
      /\ \A k \in 1..Len(t) : t[k] = r[k + 1]
  BY HeadTailProperties
<1> HIDE DEF t
<1>3. ASSUME NEW k \in 1..Len(t) PROVE t[k] = l[Len(l) - Len(t) + k]
  <2>1. k + 1 \in 1..Len(r) /\ Len(l) - Len(t) + k = Len(l) - Len(r) + (k + 1)
    BY <1>1, <1>2
  <2> QED
    BY <1>1, <1>2, <2>1
<1>4. EndsWith(l, t)
  BY <1>1, <1>2, <1>3 DEF EndsWith
<1> QED
  BY <1>4 DEF t

(* The invariant behind FifoDelivery.                                      *)
FifoInv ==
  /\ BufferInv
  /\ Ordered(log)
  /\ pc # "destroyed" => EndsWith(log, requests_)

(* What the types say of pointers: they are numbers up to the heap's size. *)
LEMMA PointerFacts ==
  ASSUME BufferInv
  PROVE  /\ Len(heap) \in Nat /\ DOMAIN heap = 1..Len(heap)
         /\ requests_ \in Seq(1..Len(heap)) /\ log \in Seq(1..Len(heap))
<1>1. /\ heap \in Seq(Objects(heap, parsed))
      /\ requests_ \in Seq(DOMAIN heap) /\ log \in Seq(DOMAIN heap)
  BY DEF BufferInv, TypeOK
<1>2. Len(heap) \in Nat /\ DOMAIN heap = 1..Len(heap)
  BY <1>1, LenProperties
<1> QED
  BY <1>1, <1>2

(* No step breaks it.                                                      *)
LEMMA NextKeepsFifoInv == FifoInv /\ [Next]_vars => FifoInv'
<1> SUFFICES ASSUME FifoInv, [Next]_vars PROVE FifoInv'
  OBVIOUS
<1>1. BufferInv'
  BY NextKeepsBufferInv DEF FifoInv
<1>2. /\ Len(heap) \in Nat
      /\ requests_ \in Seq(1..Len(heap)) /\ log \in Seq(1..Len(heap))
      /\ Ordered(log)
  BY PointerFacts DEF FifoInv
<1>3. CASE DrainRequest
  <2> DEFINE new == Len(heap) + 1
  <2>1. pc' = pc /\ pc # "destroyed"
        /\ requests_' = Append(requests_, new) /\ log' = Append(log, new)
    BY <1>3 DEF DrainRequest
  <2>2. Ordered(Append(log, new))
    BY <1>2, AppendKeepsOrder
  <2>3. EndsWith(log, requests_)
    BY <2>1 DEF FifoInv
  <2>4. EndsWith(Append(log, new), Append(requests_, new))
    BY <1>2, <2>3, AppendKeepsEnd
  <2>5. Ordered(log') /\ EndsWith(log', requests_')
    <3> HIDE DEF new
    <3> QED
      BY <2>1, <2>2, <2>4
  <2> QED
    BY <1>1, <2>5 DEF FifoInv, Ordered, EndsWith
<1>4. CASE NextRequest
  <2>1. /\ pc # "destroyed" /\ pc' = pc /\ log' = log
        /\ requests_ # <<>> /\ requests_' = Tail(requests_)
    BY <1>4 DEF NextRequest, Popped
  <2>2. EndsWith(log, Tail(requests_))
    BY <1>2, <2>1, TailKeepsEnd DEF FifoInv
  <2>3. Ordered(log') /\ EndsWith(log', requests_')
    BY <1>2, <2>1, <2>2
  <2> QED
    BY <1>1, <2>3 DEF FifoInv, Ordered, EndsWith
<1>5. CASE Destroy
  BY <1>1, <1>2, <1>5 DEF Destroy, FifoInv, Ordered
<1>6. CASE \/ \E n \in 1..(Len(wire) - fed) : Feed(n)
           \/ FeedFails \/ DrainDone \/ DrainThrows \/ DecodeFails \/ PushFails
           \/ \E i \in DOMAIN heap : DeleteRequest(i)
           \/ UNCHANGED vars
  <2>1. /\ log' = log /\ requests_' = requests_
        /\ pc' # "destroyed" => pc # "destroyed"
    BY <1>6 DEF Feed, FeedFails, DrainDone, DrainThrows, DecodeFails,
                PushFails, DeleteRequest, vars
  <2>2. /\ Ordered(log')
        /\ pc' # "destroyed" => EndsWith(log', requests_')
    BY <1>2, <2>1 DEF FifoInv
  <2> QED
    BY <1>1, <2>2 DEF FifoInv, Ordered, EndsWith
<1> QED
  BY <1>3, <1>4, <1>5, <1>6 DEF Next, Drain

(* It holds of a new parser.                                               *)
LEMMA InitFifoInv == Init => FifoInv
<1> SUFFICES ASSUME Init PROVE FifoInv
  OBVIOUS
<1>1. BufferInv /\ log = <<>> /\ requests_ = <<>>
  BY InitBufferInv DEF Init
<1> QED
  BY <1>1 DEF FifoInv, Ordered, EndsWith

(* Requests leave in the order they were queued, none twice and none       *)
(* skipped.                                                                *)
THEOREM FifoOrder == Spec => []FifoDelivery
<1>1. FifoInv => FifoDelivery
  <2> SUFFICES ASSUME FifoInv PROVE FifoDelivery
    OBVIOUS
  <2>1. Ordered(log)
    BY DEF FifoInv
  <2>2. ASSUME pc # "destroyed"
        PROVE  requests_ = SubSeq(log, Len(log) - Len(requests_) + 1, Len(log))
    BY <2>2, PointerFacts, EndIsSlice DEF FifoInv
  <2> QED
    BY <2>1, <2>2 DEF FifoDelivery, Ordered
<1> QED
  BY <1>1, InitFifoInv, NextKeepsFifoInv, PTL DEF Spec

-----------------------------------------------------------------------------
(* Ownership.                                                              *)

(* The objects of the heap h that nothing points to.                       *)
Leaks(h) == {i \in DOMAIN h : h[i].owner = "leaked"}

(* The queue q points to the objects of h that it owns, and to no other.   *)
Matched(h, q) ==
  \A i \in DOMAIN h : h[i].owner = "queue" <=> \E k \in DOMAIN q : q[k] = i

(* The invariant behind Ownership.                                         *)
OwnedInv ==
  /\ FifoInv
  /\ Matched(heap, requests_)
  /\ pc = "destroyed" => requests_ = <<>>
  /\ IsFiniteSet(Leaks(heap)) /\ Cardinality(Leaks(heap)) <= faults

(* What an invariant state says of the queue and of the count of faults.   *)
LEMMA OwnedFacts ==
  ASSUME OwnedInv
  PROVE  /\ faults \in Nat /\ Cardinality(Leaks(heap)) \in Nat
         /\ Ordered(requests_)
<1>1. faults \in Nat
  BY ParserAssumption DEF OwnedInv, FifoInv, BufferInv, TypeOK
<1>2. Cardinality(Leaks(heap)) \in Nat
  BY FS_CardinalityType DEF OwnedInv
<1>3. CASE requests_ = <<>>
  BY <1>1, <1>2, <1>3 DEF Ordered
<1>4. CASE requests_ # <<>>
  <2>1. /\ EndsWith(log, requests_) /\ Ordered(log)
        /\ requests_ \in Seq(1..Len(heap)) /\ log \in Seq(1..Len(heap))
    BY <1>4, PointerFacts DEF OwnedInv, FifoInv
  <2>2. /\ Len(log) \in Nat /\ DOMAIN log = 1..Len(log)
        /\ Len(requests_) \in Nat /\ DOMAIN requests_ = 1..Len(requests_)
        /\ Len(requests_) <= Len(log)
        /\ \A k \in 1..Len(requests_) :
             requests_[k] = log[Len(log) - Len(requests_) + k]
    BY <2>1, LenProperties DEF EndsWith
  <2>3. ASSUME NEW j \in DOMAIN requests_, NEW k \in DOMAIN requests_, j < k
        PROVE  requests_[j] < requests_[k]
    <3> DEFINE d == Len(log) - Len(requests_)
    <3>1. d + j \in DOMAIN log /\ d + k \in DOMAIN log /\ d + j < d + k
      BY <2>2, <2>3
    <3>2. requests_[j] = log[d + j] /\ requests_[k] = log[d + k]
      BY <2>2, <2>3
    <3> QED
      BY <2>1, <3>1, <3>2 DEF Ordered
  <2> QED
    BY <1>1, <1>2, <2>3 DEF Ordered
<1> QED
  BY <1>3, <1>4

(* A new object is matched by a new pointer, or by none when it is leaked. *)
LEMMA GrowthKeepsMatch ==
  ASSUME NEW h, NEW g, NEW object, NEW end, NEW q,
         Len(h) \in Nat, DOMAIN h = 1..Len(h), DOMAIN g = 1..Len(g),
         q \in Seq(1..Len(h)), Grown(h, g, object, end), Matched(h, q)
  PROVE  /\ object.owner = "queue" =>
              Matched(g, Append(q, Len(h) + 1)) /\ Leaks(g) = Leaks(h)
         /\ object.owner = "leaked" =>
              Matched(g, q) /\ Leaks(g) = Leaks(h) \cup {Len(h) + 1}
<1> DEFINE new == Len(h) + 1
           r == Append(q, new)
<1>1. /\ DOMAIN g = DOMAIN h \cup {new} /\ new \notin DOMAIN h
      /\ g[new] = object /\ \A i \in DOMAIN h : g[i] = h[i]
  BY DEF Grown
<1>2. /\ Len(q) \in Nat /\ DOMAIN q = 1..Len(q)
      /\ \A k \in DOMAIN q : q[k] \in DOMAIN h
  OBVIOUS
<1>3. /\ DOMAIN r = DOMAIN q \cup {Len(q) + 1} /\ r[Len(q) + 1] = new
      /\ \A k \in DOMAIN q : r[k] = q[k]
  BY <1>2
<1> HIDE DEF new, r
<1>4. ASSUME object.owner = "queue"
      PROVE  Matched(g, r) /\ Leaks(g) = Leaks(h)
  <2>1. Leaks(g) = Leaks(h)
    BY <1>1, <1>4 DEF Leaks
  <2>2. ASSUME NEW i \in DOMAIN h
        PROVE  g[i].owner = "queue" <=> \E k \in DOMAIN r : r[k] = i
    BY <1>1, <1>2, <1>3, <2>2 DEF Matched
  <2>3. g[new].owner = "queue" /\ \E k \in DOMAIN r : r[k] = new
    BY <1>1, <1>3, <1>4
  <2> QED
    BY <1>1, <2>1, <2>2, <2>3 DEF Matched
<1>5. ASSUME object.owner = "leaked"
      PROVE  Matched(g, q) /\ Leaks(g) = Leaks(h) \cup {new}
  <2>1. Leaks(g) = Leaks(h) \cup {new}
    BY <1>1, <1>5 DEF Leaks
  <2>2. g[new].owner # "queue" /\ \A k \in DOMAIN q : q[k] # new
    BY <1>1, <1>2, <1>5
  <2> QED
    BY <1>1, <2>1, <2>2 DEF Matched
<1> QED
  BY <1>4, <1>5 DEF new, r

(* The owners after the three steps that change them.                      *)
LEMMA NewOwners ==
  ASSUME BufferInv
  PROVE  /\ NextRequest =>
              /\ DOMAIN heap' = DOMAIN heap
              /\ \A i \in DOMAIN heap : heap'[i].owner =
                   IF i = Head(requests_) THEN "caller" ELSE heap[i].owner
         /\ \A n \in DOMAIN heap : DeleteRequest(n) =>
              /\ DOMAIN heap' = DOMAIN heap
              /\ \A i \in DOMAIN heap : heap'[i].owner =
                   IF i = n THEN "deleted" ELSE heap[i].owner
         /\ Destroy =>
              /\ DOMAIN heap' = DOMAIN heap
              /\ \A i \in DOMAIN heap : heap'[i].owner =
                   IF Queued(i) THEN "deleted" ELSE heap[i].owner
<1>1. \A i \in DOMAIN heap : heap[i] \in Objects(heap, parsed)
  BY PointerFacts, ElementOfSeq DEF BufferInv, TypeOK
<1>2. ASSUME NEW n \in DOMAIN heap, NEW o, heap' = [heap EXCEPT ![n].owner = o]
      PROVE  /\ DOMAIN heap' = DOMAIN heap
             /\ \A i \in DOMAIN heap :
                  heap'[i].owner = IF i = n THEN o ELSE heap[i].owner
  BY <1>1, <1>2 DEF Objects
<1>3. ASSUME NextRequest
      PROVE  /\ DOMAIN heap' = DOMAIN heap
             /\ \A i \in DOMAIN heap : heap'[i].owner =
                  IF i = Head(requests_) THEN "caller" ELSE heap[i].owner
  <2>1. requests_ \in Seq(DOMAIN heap) /\ requests_ # <<>>
        /\ heap' = [heap EXCEPT ![Head(requests_)].owner = "caller"]
    BY <1>3 DEF NextRequest, BufferInv, TypeOK
  <2>2. Head(requests_) \in DOMAIN heap
    BY <2>1, HeadTailProperties
  <2> DEFINE n == Head(requests_)
  <2> HIDE DEF n
  <2>3. n \in DOMAIN heap /\ heap' = [heap EXCEPT ![n].owner = "caller"]
    BY <2>1, <2>2 DEF n
  <2>4. /\ DOMAIN heap' = DOMAIN heap
        /\ \A i \in DOMAIN heap :
             heap'[i].owner = IF i = n THEN "caller" ELSE heap[i].owner
    BY <1>2, <2>3
  <2> QED
    BY <2>4 DEF n
<1>4. ASSUME NEW n \in DOMAIN heap, DeleteRequest(n)
      PROVE  /\ DOMAIN heap' = DOMAIN heap
             /\ \A i \in DOMAIN heap : heap'[i].owner =
                  IF i = n THEN "deleted" ELSE heap[i].owner
  <2>1. heap' = [heap EXCEPT ![n].owner = "deleted"]
    BY <1>4 DEF DeleteRequest
  <2> QED
    BY <1>2, <2>1
<1>5. ASSUME Destroy
      PROVE  /\ DOMAIN heap' = DOMAIN heap
             /\ \A i \in DOMAIN heap : heap'[i].owner =
                  IF Queued(i) THEN "deleted" ELSE heap[i].owner
  BY <1>1, <1>5 DEF Destroy, Cleared, Objects
<1> QED
  BY <1>3, <1>4, <1>5

(* Leaks may only be counted once more than before.                        *)
LEMMA LeaksAreCounted ==
  ASSUME OwnedInv, NEW g, NEW f \in Nat, NEW x,
         \/ Leaks(g) \subseteq Leaks(heap) /\ f >= faults
         \/ Leaks(g) = Leaks(heap) \cup {x} /\ f = faults + 1
  PROVE  IsFiniteSet(Leaks(g)) /\ Cardinality(Leaks(g)) <= f
<1> DEFINE S == Leaks(heap)
           T == Leaks(g)
<1>1. /\ IsFiniteSet(S) /\ Cardinality(S) \in Nat /\ Cardinality(S) <= faults
      /\ faults \in Nat
  BY OwnedFacts DEF OwnedInv
<1>2. \/ T \subseteq S /\ f >= faults
      \/ T = S \cup {x} /\ f = faults + 1
  OBVIOUS
<1> HIDE DEF S, T
<1>3. CASE T \subseteq S /\ f >= faults
  <2>1. IsFiniteSet(T) /\ Cardinality(T) <= Cardinality(S)
    BY <1>1, <1>3, FS_Subset
  <2>2. Cardinality(T) \in Nat
    BY <2>1, FS_CardinalityType
  <2> QED
    BY <1>1, <1>3, <2>1, <2>2 DEF T
<1>4. CASE T = S \cup {x} /\ f = faults + 1
  <2>1. /\ IsFiniteSet(T)
        /\ Cardinality(T) =
             IF x \in S THEN Cardinality(S) ELSE Cardinality(S) + 1
    BY <1>1, <1>4, FS_AddElement
  <2> QED
    BY <1>1, <1>4, <2>1 DEF T
<1> QED
  BY <1>2, <1>3, <1>4

(* No step breaks the invariant of ownership.                              *)
LEMMA NextKeepsOwnedInv == OwnedInv /\ [Next]_vars => OwnedInv'
<1> SUFFICES ASSUME OwnedInv, [Next]_vars PROVE OwnedInv'
  OBVIOUS
<1>1. FifoInv' /\ BufferInv /\ BufferInv'
  BY NextKeepsFifoInv DEF OwnedInv, FifoInv
<1>2. /\ Len(heap) \in Nat /\ DOMAIN heap = 1..Len(heap)
      /\ DOMAIN heap' = 1..Len(heap')
      /\ requests_ \in Seq(1..Len(heap)) /\ Matched(heap, requests_)
      /\ faults \in Nat /\ Ordered(requests_)
  <2>1. heap' \in Seq(Objects(heap', parsed'))
    BY <1>1 DEF BufferInv, TypeOK
  <2>2. DOMAIN heap' = 1..Len(heap')
    BY <2>1, LenProperties
  <2> QED
    BY <1>1, <2>2, PointerFacts, OwnedFacts DEF OwnedInv
<1>3. SUFFICES /\ Matched(heap', requests_')
               /\ pc' = "destroyed" => requests_' = <<>>
               /\ IsFiniteSet(Leaks(heap'))
               /\ Cardinality(Leaks(heap')) <= faults'
  BY <1>1 DEF OwnedInv, Matched, Leaks
<1>4. CASE DrainRequest
  <2> DEFINE object == Object(Decode(buffer_).request, parsed,
                              Decode(buffer_).consumed, "queue")
  <2>1. Grown(heap, heap', object, parsed')
    BY <1>1, <1>4, DrainRequestGrows
  <2>2. object.owner = "queue"
    BY DEF Object
  <2>3. /\ requests_' = Append(requests_, Len(heap) + 1)
        /\ pc' # "destroyed" /\ faults' = faults
    BY <1>4 DEF DrainRequest
  <2> HIDE DEF object
  <2>4. Matched(heap', requests_') /\ Leaks(heap') = Leaks(heap)
    BY <1>2, <2>1, <2>2, <2>3, GrowthKeepsMatch
  <2> QED
    BY <2>3, <2>4 DEF OwnedInv
<1>5. CASE PushFails
  <2> DEFINE object == Object(Decode(buffer_).request, parsed,
                              Decode(buffer_).consumed, "leaked")
  <2>1. Grown(heap, heap', object, parsed)
    BY <1>1, <1>5, PushFailsGrows
  <2>2. object.owner = "leaked"
    BY DEF Object
  <2>3. /\ requests_' = requests_
        /\ pc' # "destroyed" /\ faults' = faults + 1
    BY <1>5 DEF PushFails
  <2> HIDE DEF object
  <2>4. /\ Matched(heap', requests_')
        /\ Leaks(heap') = Leaks(heap) \cup {Len(heap) + 1}
    BY <1>2, <2>1, <2>2, <2>3, GrowthKeepsMatch
  <2>5. IsFiniteSet(Leaks(heap')) /\ Cardinality(Leaks(heap')) <= faults'
    <3>1. faults' \in Nat
      BY <1>2, <2>3
    <3> QED
      BY <2>3, <2>4, <3>1, LeaksAreCounted
  <2> QED
    BY <2>3, <2>4, <2>5
<1>6. CASE NextRequest
  <2>1. /\ requests_ # <<>> /\ requests_' = Tail(requests_)
        /\ pc' # "destroyed" /\ faults' = faults
    BY <1>6 DEF NextRequest, Popped
  <2>2. /\ DOMAIN heap' = DOMAIN heap
        /\ \A i \in DOMAIN heap : heap'[i].owner =
             IF i = Head(requests_) THEN "caller" ELSE heap[i].owner
    BY <1>1, <1>6, NewOwners
  <2>3. Leaks(heap') \subseteq Leaks(heap)
    BY <2>2 DEF Leaks
  <2>4. /\ Len(requests_) \in Nat /\ DOMAIN requests_ = 1..Len(requests_)
        /\ Head(requests_) = requests_[1] /\ 1 \in DOMAIN requests_
        /\ DOMAIN requests_' = 1 .. (Len(requests_) - 1)
        /\ \A k \in DOMAIN requests_' : requests_'[k] = requests_[k + 1]
    BY <1>2, <2>1, HeadTailProperties
  <2>5. ASSUME NEW i \in DOMAIN heap
        PROVE  heap'[i].owner = "queue"
                 <=> \E k \in DOMAIN requests_' : requests_'[k] = i
    <3>1. CASE i = requests_[1]
      <4>1. \A k \in DOMAIN requests_' : requests_[1] < requests_[k + 1]
        <5>1. \A k \in DOMAIN requests_' :
                k + 1 \in DOMAIN requests_ /\ 1 < k + 1
          BY <2>4
        <5> QED
          BY <1>2, <2>4, <5>1 DEF Ordered
      <4>2. \A k \in DOMAIN requests_' : requests_'[k] # i
        BY <1>2, <2>4, <3>1, <4>1
      <4> QED
        BY <2>2, <2>4, <3>1, <4>2
    <3>2. CASE i # requests_[1]
      <4>1. (\E k \in DOMAIN requests_ : requests_[k] = i)
              <=> \E k \in DOMAIN requests_' : requests_'[k] = i
        <5>1. ASSUME NEW k \in DOMAIN requests_, requests_[k] = i
              PROVE  \E j \in DOMAIN requests_' : requests_'[j] = i
          <6>1. k - 1 \in DOMAIN requests_' /\ (k - 1) + 1 = k
            BY <2>4, <3>2, <5>1
          <6>2. requests_'[k - 1] = i
            BY <2>4, <5>1, <6>1
          <6> QED
            BY <6>1, <6>2
        <5>2. ASSUME NEW k \in DOMAIN requests_', requests_'[k] = i
              PROVE  \E j \in DOMAIN requests_ : requests_[j] = i
          <6>1. k + 1 \in DOMAIN requests_
            BY <2>4, <5>2
          <6> QED
            BY <2>4, <5>2, <6>1
        <5> QED
          BY <5>1, <5>2
      <4>2. heap'[i].owner = heap[i].owner
        BY <2>2, <2>4, <3>2
      <4> QED
        BY <1>2, <4>1, <4>2 DEF Matched
    <3> QED
      BY <3>1, <3>2
  <2>6. Matched(heap', requests_')
    BY <2>2, <2>5 DEF Matched
  <2>7. IsFiniteSet(Leaks(heap')) /\ Cardinality(Leaks(heap')) <= faults'
    BY <1>2, <2>1, <2>3, LeaksAreCounted
  <2> QED
    BY <2>1, <2>6, <2>7
<1>7. ASSUME NEW n \in DOMAIN heap, DeleteRequest(n)
      PROVE  /\ Matched(heap', requests_')
             /\ pc' = "destroyed" => requests_' = <<>>
             /\ IsFiniteSet(Leaks(heap'))
             /\ Cardinality(Leaks(heap')) <= faults'
  <2>1. /\ requests_' = requests_ /\ pc' = pc /\ faults' = faults
        /\ heap[n].owner = "caller"
    BY <1>7 DEF DeleteRequest
  <2>2. /\ DOMAIN heap' = DOMAIN heap
        /\ \A i \in DOMAIN heap : heap'[i].owner =
             IF i = n THEN "deleted" ELSE heap[i].owner
    BY <1>1, <1>7, NewOwners
  <2>3. Leaks(heap') \subseteq Leaks(heap)
    BY <2>2 DEF Leaks
  <2>4. Matched(heap', requests_')
    BY <1>2, <2>1, <2>2 DEF Matched
  <2>5. IsFiniteSet(Leaks(heap')) /\ Cardinality(Leaks(heap')) <= faults'
    BY <1>2, <2>1, <2>3, LeaksAreCounted
  <2> QED
    BY <2>1, <2>4, <2>5 DEF OwnedInv
<1>8. CASE Destroy
  <2>1. requests_' = <<>> /\ faults' = faults
    BY <1>8 DEF Destroy
  <2>2. /\ DOMAIN heap' = DOMAIN heap
        /\ \A i \in DOMAIN heap : heap'[i].owner =
             IF Queued(i) THEN "deleted" ELSE heap[i].owner
    BY <1>1, <1>8, NewOwners
  <2>3. Leaks(heap') \subseteq Leaks(heap)
    BY <2>2 DEF Leaks
  <2>4. Matched(heap', requests_')
    BY <1>2, <2>1, <2>2 DEF Matched, Queued
  <2>5. IsFiniteSet(Leaks(heap')) /\ Cardinality(Leaks(heap')) <= faults'
    BY <1>2, <2>1, <2>3, LeaksAreCounted
  <2> QED
    BY <2>1, <2>4, <2>5
<1>9. CASE \/ \E n \in 1..(Len(wire) - fed) : Feed(n)
           \/ FeedFails \/ DrainDone \/ DrainThrows \/ DecodeFails
           \/ UNCHANGED vars
  <2>1. /\ heap' = heap /\ requests_' = requests_
        /\ pc' = "destroyed" => pc = "destroyed"
        /\ faults' \in {faults, faults + 1}
    BY <1>9 DEF Feed, FeedFails, DrainDone, DrainThrows, DecodeFails, vars
  <2>2. IsFiniteSet(Leaks(heap')) /\ Cardinality(Leaks(heap')) <= faults'
    <3>1. faults' \in Nat /\ faults' >= faults
      BY <1>2, <2>1
    <3> QED
      BY <2>1, <3>1, LeaksAreCounted
  <2> QED
    BY <1>2, <2>1, <2>2 DEF OwnedInv
<1> QED
  BY <1>4, <1>5, <1>6, <1>7, <1>8, <1>9 DEF Next, Drain

(* It holds of a new parser.                                               *)
LEMMA InitOwnedInv == Init => OwnedInv
<1> SUFFICES ASSUME Init PROVE OwnedInv
  OBVIOUS
<1>1. FifoInv /\ heap = <<>> /\ requests_ = <<>> /\ faults = 0
  BY InitFifoInv DEF Init
<1>2. Leaks(heap) = {}
  BY <1>1 DEF Leaks
<1>3. IsFiniteSet(Leaks(heap)) /\ Cardinality(Leaks(heap)) = 0
  BY <1>2, FS_EmptySet
<1> QED
  BY <1>1, <1>3 DEF OwnedInv, Matched

(* Each object has one owner: the queue holds exactly the objects it owns, *)
(* once each; none is left when the parser is gone; and only a failed      *)
(* push_back loses one.                                                    *)
THEOREM OneOwner == Spec => []Ownership
<1>1. OwnedInv => Ownership
  <2> SUFFICES ASSUME OwnedInv PROVE Ownership
    OBVIOUS
  <2>1. Ordered(requests_)
    BY OwnedFacts
  <2> QED
    BY <2>1 DEF OwnedInv, Ownership, Matched, Leaks, Ordered, Queued
<1> QED
  BY <1>1, InitOwnedInv, NextKeepsOwnedInv, PTL DEF Spec

(* No step but the caller's delete changes an object that is not queued.   *)
LEMMA OthersStay ==
  ASSUME OwnedInv, Next, NEW i \in DOMAIN heap,
         heap[i].owner # "queue", heap'[i] # heap[i]
  PROVE  DeleteRequest(i)
<1>1. BufferInv
  BY DEF OwnedInv, FifoInv
<1>2. ~Queued(i)
  BY DEF OwnedInv, Matched, Queued
<1>3. ~DrainRequest /\ ~PushFails
  BY <1>1, DrainRequestGrows, PushFailsGrows DEF Grown
<1>4. ~NextRequest
  <2> SUFFICES ASSUME NextRequest PROVE FALSE
    OBVIOUS
  <2>1. /\ requests_ \in Seq(DOMAIN heap) /\ requests_ # <<>>
        /\ heap' = [heap EXCEPT ![Head(requests_)].owner = "caller"]
    BY <1>1 DEF NextRequest, BufferInv, TypeOK
  <2>2. Head(requests_) = requests_[1] /\ 1 \in DOMAIN requests_
    BY <2>1, HeadTailProperties
  <2>3. Head(requests_) # i
    BY <1>2, <2>2 DEF Queued
  <2> QED
    BY <2>1, <2>3
<1>5. ~Destroy
  BY <1>2 DEF Destroy, Cleared
<1>6. /\ ~DrainDone /\ ~DrainThrows /\ ~FeedFails /\ ~DecodeFails
      /\ \A n \in 1..(Len(wire) - fed) : ~Feed(n)
  BY DEF DrainDone, DrainThrows, FeedFails, DecodeFails, Feed
<1>7. PICK n \in DOMAIN heap : DeleteRequest(n)
  BY <1>3, <1>4, <1>5, <1>6 DEF Next, Drain
<1>8. n = i
  BY <1>7 DEF DeleteRequest
<1> QED
  BY <1>7, <1>8

(* What has left the queue is out of the parser's hands: only the caller's *)
(* delete touches it, and nothing touches it after that.                   *)
THEOREM OnlyCallerDeletes == Spec => HandedOverIsCallers
<1>1. OwnedInv /\ [Next]_vars
        => [\A i \in DOMAIN heap :
              heap[i].owner # "queue" /\ heap'[i] # heap[i]
                => DeleteRequest(i)]_vars
  BY OthersStay
<1> QED
  BY <1>1, InitOwnedInv, NextKeepsOwnedInv, PTL DEF Spec, HandedOverIsCallers

-----------------------------------------------------------------------------
(* The version behind the second space.                                    *)

(* The spaces up to a position.                                            *)
LEMMA UptoIs ==
  ASSUME NEW data \in String, NEW q \in 1..Len(data)
  PROVE  /\ \A i : i \in Upto(data, q) <=> i \in 1..q /\ data[i] = SP
         /\ IsFiniteSet(Upto(data, q))
<1>1. Len(data) \in Nat /\ \A i \in 1..q : data[i] \in Octet
  BY DEF String
<1> DEFINE u == SubSeq(data, 1, q)
<1>2. Len(u) = q /\ DOMAIN u = 1..q /\ \A i \in 1..q : u[i] = data[i]
  <2>1. /\ u \in Seq(Octet) /\ Len(u) = IF 1 <= q THEN q - 1 + 1 ELSE 0
        /\ \A i \in 1..(q - 1 + 1) : u[i] = data[1 + i - 1]
    BY <1>1, SubSeqProperties
  <2> HIDE DEF u
  <2> QED
    BY <2>1
<1>3. \A i : i \in Upto(data, q) <=> i \in 1..q /\ data[i] = SP
  <2> HIDE DEF u
  <2>1. Occurrences(SP, u) = {i \in 1..q : u[i] = SP}
    BY <1>2 DEF Occurrences
  <2> QED
    BY <1>2, <2>1 DEF Upto, u
<1>4. IsFiniteSet(1..q) /\ Upto(data, q) \subseteq 1..q
  BY <1>3, FS_Interval
<1> QED
  BY <1>3, <1>4, FS_Subset

(* The second space is found where it is.                                  *)
LEMMA SecondSpace ==
  ASSUME NEW data \in String, NEW a \in 1..Len(data), NEW b \in 1..Len(data),
         a < b, \A i \in 1..b : data[i] = SP <=> i \in {a, b}
  PROVE  FindNthSpace(data, 2) = b
<1>1. Len(data) \in Nat /\ DOMAIN data = 1..Len(data)
  BY DEF String
<1> DEFINE Two == {p \in Occurrences(SP, data) : Cardinality(Upto(data, p)) = 2}
<1>2. Upto(data, b) = {a, b}
  BY <1>1, UptoIs
<1>3. Cardinality({a, b}) = 2
  <2> DEFINE A == {a}
  <2>1. IsFiniteSet(A) /\ Cardinality(A) = 1
    BY FS_Singleton
  <2>2. b \notin A
    OBVIOUS
  <2> HIDE DEF A
  <2>3. Cardinality(A \cup {b}) = 2
    <3>1. Cardinality(A \cup {b})
            = IF b \in A THEN Cardinality(A) ELSE Cardinality(A) + 1
      BY <2>1, FS_AddElement
    <3> QED
      BY <2>1, <2>2, <3>1
  <2>4. A \cup {b} = {a, b}
    BY DEF A
  <2> QED
    BY <2>3, <2>4
<1>4. b \in Two
  <2>1. b \in DOMAIN data /\ data[b] = SP
    BY <1>1
  <2> QED
    BY <1>2, <1>3, <2>1 DEF Occurrences
<1>5. ASSUME NEW q \in Two PROVE q = b
  <2>1. q \in 1..Len(data) /\ data[q] = SP /\ Cardinality(Upto(data, q)) = 2
    BY <1>1 DEF Occurrences
  <2>2. CASE q < b
    <3>1. Upto(data, q) = {a}
      BY <1>1, <2>1, <2>2, UptoIs
    <3>2. Cardinality(Upto(data, q)) = 1
      BY <3>1, FS_Singleton
    <3> QED
      BY <2>1, <3>2
  <2>3. CASE b < q
    <3>1. IsFiniteSet(Upto(data, q)) /\ {a, b} \subseteq Upto(data, q) \ {q}
          /\ q \in Upto(data, q)
      BY <1>1, <2>1, <2>3, UptoIs
    <3>2. /\ IsFiniteSet(Upto(data, q) \ {q})
          /\ Cardinality(Upto(data, q) \ {q}) = 1
      BY <2>1, <3>1, FS_RemoveElement
    <3>3. Cardinality({a, b}) <= Cardinality(Upto(data, q) \ {q})
      BY <3>1, <3>2, FS_Subset
    <3> QED
      BY <1>3, <3>2, <3>3
  <2> QED
    BY <1>1, <2>1, <2>2, <2>3
<1>6. Two = {b}
  BY <1>4, <1>5
<1>7. FindNthSpace(data, 2) = Min({Len(data), b})
  <2> HIDE DEF Two
  <2>1. {Len(data)} \cup Two = {Len(data), b}
    BY <1>6
  <2> QED
    BY <2>1 DEF FindNthSpace, Two
<1>8. /\ Min({Len(data), b}) \in {Len(data), b}
      /\ \A y \in {Len(data), b} : Min({Len(data), b}) <= y
  <2>1. {Len(data), b} \in SUBSET Nat /\ {Len(data), b} # {}
    BY <1>1
  <2> QED
    BY <2>1, MinOfNats
<1> DEFINE least == Min({Len(data), b})
<1> HIDE DEF least
<1>9. least = b
  BY <1>1, <1>8 DEF least
<1> QED
  BY <1>7, <1>9 DEF least

(* The version behind the second space of a request is the one in its      *)
(* request line.                                                           *)
LEMMA DispatchedRight ==
  ASSUME NEW s \in String, Len(s) <= MaxString,
         NEW r, NEW c \in 1..Len(s), Decode(s) = Parsed(r, c),
         NEW data, Arrived(data, s), Len(data) = c
  PROVE  FindHttpVersion(data) = {r.version}
<1>1. /\ Len(s) \in Nat /\ data \in String /\ DOMAIN data = 1..c
      /\ \A i \in 1..c : data[i] = s[i] /\ data[i] \in Octet
  BY DEF Arrived, String
<1>2. r.version = HTTP_1_0
  BY RequestLineOfDecoded
<1>3. PICK p \in 1..c : ~BadRequestLine(SubSeq(s, 1, p - 1))
  BY RequestLineOfDecoded
<1> DEFINE line == SubSeq(s, 1, p - 1)
           spaces == Occurrences(SP, line)
<1>4. /\ line \in Seq(Octet) /\ Len(line) = p - 1 /\ DOMAIN line = 1..(p - 1)
      /\ \A i \in 1..(p - 1) : line[i] = data[i]
  <2>1. \A i \in 1..(p - 1) : s[i] \in Octet
    BY <1>1
  <2>2. /\ line \in Seq(Octet)
        /\ Len(line) = IF 1 <= p - 1 THEN p - 1 - 1 + 1 ELSE 0
        /\ \A i \in 1..(p - 1 - 1 + 1) : line[i] = s[1 + i - 1]
    BY <2>1, SubSeqProperties
  <2> HIDE DEF line
  <2> QED
    BY <1>1, <2>2
<1>5. Cardinality(spaces) = 2 /\ VersionPart(line) = VersionToken(RequestVersion)
  BY <1>3 DEF BadRequestLine
<1> HIDE DEF line
<1>6. spaces \in SUBSET (1..(p - 1)) /\ p - 1 \in Nat
  BY <1>4 DEF Occurrences
<1>7. PICK a \in spaces, b \in spaces : a < b /\ spaces = {a, b} /\ Max(spaces) = b
  <2> HIDE DEF spaces
  <2> QED
    BY <1>5, <1>6, TwoPositions
<1>8. /\ a \in 1..(p - 1) /\ b \in 1..(p - 1)
      /\ \A i \in 1..(p - 1) : data[i] = SP <=> i \in {a, b}
  BY <1>4, <1>6, <1>7 DEF Occurrences
<1>9. SubSeq(line, b + 1, p - 1) = <<"HTTP/1.0">>
  <2>1. VersionToken(RequestVersion) = <<"HTTP/1.0">>
    <3>1. VersionName[1] = "HTTP/1.0" /\ 0 + 1 = 1
      BY DEF VersionName
    <3> QED
      BY <3>1 DEF VersionToken, RequestVersion, HTTP_1_0
  <2>2. VersionPart(line) = SubSeq(line, b + 1, p - 1)
    BY <1>4, <1>7 DEF VersionPart
  <2> QED
    BY <1>5, <2>1, <2>2
<1>10. b + 1 = p - 1 /\ line[p - 1] = "HTTP/1.0"
  <2>1. b + 1 \in Int /\ p - 1 \in Int /\ \A i \in (b + 1)..(p - 1) : line[i] \in Octet
    BY <1>4, <1>8
  <2>2. /\ Len(SubSeq(line, b + 1, p - 1))
             = IF b + 1 <= p - 1 THEN p - 1 - (b + 1) + 1 ELSE 0
        /\ \A i \in 1..(p - 1 - (b + 1) + 1) :
             SubSeq(line, b + 1, p - 1)[i] = line[b + 1 + i - 1]
    BY <2>1, SubSeqProperties
  <2>3. Len(<<"HTTP/1.0">>) = 1 /\ <<"HTTP/1.0">>[1] = "HTTP/1.0"
    OBVIOUS
  <2>4. b + 1 = p - 1
    BY <1>8, <1>9, <2>2, <2>3
  <2>5. SubSeq(line, b + 1, p - 1)[1] = line[p - 1]
    BY <1>8, <2>2, <2>4
  <2> QED
    BY <1>9, <2>3, <2>4, <2>5
<1>11. FindNthSpace(data, 2) = b
  <2>1. /\ a \in 1..Len(data) /\ b \in 1..Len(data)
        /\ \A i \in 1..b : data[i] = SP <=> i \in {a, b}
    BY <1>8
  <2> QED
    BY <1>1, <1>7, <2>1, SecondSpace
<1>12. SubSeq(data, b + 1, b + 1) = <<"HTTP/1.0">>
  <2> DEFINE n == b + 1
  <2>1. n \in 1..c /\ n \in Int /\ data[n] = "HTTP/1.0"
    BY <1>4, <1>8, <1>10
  <2>2. \A i \in n..n : data[i] \in Octet
    BY <1>1, <2>1
  <2> HIDE DEF n
  <2>3. /\ SubSeq(data, n, n) \in Seq(Octet)
        /\ Len(SubSeq(data, n, n)) = IF n <= n THEN n - n + 1 ELSE 0
        /\ \A i \in 1..(n - n + 1) : SubSeq(data, n, n)[i] = data[n + i - 1]
    BY <2>1, <2>2, SubSeqProperties
  <2> DEFINE word == SubSeq(data, n, n)
  <2> HIDE DEF word
  <2>4. word \in Seq(Octet) /\ Len(word) = 1 /\ word[1] = "HTTP/1.0"
    <3>1. n - n + 1 = 1 /\ n + 1 - 1 = n /\ n <= n
      BY <2>1
    <3> QED
      BY <2>1, <2>3, <3>1 DEF word
  <2>5. word = <<"HTTP/1.0">>
    BY <2>4
  <2> QED
    BY <2>5 DEF word, n
<1>13. /\ \A v \in Enabled : v \in {0, 1, 2, 3}
       /\ HTTP_1_0 \in Enabled
  BY EnabledAssumption, DispatchAssumption
  DEF HttpVersion, HTTP_1_0, HTTP_3_0
<1>14. ASSUME NEW v \in {0, 1, 2, 3}
       PROVE  <<"HTTP/1.0">> = VersionToken(v) <=> v = 0
  <2>1. VersionName[1] = "HTTP/1.0" /\ VersionName[2] = "HTTP/1.1"
        /\ VersionName[3] = "HTTP/2.0" /\ VersionName[4] = "HTTP/3.0"
    BY DEF VersionName
  <2>2. <<"HTTP/1.0">>[1] = "HTTP/1.0" /\ VersionToken(v)[1] = VersionName[v + 1]
    BY DEF VersionToken
  <2>3. v = 0 => VersionToken(v) = <<"HTTP/1.0">>
    BY <2>1 DEF VersionToken
  <2>4. v # 0 => VersionName[v + 1] # "HTTP/1.0"
    BY <2>1
  <2> QED
    BY <2>2, <2>3, <2>4
<1>15. FindHttpVersion(data) = {v \in Enabled : <<"HTTP/1.0">> = VersionToken(v)}
  BY <1>11, <1>12 DEF FindHttpVersion
<1> QED
  BY <1>2, <1>13, <1>14, <1>15 DEF HTTP_1_0

(* findHttpVersion and decodeHttp10Request read the same version in every  *)
(* request that the parser of Http10Parser.cpp accepts, whether the queue  *)
(* got it or a failed push_back lost it.                                   *)
THEOREM SameVersion == Spec => []VersionsAgree
<1> DEFINE Inv == BufferInv /\ VersionsAgree
<1>1. Init => Inv
  BY InitBufferInv DEF Init, VersionsAgree
<1>2. Inv /\ [Next]_vars => Inv'
  <2> SUFFICES ASSUME BufferInv, VersionsAgree, [Next]_vars
               PROVE  VersionsAgree'
    BY NextKeepsBufferInv
  <2> DEFINE r == Decode(buffer_).request
             c == Decode(buffer_).consumed
  <2>1. ASSUME NEW o, DrainRequest \/ PushFails,
               Grown(heap, heap', Object(r, parsed, c, o), parsed')
        PROVE  VersionsAgree'
    <3>1. /\ c \in 1..Len(buffer_) /\ Decode(buffer_) = Parsed(r, c)
          /\ parsed + c \in parsed..fed
      BY <2>1, RequestFits DEF DrainRequest, PushFails
    <3>2. /\ wire \in String /\ Len(wire) \in Nat /\ Len(wire) <= MaxString
          /\ parsed \in Nat /\ fed \in parsed..Len(wire)
          /\ buffer_ = Slice(wire, parsed, fed) /\ buffer_ \in String
          /\ Len(buffer_) = fed - parsed
      BY <2>1, BufferFacts DEF DrainRequest, PushFails
    <3> HIDE DEF r, c
    <3>3. /\ Arrived(Slice(wire, parsed, parsed + c), buffer_)
          /\ Len(Slice(wire, parsed, parsed + c)) = c
      <4> SUFFICES ASSUME NEW m, m = parsed + c
                   PROVE  /\ Arrived(Slice(wire, parsed, m), buffer_)
                          /\ Len(Slice(wire, parsed, m)) = c
        OBVIOUS
      <4>1. m \in parsed..Len(wire) /\ fed \in m..Len(wire) /\ m - parsed = c
        BY <3>1, <3>2
      <4>2. Arrived(Slice(wire, parsed, m), Slice(wire, parsed, fed))
        BY <3>2, <4>1, SliceArrives
      <4>3. Arrived(Slice(wire, parsed, m), buffer_)
        BY <3>2, <4>2, Zenon
      <4>4. Len(Slice(wire, parsed, m)) = m - parsed
        BY <3>2, <4>1, SliceProperties
      <4> QED
        BY <4>1, <4>3, <4>4
    <3>4. FindHttpVersion(Slice(wire, parsed, parsed + c)) = {r.version}
      <4>1. Len(buffer_) <= MaxString
        BY <3>2, SizeAssumption
      <4> QED
        BY <3>1, <3>2, <3>3, <4>1, DispatchedRight
    <3>5. wire' = wire
      BY <2>1 DEF DrainRequest, PushFails
    <3>6. ASSUME NEW i \in DOMAIN heap'
          PROVE  FindHttpVersion(OctetsOf(i)') = {heap'[i].request.version}
      <4>1. CASE i \in DOMAIN heap
        <5>1. heap'[i] = heap[i]
          BY <2>1, <4>1 DEF Grown
        <5>2. OctetsOf(i)' = OctetsOf(i)
          BY <3>5, <5>1 DEF OctetsOf, EndOf
        <5> QED
          BY <4>1, <5>1, <5>2 DEF VersionsAgree
      <4>2. CASE i \notin DOMAIN heap
        <5>1. heap'[i] = Object(r, parsed, c, o)
          <6>1. /\ Len(heap) \in Nat /\ DOMAIN heap = 1..Len(heap)
                /\ DOMAIN heap' = 1..Len(heap') /\ Len(heap') = Len(heap) + 1
                /\ heap'[Len(heap) + 1] = Object(r, parsed, c, o)
            BY <2>1, LenProperties DEF Grown, BufferInv, TypeOK
          <6> QED
            BY <4>2, <6>1
        <5>2. OctetsOf(i)' = Slice(wire, parsed, parsed + c)
          <6>1. OctetsOf(i)' = SubSeq(wire', heap'[i].at + 1,
                                      heap'[i].at + heap'[i].size)
            BY DEF OctetsOf, EndOf
          <6>2. heap'[i].at = parsed /\ heap'[i].size = c
            BY <5>1 DEF Object
          <6> QED
            BY <3>5, <6>1, <6>2 DEF Slice
        <5> QED
          BY <3>4, <5>1, <5>2 DEF Object
      <4> QED
        BY <4>1, <4>2
    <3> QED
      BY <3>6 DEF VersionsAgree
  <2>2. CASE DrainRequest
    BY <2>1, <2>2, DrainRequestGrows
  <2>3. CASE PushFails
    <3>1. parsed' = parsed
      BY <2>3 DEF PushFails
    <3> QED
      BY <2>1, <2>3, <3>1, PushFailsGrows
  <2>4. CASE ~DrainRequest /\ ~PushFails
    <3>1. LogUntouched
      BY <2>4, OthersLeaveTheLog
    <3>2. DOMAIN heap' = DOMAIN heap
      <4>1. CASE \/ NextRequest
                 \/ \E i \in DOMAIN heap : DeleteRequest(i)
                 \/ Destroy
        BY <4>1, OwnersChange DEF ChangedHands
      <4>2. CASE \/ \E n \in 1..(Len(wire) - fed) : Feed(n)
                 \/ FeedFails \/ DrainDone \/ DrainThrows \/ DecodeFails
                 \/ UNCHANGED vars
        BY <4>2 DEF Feed, FeedFails, DrainDone, DrainThrows, DecodeFails, vars
      <4> QED
        BY <2>4, <4>1, <4>2 DEF Next, Drain
    <3> QED
      BY <3>1, <3>2 DEF LogUntouched, VersionsAgree, OctetsOf, EndOf
  <2> QED
    BY <2>2, <2>3, <2>4
<1> QED
  BY <1>1, <1>2, PTL DEF Spec

=============================================================================
