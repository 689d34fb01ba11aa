------------------------- MODULE Http10ParserProofs -------------------------
(***************************************************************************)
(* Theorems about Http10Parser, for every wire, every way of cutting it    *)
(* into chunks, every order of calls and any number of failed allocations. *)
(***************************************************************************)
EXTENDS Http10Parser, Http10RequestProofs

-----------------------------------------------------------------------------
(* The heap.                                                               *)

(* g is the heap h with one more object.                                   *)
Grown(h, g, object, end) ==
  /\ g \in Seq(Objects(g, end))
  /\ Len(g) = Len(h) + 1
  /\ g[Len(h) + 1] = object
  /\ DOMAIN h \subseteq DOMAIN g
  /\ \A i \in DOMAIN h : g[i] = h[i]

(* Allocating an object keeps the heap a sequence of objects.              *)
LEMMA HeapGrows ==
  ASSUME NEW h, NEW p \in Nat, NEW q \in Nat, p <= q, h \in Seq(Objects(h, p)),
         NEW r, NEW a \in 0..q, NEW z \in Nat \ {0}, NEW o \in Owners,
         NEW g, g = Append(h, Object(r, a, z, o))
  PROVE  Grown(h, g, Object(r, a, z, o), q)
<1> DEFINE e == Object(r, a, z, o)
           R == {h[i].request : i \in DOMAIN h} \cup {r}
           S == [request : R, at : 0..q, size : Nat \ {0}, owner : Owners]
<1>1. Objects(h, p) \subseteq S
  <2>1. 0..p \subseteq 0..q /\ {h[i].request : i \in DOMAIN h} \subseteq R
    OBVIOUS
  <2> DEFINE Q == {h[i].request : i \in DOMAIN h}
  <2> HIDE DEF R, Q
  <2>2. [request : Q, at : 0..p, size : Nat \ {0}, owner : Owners] \subseteq S
    BY <2>1 DEF Q
  <2> QED
    BY <2>2 DEF Objects, Q
<1>2. h \in Seq(S)
  <2> HIDE DEF S
  <2> QED
    BY <1>1, SeqMonotonic
<1>3. e \in S
  BY DEF Object
<1>4. /\ g \in Seq(S)
      /\ Len(g) = Len(h) + 1
      /\ \A i \in 1..Len(h) : g[i] = h[i]
      /\ g[Len(h) + 1] = e
  <2>1. g = Append(h, e)
    OBVIOUS
  <2> HIDE DEF S, e
  <2> QED
    BY <1>2, <1>3, <2>1, AppendProperties
<1>5. /\ Len(h) \in Nat /\ DOMAIN h = 1..Len(h)
      /\ DOMAIN g = 1..Len(g)
  <2> HIDE DEF S
  <2> QED
    BY <1>2, <1>4, LenProperties
<1>6. R \subseteq {g[i].request : i \in DOMAIN g}
  <2>1. e.request = r
    BY DEF Object
  <2>2. \A i \in DOMAIN h : i \in DOMAIN g /\ g[i].request = h[i].request
    BY <1>4, <1>5
  <2>3. Len(h) + 1 \in DOMAIN g
    BY <1>4, <1>5
  <2> HIDE DEF e
  <2> QED
    BY <1>4, <2>1, <2>2, <2>3
<1>7. S \subseteq Objects(g, q)
  <2> HIDE DEF R
  <2> QED
    BY <1>6 DEF Objects
<1>8. g \in Seq(Objects(g, q))
  <2> HIDE DEF S
  <2> QED
    BY <1>4, <1>7, SeqMonotonic
<1> QED
  BY <1>4, <1>5, <1>8 DEF Grown

(* g is the heap h, some of whose objects have another owner.              *)
ChangedHands(h, g, owner, end) ==
  /\ g \in Seq(Objects(g, end))
  /\ DOMAIN g = DOMAIN h /\ Len(g) = Len(h)
  /\ \A i \in DOMAIN h : /\ g[i].request = h[i].request
                         /\ g[i].at = h[i].at
                         /\ g[i].size = h[i].size
                         /\ g[i].owner = owner[i]

(* Giving objects to other owners keeps the heap a sequence of objects.    *)
LEMMA HeapChangesHands ==
  ASSUME NEW h, NEW p \in Nat, h \in Seq(Objects(h, p)), NEW g,
         NEW owner \in [DOMAIN h -> Owners],
         g = [i \in DOMAIN h |-> [h[i] EXCEPT !.owner = owner[i]]]
  PROVE  ChangedHands(h, g, owner, p)
<1>1. Len(h) \in Nat /\ DOMAIN h = 1..Len(h)
  BY LenProperties
<1>2. \A i \in DOMAIN h : h[i] \in Objects(h, p)
  BY <1>1, ElementOfSeq
<1>3. \A i \in DOMAIN h : /\ g[i].request = h[i].request
                          /\ g[i].at = h[i].at
                          /\ g[i].size = h[i].size
                          /\ g[i].owner = owner[i]
  BY <1>2 DEF Objects
<1>4. DOMAIN g = DOMAIN h
  OBVIOUS
<1>5. {g[i].request : i \in DOMAIN g} = {h[i].request : i \in DOMAIN h}
  BY <1>3, <1>4
<1>6. Objects(g, p) = Objects(h, p)
  BY <1>5, Zenon DEF Objects
<1>7. \A i \in DOMAIN h : g[i] \in Objects(h, p)
  BY <1>2 DEF Objects
<1>8. g \in [1..Len(h) -> Objects(h, p)]
  BY <1>1, <1>7
<1>9. g \in Seq(Objects(h, p))
  BY <1>1, <1>8, SeqDef
<1>10. Len(g) = Len(h)
  BY <1>1, <1>4, <1>9, LenProperties
<1> QED
  BY <1>3, <1>4, <1>6, <1>9, <1>10 DEF ChangedHands

-----------------------------------------------------------------------------
(* Slices of the stream: the octets of w after offset a, up to offset b.   *)

Slice(w, a, b) == SubSeq(w, a + 1, b)

(* Which octets a slice has.                                               *)
LEMMA SliceProperties ==
  ASSUME NEW w \in String, NEW a \in Nat, NEW b \in a..Len(w)
  PROVE  /\ Slice(w, a, b) \in String
         /\ Len(Slice(w, a, b)) = b - a
         /\ \A i \in 1..(b - a) : Slice(w, a, b)[i] = w[a + i]
<1> DEFINE m == a + 1
<1>1. Len(w) \in Nat
  BY DEF String
<1>2. m \in Int /\ b \in Int /\ \A i \in m..b : w[i] \in Octet
  BY <1>1 DEF String
<1> HIDE DEF m
<1>3. /\ SubSeq(w, m, b) \in Seq(Octet)
      /\ Len(SubSeq(w, m, b)) = IF m <= b THEN b - m + 1 ELSE 0
      /\ \A i \in 1..(b - m + 1) : SubSeq(w, m, b)[i] = w[m + i - 1]
  BY <1>2, SubSeqProperties
<1> QED
  BY <1>1, <1>3 DEF Slice, String, m

(* Two slices that meet.                                                   *)
LEMMA SlicesMeet ==
  ASSUME NEW w \in String, NEW a \in Nat, NEW b \in a..Len(w),
         NEW c \in b..Len(w)
  PROVE  Slice(w, a, b) \o Slice(w, b, c) = Slice(w, a, c)
<1>1. Len(w) \in Nat /\ w \in Seq(Octet)
  BY DEF String
<1>2. a + 1 \in 1..Len(w) + 1 /\ b \in (a + 1) - 1..Len(w) /\ c \in b..Len(w)
  BY <1>1
<1> DEFINE m == a + 1
<1>3. SubSeq(w, m, b) \o SubSeq(w, b + 1, c) = SubSeq(w, m, c)
  <2>1. m \in 1..Len(w) + 1 /\ b \in m - 1..Len(w) /\ c \in b..Len(w)
    BY <1>2
  <2> HIDE DEF m
  <2> QED
    BY <1>1, <2>1, ConcatAdjacentSubSeq
<1> QED
  BY <1>3 DEF Slice

(* A slice of a slice.                                                     *)
LEMMA SliceOfSlice ==
  ASSUME NEW w \in String, NEW a \in Nat, NEW b \in a..Len(w),
         NEW c \in 0..(b - a)
  PROVE  Slice(Slice(w, a, b), c, b - a) = Slice(w, a + c, b)
<1>1. Len(w) \in Nat
  BY DEF String
<1> DEFINE u == Slice(w, a, b)
           n == b - a
           d == a + c
<1>2. u \in String /\ Len(u) = n /\ \A i \in 1..n : u[i] = w[a + i]
  BY SliceProperties
<1>3. /\ n \in Nat /\ c \in Nat /\ n \in c..n
      /\ d \in Nat /\ b \in d..Len(w)
  BY <1>1
<1> HIDE DEF u, n, d
<1>4. /\ Slice(u, c, n) \in String
      /\ Len(Slice(u, c, n)) = n - c
      /\ \A i \in 1..(n - c) : Slice(u, c, n)[i] = u[c + i]
  BY <1>2, <1>3, SliceProperties
<1>5. /\ Slice(w, d, b) \in String
      /\ Len(Slice(w, d, b)) = b - d
      /\ \A i \in 1..(b - d) : Slice(w, d, b)[i] = w[d + i]
  BY <1>3, SliceProperties
<1>6. Len(Slice(u, c, n)) = Len(Slice(w, d, b))
  BY <1>1, <1>3, <1>4, <1>5 DEF n, d
<1>7. \A i \in 1..Len(Slice(u, c, n)) : Slice(u, c, n)[i] = Slice(w, d, b)[i]
  <2> TAKE i \in 1..Len(Slice(u, c, n))
  <2>1. i \in 1..(n - c) /\ i \in 1..(b - d) /\ c + i \in 1..n
    BY <1>1, <1>3, <1>4 DEF n, d
  <2>2. Slice(u, c, n)[i] = w[a + (c + i)]
    BY <1>2, <1>4, <2>1
  <2>3. Slice(w, d, b)[i] = w[d + i]
    BY <1>5, <2>1
  <2>4. a + (c + i) = d + i
    BY <1>3, <2>1 DEF d
  <2> QED
    BY <2>2, <2>3, <2>4
<1>8. Slice(u, c, n) = Slice(w, d, b)
  BY <1>4, <1>5, <1>6, <1>7, SeqEqual DEF String
<1> QED
  BY <1>8 DEF u, n, d

(* What has arrived of the rest of the stream is a prefix of it.           *)
LEMMA SliceArrives ==
  ASSUME NEW w \in String, NEW a \in Nat, NEW b \in a..Len(w),
         NEW c \in b..Len(w)
  PROVE  Arrived(Slice(w, a, b), Slice(w, a, c))
<1>1. Len(w) \in Nat /\ c \in a..Len(w)
  BY DEF String
<1>2. /\ Slice(w, a, b) \in String /\ Len(Slice(w, a, b)) = b - a
      /\ \A i \in 1..(b - a) : Slice(w, a, b)[i] = w[a + i]
  BY SliceProperties
<1>3. /\ Slice(w, a, c) \in String /\ Len(Slice(w, a, c)) = c - a
      /\ \A i \in 1..(c - a) : Slice(w, a, c)[i] = w[a + i]
  BY <1>1, SliceProperties
<1> QED
  BY <1>1, <1>2, <1>3 DEF Arrived

-----------------------------------------------------------------------------
(* Types and the buffer.  TypeOK is not inductive by itself: that parsed   *)
(* stays within what was fed rests on how long the buffer is.              *)

BufferInv == TypeOK /\ BufferIsUnparsedTail

(* What BufferInv says of the stream and of the buffer, in terms of slices.*)
LEMMA BufferFacts ==
  ASSUME BufferInv
  PROVE  /\ wire \in String /\ Len(wire) \in Nat /\ Len(wire) <= MaxString
         /\ fed \in Nat /\ parsed \in Nat /\ fed \in parsed..Len(wire)
         /\ fed <= Len(wire) /\ parsed <= fed
         /\ pc # "destroyed" =>
              /\ buffer_ = Slice(wire, parsed, fed)
              /\ buffer_ \in String
              /\ Len(buffer_) = fed - parsed
              /\ Len(buffer_) <= MaxString
<1>1. wire \in String /\ Len(wire) \in Nat /\ Len(wire) <= MaxString
  BY ParserAssumption DEF BufferInv, TypeOK, String
<1>2. /\ fed \in Nat /\ parsed \in Nat /\ fed \in parsed..Len(wire)
      /\ fed <= Len(wire) /\ parsed <= fed
  BY <1>1 DEF BufferInv, TypeOK
<1>3. ASSUME pc # "destroyed"
      PROVE  /\ buffer_ = Slice(wire, parsed, fed)
             /\ buffer_ \in String
             /\ Len(buffer_) = fed - parsed
  BY <1>1, <1>2, <1>3, SliceProperties DEF BufferInv, BufferIsUnparsedTail, Slice
<1>4. MaxString \in Nat
  BY SizeAssumption
<1> QED
  BY <1>1, <1>2, <1>3, <1>4

(* What a decode of the buffer says, and that it says it of the stream.    *)
LEMMA BufferDecodes ==
  ASSUME BufferInv, pc # "destroyed"
  PROVE  /\ \/ Decode(buffer_) = Incomplete
            \/ \E e \in Exceptions : Decode(buffer_) = Throws(e)
            \/ \E r, c : c \in 1..Len(buffer_) /\ Decode(buffer_) = Parsed(r, c)
         /\ Decode(buffer_).outcome # "incomplete" =>
              WholeDecode(parsed) = Decode(buffer_)
<1>1. buffer_ \in String /\ Len(buffer_) <= MaxString
  BY BufferFacts
<1> DEFINE rest == Slice(wire, parsed, Len(wire))
<1>2. Arrived(buffer_, rest)
  BY BufferFacts, SliceArrives
<1>3. Len(rest) <= MaxString
  <2>1. /\ wire \in String /\ parsed \in Nat /\ Len(wire) \in parsed..Len(wire)
        /\ Len(wire) <= MaxString
    BY BufferFacts
  <2>2. Len(rest) = Len(wire) - parsed
    BY <2>1, SliceProperties
  <2> QED
    BY <2>1, <2>2, SizeAssumption
<1>4. Decode(buffer_).outcome # "incomplete" => Decode(rest) = Decode(buffer_)
  <2> HIDE DEF rest
  <2> QED
    BY <1>2, <1>3, DecodeStable
<1> QED
  BY <1>1, <1>4, DecodeCases DEF WholeDecode, Slice

(* A request in the buffer lies within it.                                 *)
LEMMA RequestFits ==
  ASSUME BufferInv, pc = "draining", Decode(buffer_).outcome = "request"
  PROVE  /\ Decode(buffer_).consumed \in 1..Len(buffer_)
         /\ Decode(buffer_)
              = Parsed(Decode(buffer_).request, Decode(buffer_).consumed)
         /\ WholeDecode(parsed) = Decode(buffer_)
         /\ parsed + Decode(buffer_).consumed \in parsed..fed
<1>1. /\ Decode(buffer_) # Incomplete
      /\ \A e \in Exceptions : Decode(buffer_) # Throws(e)
  BY DEF Incomplete, Throws, Exceptions
<1>2. PICK r, c : c \in 1..Len(buffer_) /\ Decode(buffer_) = Parsed(r, c)
  BY <1>1, BufferDecodes
<1>3. Decode(buffer_).consumed = c /\ Decode(buffer_).request = r
  BY <1>2 DEF Parsed
<1>4. /\ fed \in Nat /\ parsed \in Nat /\ parsed <= fed
      /\ Len(buffer_) = fed - parsed
  BY BufferFacts
<1> QED
  BY <1>2, <1>3, <1>4, BufferDecodes

(* The invariant holds of a new parser.                                    *)
LEMMA InitBufferInv == Init => BufferInv
<1> SUFFICES ASSUME Init PROVE BufferInv
  OBVIOUS
<1>1. Len(wire) \in Nat
  BY ParserAssumption DEF Init
<1>2. \A S : <<>> \in Seq(S)
  BY EmptySeq
<1>3. TypeOK
  BY <1>1, <1>2, ParserAssumption DEF Init, TypeOK
<1>4. BufferIsUnparsedTail
  BY SubSeqEmpty DEF Init, BufferIsUnparsedTail
<1> QED
  BY <1>3, <1>4 DEF BufferInv

(* One lemma per kind of step: octets come in, a request is made, objects  *)
(* change hands, and the steps that only move the program counter.         *)
LEMMA FeedKeepsBufferInv ==
  ASSUME BufferInv, NEW n \in 1..(Len(wire) - fed), Feed(n)
  PROVE  BufferInv'
<1>1. /\ wire \in String /\ Len(wire) \in Nat /\ fed \in Nat /\ parsed \in Nat
      /\ fed \in parsed..Len(wire) /\ parsed <= fed
      /\ pc # "destroyed" /\ buffer_ = Slice(wire, parsed, fed)
  BY BufferFacts DEF Feed
<1> DEFINE m == fed + n
<1>2. m \in fed..Len(wire) /\ m \in parsed..Len(wire) /\ m \in Nat
  BY <1>1
<1>3. fed' = m /\ wire' = wire /\ parsed' = parsed
  BY DEF Feed
<1>4. buffer_' = buffer_ \o Slice(wire, fed, m)
  BY DEF Feed, Slice
<1> HIDE DEF m
<1>5. buffer_' = Slice(wire, parsed, m)
  BY <1>1, <1>2, <1>4, SlicesMeet
<1>6. buffer_' \in Seq(Octet)
  BY <1>1, <1>2, <1>5, SliceProperties DEF String
<1>7. TypeOK'
  BY <1>1, <1>2, <1>3, <1>6 DEF Feed, BufferInv, TypeOK
<1>8. BufferIsUnparsedTail'
  BY <1>3, <1>5 DEF BufferIsUnparsedTail, Slice
<1> QED
  BY <1>7, <1>8 DEF BufferInv

(* A request leaves the buffer and enters the heap, the queue and the log. *)
LEMMA DrainRequestKeepsBufferInv ==
  ASSUME BufferInv, DrainRequest
  PROVE  BufferInv'
<1> DEFINE r == Decode(buffer_).request
           c == Decode(buffer_).consumed
           new == Len(heap) + 1
           end == parsed + c
           g == Append(heap, Object(r, parsed, c, "queue"))
<1>1. /\ wire \in String /\ Len(wire) \in Nat /\ fed \in Nat /\ parsed \in Nat
      /\ fed \in parsed..Len(wire) /\ parsed <= fed
      /\ pc # "destroyed" /\ buffer_ = Slice(wire, parsed, fed)
      /\ Len(buffer_) = fed - parsed
  BY BufferFacts DEF DrainRequest
<1>2. c \in 1..Len(buffer_) /\ end \in parsed..fed
  BY RequestFits DEF DrainRequest
<1>3. /\ heap' = g
      /\ requests_' = Append(requests_, new)
      /\ log' = Append(log, new)
      /\ buffer_' = Slice(buffer_, c, Len(buffer_))
      /\ parsed' = end
      /\ UNCHANGED <<wire, fed, pc, thrown, faults>>
  BY DEF DrainRequest, Erased, Slice
<1>4. /\ end \in Nat /\ parsed <= end /\ parsed \in 0..end /\ c \in Nat \ {0}
      /\ end \in 0..fed /\ fed \in end..Len(wire) /\ c \in 0..(fed - parsed)
  BY <1>1, <1>2
<1>5. buffer_' = Slice(wire, end, fed)
  <2> HIDE DEF c
  <2> QED
    BY <1>1, <1>3, <1>4, SliceOfSlice
<1>6. buffer_' \in Seq(Octet)
  <2> HIDE DEF end
  <2> QED
    BY <1>1, <1>4, <1>5, SliceProperties DEF String
<1>7. /\ heap \in Seq(Objects(heap, parsed))
      /\ requests_ \in Seq(DOMAIN heap) /\ log \in Seq(DOMAIN heap)
      /\ "queue" \in Owners
  BY DEF BufferInv, TypeOK, Owners
<1>8. /\ g \in Seq(Objects(g, end))
      /\ Len(g) = Len(heap) + 1
      /\ DOMAIN heap \subseteq DOMAIN g
  <2>1. g = Append(heap, Object(r, parsed, c, "queue"))
    OBVIOUS
  <2>2. /\ parsed \in Nat /\ end \in Nat /\ parsed <= end
        /\ parsed \in 0..end /\ c \in Nat \ {0} /\ "queue" \in Owners
        /\ heap \in Seq(Objects(heap, parsed))
    BY <1>1, <1>4, <1>7
  <2>3. Grown(heap, g, Object(r, parsed, c, "queue"), end)
    <3> HIDE DEF r, c, end, g
    <3> QED
      BY <2>1, <2>2, HeapGrows, Zenon
  <2> HIDE DEF r, c, end, g
  <2> QED
    BY <2>3 DEF Grown
<1>9. new \in DOMAIN g
  <2>1. Len(heap) \in Nat /\ DOMAIN g = 1..Len(g)
    <3> HIDE DEF g
    <3> QED
      BY <1>7, <1>8, LenProperties
  <2> QED
    BY <1>8, <2>1
<1>10. requests_' \in Seq(DOMAIN heap') /\ log' \in Seq(DOMAIN heap')
  <2> HIDE DEF g, new
  <2>1. requests_ \in Seq(DOMAIN g) /\ log \in Seq(DOMAIN g)
    BY <1>7, <1>8, SeqMonotonic
  <2> QED
    BY <1>3, <1>9, <2>1, AppendProperties
<1>11. heap' \in Seq(Objects(heap', parsed'))
  <2> HIDE DEF g, end
  <2> QED
    BY <1>3, <1>8
<1>12. TypeOK'
  <2> HIDE DEF g, c, end, new
  <2> QED
    BY <1>3, <1>4, <1>6, <1>10, <1>11 DEF BufferInv, TypeOK
<1>13. BufferIsUnparsedTail'
  <2> HIDE DEF g, c, end, new
  <2> QED
    BY <1>3, <1>5 DEF BufferIsUnparsedTail, Slice
<1> QED
  BY <1>12, <1>13 DEF BufferInv

(* A request that could not be queued enters the heap only.                *)
LEMMA PushFailsKeepsBufferInv ==
  ASSUME BufferInv, PushFails
  PROVE  BufferInv'
<1> DEFINE r == Decode(buffer_).request
           c == Decode(buffer_).consumed
           g == Append(heap, Object(r, parsed, c, "leaked"))
<1>1. c \in Nat \ {0} /\ parsed \in Nat /\ parsed \in 0..parsed
  <2>1. c \in 1..Len(buffer_) /\ Len(buffer_) \in Nat /\ parsed \in Nat
    BY RequestFits, BufferFacts DEF PushFails, String
  <2> QED
    BY <2>1
<1>2. /\ heap \in Seq(Objects(heap, parsed))
      /\ requests_ \in Seq(DOMAIN heap) /\ log \in Seq(DOMAIN heap)
      /\ "leaked" \in Owners
  BY DEF BufferInv, TypeOK, Owners
<1>3. heap' = g /\ UNCHANGED <<wire, fed, buffer_, requests_, parsed, log>>
  BY DEF PushFails
<1>4. /\ g \in Seq(Objects(g, parsed))
      /\ DOMAIN heap \subseteq DOMAIN g
  <2>1. g = Append(heap, Object(r, parsed, c, "leaked")) /\ parsed <= parsed
    BY <1>1
  <2>2. Grown(heap, g, Object(r, parsed, c, "leaked"), parsed)
    <3> HIDE DEF r, c, g
    <3> QED
      BY <1>1, <1>2, <2>1, HeapGrows, Zenon
  <2> HIDE DEF r, c, g
  <2> QED
    BY <2>2 DEF Grown
<1>5. /\ heap' \in Seq(Objects(heap', parsed'))
      /\ requests_' \in Seq(DOMAIN heap') /\ log' \in Seq(DOMAIN heap')
  <2> HIDE DEF g
  <2> QED
    BY <1>2, <1>3, <1>4, SeqMonotonic
<1>6. faults' \in 0..MaxFaults[wire]
  BY ParserAssumption DEF PushFails, BufferInv, TypeOK
<1>7. TypeOK'
  <2> HIDE DEF g
  <2> QED
    BY <1>3, <1>5, <1>6 DEF PushFails, BufferInv, TypeOK
<1>8. BufferIsUnparsedTail'
  BY <1>3 DEF PushFails, BufferInv, BufferIsUnparsedTail
<1> QED
  BY <1>7, <1>8 DEF BufferInv

(* Who owns what after a step that only changes owners.                    *)
LEMMA OwnersChange ==
  ASSUME BufferInv,
         \/ NextRequest
         \/ \E i \in DOMAIN heap : DeleteRequest(i)
         \/ Destroy
  PROVE  \E owner \in [DOMAIN heap -> Owners] :
           ChangedHands(heap, heap', owner, parsed)
<1>1. /\ heap \in Seq(Objects(heap, parsed)) /\ parsed \in Nat
      /\ {"caller", "deleted"} \subseteq Owners
  BY BufferFacts DEF BufferInv, TypeOK, Owners
<1>2. DOMAIN heap = 1..Len(heap) /\ \A i \in DOMAIN heap : heap[i] \in Objects(heap, parsed)
  BY <1>1, LenProperties, ElementOfSeq
<1>3. \A i \in DOMAIN heap : /\ heap[i].owner \in Owners
                             /\ [heap[i] EXCEPT !.owner = heap[i].owner] = heap[i]
  BY <1>2 DEF Objects
<1>4. SUFFICES \E owner \in [DOMAIN heap -> Owners] :
        heap' = [i \in DOMAIN heap |-> [heap[i] EXCEPT !.owner = owner[i]]]
  BY <1>1, HeapChangesHands, Zenon
<1>5. ASSUME NEW i, NEW o \in Owners,
             heap' = [heap EXCEPT ![i].owner = o]
      PROVE  \E owner \in [DOMAIN heap -> Owners] :
               heap' = [j \in DOMAIN heap |-> [heap[j] EXCEPT !.owner = owner[j]]]
  <2> DEFINE owner == [j \in DOMAIN heap |-> IF j = i THEN o ELSE heap[j].owner]
  <2>1. owner \in [DOMAIN heap -> Owners]
    BY <1>3
  <2>2. heap' = [j \in DOMAIN heap |-> [heap[j] EXCEPT !.owner = owner[j]]]
    BY <1>3, <1>5
  <2> QED
    BY <2>1, <2>2
<1>6. CASE NextRequest
  BY <1>1, <1>5, <1>6 DEF NextRequest
<1>7. CASE \E i \in DOMAIN heap : DeleteRequest(i)
  BY <1>1, <1>5, <1>7 DEF DeleteRequest
<1>8. CASE Destroy
  <2> DEFINE owner == [j \in DOMAIN heap |-> IF Queued(j) THEN "deleted"
                                            ELSE heap[j].owner]
  <2>1. owner \in [DOMAIN heap -> Owners]
    BY <1>1, <1>3
  <2>2. heap' = [j \in DOMAIN heap |-> [heap[j] EXCEPT !.owner = owner[j]]]
    BY <1>3, <1>8 DEF Destroy, Cleared
  <2> QED
    BY <2>1, <2>2
<1> QED
  BY <1>6, <1>7, <1>8

(* Objects given away, deleted or destroyed leave the buffer alone.        *)
LEMMA OwnersChangeKeepsBufferInv ==
  ASSUME BufferInv,
         \/ NextRequest
         \/ \E i \in DOMAIN heap : DeleteRequest(i)
         \/ Destroy
  PROVE  BufferInv'
<1>1. PICK owner \in [DOMAIN heap -> Owners] :
        ChangedHands(heap, heap', owner, parsed)
  BY OwnersChange
<1>2. heap' \in Seq(Objects(heap', parsed)) /\ DOMAIN heap' = DOMAIN heap
  BY <1>1 DEF ChangedHands
<1>3. UNCHANGED <<wire, fed, parsed, log, thrown, faults>>
  BY DEF NextRequest, DeleteRequest, Destroy
<1>4. requests_' \in Seq(DOMAIN heap)
  <2>1. requests_ \in Seq(DOMAIN heap)
    BY DEF BufferInv, TypeOK
  <2>2. CASE NextRequest
    BY <2>1, <2>2, HeadTailProperties DEF NextRequest, Popped
  <2>3. CASE \E i \in DOMAIN heap : DeleteRequest(i)
    BY <2>1, <2>3 DEF DeleteRequest
  <2>4. CASE Destroy
    BY <2>4, EmptySeq DEF Destroy
  <2> QED
    BY <2>2, <2>3, <2>4
<1>5. /\ buffer_' \in Seq(Octet)
      /\ pc' \in {"idle", "draining", "destroyed"}
      /\ pc' # "destroyed" => pc # "destroyed" /\ buffer_' = buffer_
  <2>1. buffer_ \in Seq(Octet) /\ pc \in {"idle", "draining", "destroyed"}
    BY DEF BufferInv, TypeOK
  <2> QED
    BY <2>1, EmptySeq DEF NextRequest, DeleteRequest, Destroy
<1>6. TypeOK'
  BY <1>2, <1>3, <1>4, <1>5 DEF BufferInv, TypeOK
<1>7. BufferIsUnparsedTail'
  BY <1>3, <1>5 DEF BufferInv, BufferIsUnparsedTail
<1> QED
  BY <1>6, <1>7 DEF BufferInv

(* No step breaks the invariant.                                           *)
LEMMA NextKeepsBufferInv == BufferInv /\ [Next]_vars => BufferInv'
<1> SUFFICES ASSUME BufferInv, [Next]_vars PROVE BufferInv'
  OBVIOUS
<1>1. CASE \E n \in 1..(Len(wire) - fed) : Feed(n)
  BY <1>1, FeedKeepsBufferInv
<1>2. CASE DrainRequest
  BY <1>2, DrainRequestKeepsBufferInv
<1>3. CASE PushFails
  BY <1>3, PushFailsKeepsBufferInv
<1>4. CASE \/ NextRequest
           \/ \E i \in DOMAIN heap : DeleteRequest(i)
           \/ Destroy
  BY <1>4, OwnersChangeKeepsBufferInv
<1>5. CASE FeedFails \/ DrainDone \/ DrainThrows \/ DecodeFails \/ UNCHANGED vars
  <2>1. /\ UNCHANGED <<wire, fed, buffer_, requests_, heap, parsed, log>>
        /\ pc' \in {"idle", pc}
        /\ thrown' \in {thrown, "bad_alloc"} \cup Exceptions
        /\ faults' \in 0..MaxFaults[wire]
        /\ pc' # "destroyed" => pc # "destroyed"
    BY <1>5, ParserAssumption
    DEF FeedFails, DrainDone, DrainThrows, DecodeFails, vars, BufferInv, TypeOK
  <2>2. TypeOK'
    BY <2>1 DEF BufferInv, TypeOK
  <2>3. BufferIsUnparsedTail'
    BY <2>1 DEF BufferInv, BufferIsUnparsedTail
  <2> QED
    BY <2>2, <2>3 DEF BufferInv
<1> QED
  BY <1>1, <1>2, <1>3, <1>4, <1>5 DEF Next, Drain

(* Every behaviour keeps the variables in their types.                     *)
THEOREM TypeCorrect == Spec => []TypeOK
<1>1. BufferInv => TypeOK
  BY DEF BufferInv
<1> QED
  BY <1>1, InitBufferInv, NextKeepsBufferInv, PTL DEF Spec

(* Whatever was thrown and wherever, the buffer of Http10Parser holds      *)
(* exactly the octets that were fed and not parsed.                        *)
THEOREM BufferCorrect == Spec => []BufferIsUnparsedTail
<1>1. BufferInv => BufferIsUnparsedTail
  BY DEF BufferInv
<1> QED
  BY <1>1, InitBufferInv, NextKeepsBufferInv, PTL DEF Spec

-----------------------------------------------------------------------------
(* Nothing is left behind.                                                 *)

(* A feed that returns normally leaves neither a complete request nor a    *)
(* malformed one in the buffer.                                            *)
THEOREM NothingLeft == Spec => []NothingLeftBehind
<1> DEFINE Inv == BufferInv /\ NothingLeftBehind
<1>1. Init => Inv
  BY InitBufferInv, DecodeEmpty DEF Init, NothingLeftBehind
<1>2. Inv /\ [Next]_vars => Inv'
  <2> SUFFICES ASSUME BufferInv, NothingLeftBehind, [Next]_vars
               PROVE  NothingLeftBehind'
    BY NextKeepsBufferInv
  <2>1. CASE DrainDone
    <3>1. Decode(buffer_) = Incomplete
      BY <2>1, BufferDecodes
      DEF DrainDone, Throws, Parsed, Exceptions
    <3> QED
      BY <2>1, <3>1 DEF DrainDone, NothingLeftBehind
  <2>2. CASE \/ FeedFails \/ DrainThrows \/ DecodeFails \/ PushFails
    BY <2>2
    DEF FeedFails, DrainThrows, DecodeFails, PushFails, NothingLeftBehind,
        Exceptions
  <2>3. CASE \/ \E n \in 1..(Len(wire) - fed) : Feed(n)
             \/ DrainRequest
             \/ Destroy
    BY <2>3 DEF Feed, DrainRequest, Destroy, NothingLeftBehind
  <2>4. CASE \/ NextRequest
             \/ \E i \in DOMAIN heap : DeleteRequest(i)
             \/ UNCHANGED vars
    BY <2>4 DEF NextRequest, DeleteRequest, vars, NothingLeftBehind
  <2> QED
    BY <2>1, <2>2, <2>3, <2>4 DEF Next, Drain
<1>3. Inv => NothingLeftBehind
  OBVIOUS
<1> QED
  BY <1>1, <1>2, <1>3, PTL DEF Spec

-----------------------------------------------------------------------------
(* A malformed stream.                                                     *)

(* Once the buffer makes feed throw it always will: the same exception, and*)
(* no request queued, for every continuation of the stream.                *)
THEOREM ErrorsAreSticky == Spec => ErrorIsSticky
<1> DEFINE Sticky == Decode(buffer_).outcome \in Exceptions /\ pc' # "destroyed"
                       => /\ Decode(buffer_').outcome = Decode(buffer_).outcome
                          /\ log' = log
<1>1. BufferInv /\ BufferInv' /\ [Next]_vars => [Sticky]_vars
  <2> SUFFICES ASSUME BufferInv, BufferInv', [Next]_vars,
                      Decode(buffer_).outcome \in Exceptions,
                      pc' # "destroyed"
               PROVE  /\ Decode(buffer_').outcome = Decode(buffer_).outcome
                      /\ log' = log
    OBVIOUS
  <2>1. CASE \E n \in 1..(Len(wire) - fed) : Feed(n)
    <3>1. PICK n \in 1..(Len(wire) - fed) : Feed(n)
      BY <2>1
    <3>2. /\ wire \in String /\ Len(wire) \in Nat
          /\ parsed \in Nat /\ fed \in Nat /\ fed \in parsed..Len(wire)
          /\ pc # "destroyed" /\ buffer_ = Slice(wire, parsed, fed)
      BY <3>1, BufferFacts DEF Feed
    <3> DEFINE m == fed + n
    <3>3. m \in fed..Len(wire) /\ m \in parsed..Len(wire)
      BY <3>2
    <3>4. buffer_' = Slice(wire, parsed, m)
      BY <3>1 DEF BufferInv, BufferIsUnparsedTail, Feed, Slice
    <3> HIDE DEF m
    <3>5. Arrived(buffer_, buffer_')
      BY <3>2, <3>3, <3>4, SliceArrives
    <3>6. Len(buffer_') <= MaxString
      <4>1. Len(buffer_') = m - parsed /\ Len(wire) <= MaxString
        BY <3>2, <3>3, <3>4, SliceProperties, BufferFacts
      <4> QED
        BY <3>2, <3>3, <4>1, SizeAssumption
    <3>7. Decode(buffer_)' = Decode(buffer_)
      BY <3>5, <3>6, DecodeStable DEF Exceptions
    <3> QED
      BY <3>1, <3>7 DEF Feed
  <2>2. CASE DrainRequest
    BY <2>2 DEF DrainRequest, Exceptions
  <2>3. CASE \/ FeedFails \/ DrainDone \/ DrainThrows \/ DecodeFails
             \/ PushFails \/ NextRequest
             \/ \E i \in DOMAIN heap : DeleteRequest(i)
             \/ UNCHANGED vars
    BY <2>3
    DEF FeedFails, DrainDone, DrainThrows, DecodeFails, PushFails,
        NextRequest, DeleteRequest, vars
  <2>4. CASE Destroy
    BY <2>4 DEF Destroy
  <2> QED
    BY <2>1, <2>2, <2>3, <2>4 DEF Next, Drain
<1> QED
  BY <1>1, InitBufferInv, NextKeepsBufferInv, PTL DEF Spec, ErrorIsSticky

-----------------------------------------------------------------------------
(* Packet boundaries.                                                      *)

(* What a step that queues nothing may do to the heap and the log.         *)
LogUntouched ==
  /\ log' = log /\ parsed' = parsed /\ wire' = wire
  /\ \A i \in DOMAIN heap : /\ heap'[i].request = heap[i].request
                            /\ heap'[i].at = heap[i].at
                            /\ heap'[i].size = heap[i].size

(* A failed push adds one object to the heap and leaves the others.        *)
LEMMA PushFailsGrows ==
  ASSUME BufferInv, PushFails
  PROVE  Grown(heap, heap', Object(Decode(buffer_).request, parsed,
                                   Decode(buffer_).consumed, "leaked"), parsed)
<1> DEFINE r == Decode(buffer_).request
           c == Decode(buffer_).consumed
<1>1. c \in Nat \ {0} /\ parsed \in Nat /\ parsed \in 0..parsed /\ parsed <= parsed
  <2>1. c \in 1..Len(buffer_) /\ Len(buffer_) \in Nat /\ parsed \in Nat
    BY RequestFits, BufferFacts DEF PushFails, String
  <2> QED
    BY <2>1
<1>2. heap \in Seq(Objects(heap, parsed)) /\ "leaked" \in Owners
  BY DEF BufferInv, TypeOK, Owners
<1>3. heap' = Append(heap, Object(r, parsed, c, "leaked"))
  BY DEF PushFails
<1> HIDE DEF r, c
<1> QED
  BY <1>1, <1>2, <1>3, HeapGrows, Zenon DEF r, c

(* So does a request that is queued.                                       *)
LEMMA DrainRequestGrows ==
  ASSUME BufferInv, DrainRequest
  PROVE  Grown(heap, heap', Object(Decode(buffer_).request, parsed,
                                   Decode(buffer_).consumed, "queue"), parsed')
<1> DEFINE r == Decode(buffer_).request
           c == Decode(buffer_).consumed
<1>1. /\ c \in Nat \ {0} /\ parsed \in Nat /\ parsed' \in Nat
      /\ parsed \in 0..parsed' /\ parsed <= parsed'
  <2>1. c \in 1..Len(buffer_) /\ Len(buffer_) \in Nat /\ parsed \in Nat
        /\ parsed' = parsed + c
    BY RequestFits, BufferFacts DEF DrainRequest, String
  <2> QED
    BY <2>1
<1>2. heap \in Seq(Objects(heap, parsed)) /\ "queue" \in Owners
  BY DEF BufferInv, TypeOK, Owners
<1>3. heap' = Append(heap, Object(r, parsed, c, "queue"))
  BY DEF DrainRequest
<1> HIDE DEF r, c
<1> QED
  BY <1>1, <1>2, <1>3, HeapGrows, Zenon DEF r, c

(* All steps but DrainRequest are of this kind.                            *)
LEMMA OthersLeaveTheLog ==
  ASSUME BufferInv, [Next]_vars, ~DrainRequest
  PROVE  LogUntouched
<1>1. CASE PushFails
  <2>1. \A i \in DOMAIN heap : heap'[i] = heap[i]
    BY <1>1, PushFailsGrows DEF Grown
  <2> QED
    BY <1>1, <2>1 DEF PushFails, LogUntouched
<1>2. CASE \/ NextRequest
           \/ \E i \in DOMAIN heap : DeleteRequest(i)
           \/ Destroy
  <2>1. \E owner \in [DOMAIN heap -> Owners] :
          ChangedHands(heap, heap', owner, parsed)
    BY <1>2, OwnersChange
  <2>2. UNCHANGED <<wire, parsed, log>>
    BY <1>2 DEF NextRequest, DeleteRequest, Destroy
  <2> QED
    BY <2>1, <2>2 DEF ChangedHands, LogUntouched
<1>3. CASE \/ \E n \in 1..(Len(wire) - fed) : Feed(n)
           \/ FeedFails \/ DrainDone \/ DrainThrows \/ DecodeFails
           \/ UNCHANGED vars
  BY <1>3
  DEF Feed, FeedFails, DrainDone, DrainThrows, DecodeFails, vars, LogUntouched
<1> QED
  BY <1>1, <1>2, <1>3 DEF Next, Drain

(* PacketBoundariesIgnored as a statement about a stream w, a heap h, a log*)
(* l and an offset p.                                                      *)
Rest(w, at) == SubSeq(w, at + 1, Len(w))
EndIn(h, i) == h[i].at + h[i].size
CutLikeTheStream(w, h, l, p) ==
  /\ \A k \in DOMAIN l :
       /\ Decode(Rest(w, h[l[k]].at)) = Parsed(h[l[k]].request, h[l[k]].size)
       /\ h[l[k]].at = IF k = 1 THEN 0 ELSE EndIn(h, l[k - 1])
  /\ p = IF l = <<>> THEN 0 ELSE EndIn(h, l[Len(l)])

(* The property in terms of the parameters of CutLikeTheStream.            *)
LEMMA CutDef == PacketBoundariesIgnored = CutLikeTheStream(wire, heap, log, parsed)
  BY DEF PacketBoundariesIgnored, CutLikeTheStream, WholeDecode, Rest, EndOf, EndIn

(* It depends on the logged objects only.                                  *)
LEMMA CutOfSameObjects ==
  ASSUME NEW w, NEW h, NEW g, NEW D, NEW l \in Seq(D), NEW p,
         \A i \in D : /\ g[i].request = h[i].request
                      /\ g[i].at = h[i].at /\ g[i].size = h[i].size,
         CutLikeTheStream(w, h, l, p)
  PROVE  CutLikeTheStream(w, g, l, p)
<1>1. Len(l) \in Nat /\ DOMAIN l = 1..Len(l) /\ \A k \in DOMAIN l : l[k] \in D
  BY LenProperties, ElementOfSeq
<1>2. \A i \in D : EndIn(g, i) = EndIn(h, i)
  BY DEF EndIn
<1>3. ASSUME NEW k \in DOMAIN l
      PROVE  /\ Decode(Rest(w, g[l[k]].at)) = Parsed(g[l[k]].request, g[l[k]].size)
             /\ g[l[k]].at = IF k = 1 THEN 0 ELSE EndIn(g, l[k - 1])
  <2>1. k # 1 => k - 1 \in DOMAIN l
    BY <1>1
  <2>2. l[k] \in D /\ (k # 1 => l[k - 1] \in D)
    BY <1>1, <2>1
  <2>3. /\ Decode(Rest(w, h[l[k]].at)) = Parsed(h[l[k]].request, h[l[k]].size)
        /\ h[l[k]].at = IF k = 1 THEN 0 ELSE EndIn(h, l[k - 1])
    BY DEF CutLikeTheStream
  <2> QED
    BY <1>2, <2>2, <2>3
<1>4. p = IF l = <<>> THEN 0 ELSE EndIn(g, l[Len(l)])
  <2>1. l # <<>> => l[Len(l)] \in D
    BY <1>1, EmptySeq
  <2> QED
    BY <1>2, <2>1 DEF CutLikeTheStream
<1> QED
  BY <1>3, <1>4 DEF CutLikeTheStream

(* A request decoded where the last one ended extends the cut.             *)
LEMMA CutGrows ==
  ASSUME NEW w, NEW h, NEW l \in Seq(DOMAIN h), NEW p, NEW c, NEW new,
         h[new].at = p, h[new].size = c,
         Decode(Rest(w, p)) = Parsed(h[new].request, c),
         new \in DOMAIN h,
         CutLikeTheStream(w, h, l, p)
  PROVE  CutLikeTheStream(w, h, Append(l, new), p + c)
<1> DEFINE n == Len(l)
           m == Append(l, new)
<1>1. n \in Nat /\ DOMAIN l = 1..n
  BY LenProperties
<1>2. /\ m \in Seq(DOMAIN h) /\ m # <<>>
      /\ Len(m) = n + 1
      /\ \A k \in 1..n : m[k] = l[k]
      /\ m[n + 1] = new
  BY AppendProperties
<1>3. DOMAIN m = 1..(n + 1)
  <2> HIDE DEF m, n
  <2> QED
    BY <1>1, <1>2, LenProperties
<1>4. p = IF n = 0 THEN 0 ELSE EndIn(h, l[n])
  <2>1. l = <<>> <=> n = 0
    BY <1>1, EmptySeq
  <2> QED
    BY <2>1 DEF CutLikeTheStream
<1>5. EndIn(h, new) = p + c
  BY DEF EndIn
<1> HIDE DEF m, n
<1>6. ASSUME NEW k \in DOMAIN m
      PROVE  /\ Decode(Rest(w, h[m[k]].at)) = Parsed(h[m[k]].request, h[m[k]].size)
             /\ h[m[k]].at = IF k = 1 THEN 0 ELSE EndIn(h, m[k - 1])
  <2>1. CASE k = n + 1
    <3>1. m[k] = new /\ (k = 1 <=> n = 0)
      BY <1>1, <1>2, <2>1
    <3>2. n # 0 => k - 1 = n /\ m[n] = l[n]
      BY <1>1, <1>2, <2>1
    <3> QED
      BY <1>4, <3>1, <3>2
  <2>2. CASE k # n + 1
    <3>1. k \in 1..n /\ m[k] = l[k]
      BY <1>1, <1>2, <1>3, <2>2
    <3>2. k # 1 => m[k - 1] = l[k - 1]
      BY <1>1, <1>2, <3>1
    <3>3. /\ Decode(Rest(w, h[l[k]].at)) = Parsed(h[l[k]].request, h[l[k]].size)
          /\ h[l[k]].at = IF k = 1 THEN 0 ELSE EndIn(h, l[k - 1])
      BY <1>1, <3>1 DEF CutLikeTheStream
    <3> QED
      BY <3>1, <3>2, <3>3
  <2> QED
    BY <2>1, <2>2
<1>7. p + c = IF m = <<>> THEN 0 ELSE EndIn(h, m[Len(m)])
  BY <1>2, <1>5
<1>8. CutLikeTheStream(w, h, m, p + c)
  BY <1>6, <1>7 DEF CutLikeTheStream
<1> QED
  BY <1>8 DEF m

(* The requests queued are those that one feed of the whole stream would   *)
(* queue, wherever the stream was cut and whatever failed in between.      *)
THEOREM BoundariesIgnored == Spec => []PacketBoundariesIgnored
<1> DEFINE Inv == BufferInv /\ PacketBoundariesIgnored
<1>1. Init => Inv
  BY InitBufferInv DEF Init, PacketBoundariesIgnored
<1>2. Inv /\ [Next]_vars => Inv'
  <2> SUFFICES ASSUME BufferInv, PacketBoundariesIgnored, [Next]_vars
               PROVE  PacketBoundariesIgnored'
    BY NextKeepsBufferInv
  <2>1. log \in Seq(DOMAIN heap)
    BY DEF BufferInv, TypeOK
  <2>2. CutLikeTheStream(wire, heap, log, parsed)
    BY CutDef
  <2>3. SUFFICES CutLikeTheStream(wire', heap', log', parsed')
    BY DEF PacketBoundariesIgnored, CutLikeTheStream, WholeDecode, Rest, EndOf,
           EndIn
  <2>4. CASE ~DrainRequest
    <3>1. LogUntouched
      BY <2>4, OthersLeaveTheLog
    <3>2. CutLikeTheStream(wire, heap', log, parsed)
      BY <2>1, <2>2, <3>1, CutOfSameObjects DEF LogUntouched
    <3> QED
      BY <3>1, <3>2 DEF LogUntouched
  <2>5. CASE DrainRequest
    <3> DEFINE r == Decode(buffer_).request
               c == Decode(buffer_).consumed
               new == Len(heap) + 1
    <3>1. /\ Grown(heap, heap', Object(r, parsed, c, "queue"), parsed')
          /\ log' = Append(log, new) /\ parsed' = parsed + c /\ wire' = wire
      BY <2>5, DrainRequestGrows DEF DrainRequest
    <3>2. Decode(Rest(wire, parsed)) = Parsed(r, c)
      BY <2>5, RequestFits DEF DrainRequest, WholeDecode, Rest
    <3>3. /\ heap'[new].request = r /\ heap'[new].at = parsed
          /\ heap'[new].size = c
          /\ \A i \in DOMAIN heap : heap'[i] = heap[i]
      BY <3>1 DEF Grown, Object
    <3>4. new \in DOMAIN heap' /\ DOMAIN heap \subseteq DOMAIN heap'
      <4>1. heap' \in Seq(Objects(heap', parsed')) /\ Len(heap') = new
            /\ heap \in Seq(Objects(heap, parsed))
        BY <3>1 DEF Grown, BufferInv, TypeOK
      <4>2. DOMAIN heap' = 1..new /\ Len(heap) \in Nat
        BY <4>1, LenProperties
      <4> QED
        BY <3>1, <4>2 DEF Grown
    <3> HIDE DEF r, c, new
    <3>5. CutLikeTheStream(wire, heap', log, parsed)
      BY <2>1, <2>2, <3>3, CutOfSameObjects
    <3>6. log \in Seq(DOMAIN heap')
      BY <2>1, <3>4, SeqMonotonic
    <3>7. CutLikeTheStream(wire, heap', Append(log, new), parsed + c)
      BY <3>2, <3>3, <3>4, <3>5, <3>6, CutGrows
    <3> QED
      BY <3>1, <3>7
  <2> QED
    BY <2>4, <2>5
<1>3. Inv => PacketBoundariesIgnored
  OBVIOUS
<1> QED
  BY <1>1, <1>2, <1>3, PTL DEF Spec

-----------------------------------------------------------------------------
(* The contract.                                                           *)

(* The requests to which the pointers of q point in h.                     *)
Ready(h, q) == [k \in DOMAIN q |-> h[q[k]].request]

(* The contract sees requests, not their owners.                           *)
LEMMA ReadyOfSameObjects ==
  ASSUME NEW h, NEW g, NEW D, NEW q \in Seq(D),
         \A i \in D : g[i].request = h[i].request
  PROVE  Ready(g, q) = Ready(h, q)
<1>1. \A k \in DOMAIN q : q[k] \in D
  BY LenProperties, ElementOfSeq
<1> QED
  BY <1>1 DEF Ready

(* r lists requests, all in S, one for each pointer of q.                  *)
Lists(r, h, q, S) ==
  /\ r \in Seq(S)
  /\ Len(r) = Len(q)
  /\ \A k \in 1..Len(q) : r[k] = h[q[k]].request

(* The queue as the contract sees it is a sequence.                        *)
LEMMA ReadyType ==
  ASSUME NEW h, NEW D, NEW q \in Seq(D), NEW S, \A i \in D : h[i].request \in S
  PROVE  Lists(Ready(h, q), h, q, S)
<1>1. Len(q) \in Nat /\ DOMAIN q = 1..Len(q) /\ \A k \in DOMAIN q : q[k] \in D
  BY LenProperties, ElementOfSeq
<1>2. Ready(h, q) \in [1..Len(q) -> S]
  BY <1>1 DEF Ready
<1>3. Ready(h, q) \in Seq(S)
  BY <1>1, <1>2, SeqDef
<1>4. DOMAIN Ready(h, q) = 1..Len(q)
  BY <1>1 DEF Ready
<1>5. Len(Ready(h, q)) = Len(q)
  BY <1>1, <1>3, <1>4, LenProperties
<1> QED
  BY <1>1, <1>3, <1>5 DEF Ready, Lists

(* Queueing a new object appends its request to it.                        *)
LEMMA ReadyOfAppend ==
  ASSUME NEW h, NEW D, NEW q \in Seq(D), NEW new \in D
  PROVE  Ready(h, Append(q, new)) = Append(Ready(h, q), h[new].request)
<1> DEFINE S == {h[i].request : i \in D}
           r == Ready(h, q)
<1>1. \A i \in D : h[i].request \in S
  OBVIOUS
<1> HIDE DEF S
<1>2. Lists(r, h, q, S)
  BY <1>1, ReadyType
<1> DEFINE m == Append(q, new)
           t == Append(r, h[new].request)
<1>3. /\ m \in Seq(D) /\ Len(m) = Len(q) + 1 /\ Len(q) \in Nat
      /\ \A k \in 1..Len(q) : m[k] = q[k]
      /\ m[Len(q) + 1] = new
  BY AppendProperties, LenProperties
<1> HIDE DEF m, r
<1>4. Lists(Ready(h, m), h, m, S)
  BY <1>1, <1>3, ReadyType
<1>5. /\ t \in Seq(S) /\ Len(t) = Len(q) + 1
      /\ \A k \in 1..Len(q) : t[k] = r[k]
      /\ t[Len(q) + 1] = h[new].request
  BY <1>1, <1>2, AppendProperties DEF Lists
<1> HIDE DEF t
<1>6. \A k \in 1..Len(t) : Ready(h, m)[k] = t[k]
  BY <1>2, <1>3, <1>4, <1>5 DEF Lists
<1>7. Ready(h, m) = t
  BY <1>3, <1>4, <1>5, <1>6, SeqEqual DEF Lists
<1> QED
  BY <1>7 DEF m, t, r

(* Popping the queue pops it.                                              *)
LEMMA ReadyOfTail ==
  ASSUME NEW h, NEW D, NEW q \in Seq(D), q # <<>>
  PROVE  Ready(h, q) # <<>> /\ Ready(h, Tail(q)) = Tail(Ready(h, q))
<1> DEFINE S == {h[i].request : i \in D}
           m == Tail(q)
           r == Ready(h, q)
           t == Tail(r)
<1>1. \A i \in D : h[i].request \in S
  OBVIOUS
<1> HIDE DEF S
<1>2. /\ m \in Seq(D) /\ Len(m) = Len(q) - 1 /\ Len(q) \in Nat \ {0}
      /\ \A k \in 1..Len(m) : m[k] = q[k + 1]
  BY HeadTailProperties, EmptySeq
<1>3. Lists(r, h, q, S)
  BY <1>1, ReadyType
<1> HIDE DEF m, r
<1>4. Lists(Ready(h, m), h, m, S)
  BY <1>1, <1>2, ReadyType
<1>5. r # <<>>
  BY <1>2, <1>3, EmptySeq DEF Lists
<1>6. /\ t \in Seq(S) /\ Len(t) = Len(r) - 1
      /\ \A k \in 1..Len(t) : t[k] = r[k + 1]
  BY <1>3, <1>5, HeadTailProperties DEF Lists
<1> HIDE DEF t
<1>7. \A k \in 1..Len(t) : Ready(h, m)[k] = t[k]
  <2> TAKE k \in 1..Len(t)
  <2>1. k \in 1..Len(m) /\ k + 1 \in 1..Len(q)
    BY <1>2, <1>3, <1>6 DEF Lists
  <2> QED
    BY <1>2, <1>3, <1>4, <1>6, <2>1 DEF Lists
<1>8. Ready(h, m) = t
  BY <1>2, <1>3, <1>4, <1>6, <1>7, SeqEqual DEF Lists
<1> QED
  BY <1>5, <1>8 DEF m, t, r

(* An empty queue is an empty queue.                                       *)
LEMMA ReadyOfEmpty == \A h : Ready(h, <<>>) = <<>>
  BY DEF Ready

(* Every step of the parser is a step of the contract or invisible to it.  *)
LEMMA StepsImplementContract ==
  ASSUME BufferInv, [Next]_vars
  PROVE  [IParser!ContractNext]_(IParser!contractVars)
<1> DEFINE ready == Ready(heap, requests_)
           ready1 == Ready(heap', requests_')
<1>1. requests_ \in Seq(DOMAIN heap) /\ requests_' \in Seq(DOMAIN heap')
  BY NextKeepsBufferInv DEF BufferInv, TypeOK
<1>2. CASE \E n \in 1..(Len(wire) - fed) : Feed(n)
  <2>1. IParser!Receive
    BY <1>2 DEF Feed, IParser!Receive
  <2> QED
    BY <2>1 DEF IParser!ContractNext
<1>3. CASE DrainRequest
  <2> DEFINE r == Decode(buffer_).request
             c == Decode(buffer_).consumed
             new == Len(heap) + 1
  <2>1. /\ Grown(heap, heap', Object(r, parsed, c, "queue"), parsed')
        /\ requests_' = Append(requests_, new) /\ parsed' = parsed + c
        /\ UNCHANGED <<wire, fed, pc>> /\ pc = "draining"
    BY <1>3, DrainRequestGrows DEF DrainRequest
  <2>2. /\ IParser!WholeDecode(wire, parsed) = Parsed(r, c)
        /\ parsed + c <= fed
    BY <1>3, RequestFits, BufferFacts
    DEF DrainRequest, WholeDecode, IParser!WholeDecode
  <2>3. heap'[new].request = r /\ \A i \in DOMAIN heap : heap'[i] = heap[i]
    BY <2>1 DEF Grown, Object
  <2>4. new \in DOMAIN heap' /\ DOMAIN heap \subseteq DOMAIN heap'
    <3>1. heap' \in Seq(Objects(heap', parsed')) /\ Len(heap') = new
          /\ heap \in Seq(Objects(heap, parsed))
      BY <2>1 DEF Grown, BufferInv, TypeOK
    <3>2. DOMAIN heap' = 1..new /\ Len(heap) \in Nat
      BY <3>1, LenProperties
    <3> QED
      BY <2>1, <3>2 DEF Grown
  <2>5. ready1 = Append(ready, r)
    <3> HIDE DEF r, c, new
    <3>1. requests_ \in Seq(DOMAIN heap')
      BY <1>1, <2>4, SeqMonotonic
    <3>2. ready1 = Append(Ready(heap', requests_), r)
      BY <2>1, <2>3, <2>4, <3>1, ReadyOfAppend
    <3>3. Ready(heap', requests_) = ready
      BY <1>1, <2>3, ReadyOfSameObjects
    <3> QED
      BY <3>2, <3>3
  <2>6. IParser!Complete
    <3> DEFINE next == IParser!WholeDecode(wire, parsed)
    <3>1. next.outcome = "request" /\ next.request = r /\ next.consumed = c
      BY <2>2 DEF Parsed
    <3>2. pc # "destroyed" /\ pc' = pc
      BY <2>1
    <3> HIDE DEF r, c, next
    <3> QED
      BY <2>1, <2>2, <2>5, <3>1, <3>2 DEF IParser!Complete, Ready, next
  <2> QED
    BY <2>6 DEF IParser!ContractNext
<1>4. CASE NextRequest
  <2>1. PICK owner : ChangedHands(heap, heap', owner, parsed)
    BY <1>4, OwnersChange
  <2>2. \A i \in DOMAIN heap : heap'[i].request = heap[i].request
    BY <2>1 DEF ChangedHands
  <2>3. /\ requests_ # <<>> /\ requests_' = Tail(requests_) /\ pc = "idle"
        /\ UNCHANGED <<wire, fed, parsed, pc>>
    BY <1>4 DEF NextRequest, Popped
  <2>4. ready # <<>> /\ Ready(heap, requests_') = Tail(ready)
    BY <1>1, <2>3, ReadyOfTail
  <2>5. requests_' \in Seq(DOMAIN heap)
    BY <1>1, <2>1 DEF ChangedHands
  <2>6. ready1 = Tail(ready)
    BY <2>2, <2>4, <2>5, ReadyOfSameObjects
  <2>7. IParser!Take
    BY <2>3, <2>4, <2>6 DEF IParser!Take, Ready
  <2> QED
    BY <2>7 DEF IParser!ContractNext
<1>5. CASE Destroy
  <2>1. IParser!Close
    BY <1>5, ReadyOfEmpty DEF Destroy, IParser!Close, Ready
  <2> QED
    BY <2>1 DEF IParser!ContractNext
<1>6. CASE \/ FeedFails \/ DrainDone \/ DrainThrows \/ DecodeFails \/ PushFails
           \/ \E i \in DOMAIN heap : DeleteRequest(i)
           \/ UNCHANGED vars
  <2>1. LogUntouched
    <3>1. ~DrainRequest
      BY <1>6
      DEF FeedFails, DrainDone, DrainThrows, DecodeFails, PushFails,
          DeleteRequest, DrainRequest, vars, Exceptions
    <3> QED
      BY <3>1, OthersLeaveTheLog
  <2>2. /\ UNCHANGED <<wire, fed, parsed, requests_>>
        /\ pc' = "destroyed" <=> pc = "destroyed"
    BY <1>6
    DEF FeedFails, DrainDone, DrainThrows, DecodeFails, PushFails,
        DeleteRequest, vars
  <2>3. ready1 = ready
    BY <1>1, <2>1, <2>2, ReadyOfSameObjects DEF LogUntouched
  <2>4. UNCHANGED IParser!contractVars
    BY <2>2, <2>3 DEF IParser!contractVars, Ready
  <2> QED
    BY <2>4
<1> QED
  BY <1>2, <1>3, <1>4, <1>5, <1>6 DEF Next, Drain

(* Http10Parser implements the contract of IHttpParser: every behaviour,   *)
(* seen through the refinement mapping, is one the interface allows.       *)
THEOREM Refinement == Spec => ImplementsContract
<1>1. Init => IParser!ContractInit
  BY ReadyOfEmpty DEF Init, IParser!ContractInit, Ready
<1>2. BufferInv /\ [Next]_vars => [IParser!ContractNext]_(IParser!contractVars)
  BY StepsImplementContract
<1> QED
  BY <1>1, <1>2, InitBufferInv, NextKeepsBufferInv, PTL
  DEF Spec, ImplementsContract, IParser!Contract

-----------------------------------------------------------------------------
(* Declared and decoded bodies.                                            *)

(* The numeral a Content-Length spells is the fold of its digits that      *)
(* ContentLength takes modulo SizeMod.                                     *)
NumeralStep(t, S) ==
  [x \in S \X Nat |-> x[2] * 10 + DigitValue(t[x[1]])]

(* What a step of that fold does.                                          *)
LEMMA NumeralStepIs ==
  ASSUME NEW t, NEW S,
         \A i \in S, v \in Nat : v * 10 + DigitValue(t[i]) \in Nat
  PROVE  /\ NumeralStep(t, S) \in [S \X Nat -> Nat]
         /\ \A i \in S, v \in Nat :
              NumeralStep(t, S)[<<i, v>>] = v * 10 + DigitValue(t[i])
BY DEF NumeralStep

(* The numeral of a well-formed value is the result of the fold.           *)
LEMMA NumeralFolds ==
  ASSUME NEW value \in String, ~BadContentLength(value)
  PROVE  \E f \in [SUBSET DOMAIN Trim(value) -> Nat] :
           /\ Folds(f, DOMAIN Trim(value), 0,
                    NumeralStep(Trim(value), DOMAIN Trim(value)))
           /\ Numeral(value) = f[DOMAIN Trim(value)]
<1> DEFINE t == Trim(value)
           S == DOMAIN t
           n == Len(t)
           Walk(h) == [s \in SUBSET S |->
                         IF s = {} THEN 0
                         ELSE h[s \ {Max(s)}] * 10 + DigitValue(t[Max(s)])]
           step == NumeralStep(t, S)
<1>1. t \in String
  BY TrimIsString DEF Trim
<1>2. n \in Nat /\ S \in SUBSET (1..n)
  <2> HIDE DEF t
  <2> QED
    BY <1>1 DEF String
<1>3. \A i \in S : DigitValue(t[i]) \in Nat
  BY DigitType DEF BadContentLength
<1>4. Numeral(value) = (CHOOSE h : h = Walk(h))[S]
  BY Zenon DEF Numeral, FoldLeft, MapThenFoldSet
<1> HIDE DEF t, S, n
<1>5. \A i \in S, v \in Nat : v * 10 + DigitValue(t[i]) \in Nat
  BY <1>3
<1>6. /\ step \in [S \X Nat -> Nat]
      /\ \A i \in S, v \in Nat : step[<<i, v>>]
                                  = v * 10 + DigitValue(t[i])
  BY <1>5, NumeralStepIs
<1> HIDE DEF step
<1>7. \A i \in S, v \in Nat : step[<<i, v>>] = v * 10 + DigitValue(t[i])
  BY <1>6
<1>8. ASSUME NEW s \in SUBSET S, s # {}
      PROVE  Max(s) \in S /\ s \ {Max(s)} \in SUBSET S
  <2>1. s \in SUBSET (0..n)
    BY <1>2
  <2> QED
    BY <1>2, <1>8, <2>1, MaxOfNats
<1>9. PICK iter \in [SUBSET S -> Nat] : Folds(iter, S, 0, step)
  BY <1>2, <1>6, FoldExists
<1>10. iter = Walk(iter)
  <2>1. \A s \in SUBSET S : iter[s] = Walk(iter)[s]
    <3> TAKE s \in SUBSET S
    <3>1. iter[s] = IF s = {} THEN 0 ELSE step[<<Max(s), iter[s \ {Max(s)}]>>]
      BY <1>9, Zenon DEF Folds
    <3>2. s # {} => step[<<Max(s), iter[s \ {Max(s)}]>>]
                      = iter[s \ {Max(s)}] * 10 + DigitValue(t[Max(s)])
      BY <1>7, <1>8
    <3> QED
      BY <3>1, <3>2
  <2> QED
    BY <2>1
<1> DEFINE other == CHOOSE h : h = Walk(h)
<1>11. other = Walk(other)
  <2> HIDE DEF Walk
  <2> QED
    BY <1>10
<1> HIDE DEF other
<1>12. ASSUME NEW s \in SUBSET S
       PROVE  other[s] = IF s = {} THEN 0
                         ELSE other[s \ {Max(s)}] * 10 + DigitValue(t[Max(s)])
  <2>1. Walk(other)[s]
          = IF s = {} THEN 0
            ELSE other[s \ {Max(s)}] * 10 + DigitValue(t[Max(s)])
    OBVIOUS
  <2> HIDE DEF Walk
  <2> QED
    BY <1>11, <2>1
<1> DEFINE T == {s \in SUBSET S : other[s] \in Nat}
<1>13. {} \in T
  <2>1. {} \in SUBSET S
    OBVIOUS
  <2>2. other[{}] = 0
    BY <1>12, <2>1
  <2> QED
    BY <2>1, <2>2
<1>14. ASSUME NEW s \in SUBSET S, s # {}, s \ {Max(s)} \in T
       PROVE  s \in T
  <2> DEFINE m == Max(s)
             v == other[s \ {m}]
  <2>1. m \in S /\ v \in Nat
    BY <1>8, <1>14
  <2>2. other[s] = v * 10 + DigitValue(t[m])
    BY <1>12, <1>14
  <2> HIDE DEF m, v
  <2>3. other[s] \in Nat
    BY <1>5, <2>1, <2>2
  <2> QED
    BY <2>3
<1>15. SUBSET S \subseteq T
  <2> HIDE DEF T
  <2> QED
    BY <1>2, <1>13, <1>14, SubsetsByInduction
<1>16. other \in [SUBSET S -> Nat]
  <2>1. other = [s \in SUBSET S |-> other[s]]
    BY <1>11
  <2> QED
    BY <1>15, <2>1
<1>17. Folds(other, S, 0, step)
  <2> SUFFICES ASSUME NEW s \in SUBSET S, s # {}
               PROVE  other[s \ {Max(s)}] * 10 + DigitValue(t[Max(s)])
                        = step[<<Max(s), other[s \ {Max(s)}]>>]
    BY <1>12 DEF Folds
  <2>1. Max(s) \in S /\ other[s \ {Max(s)}] \in Nat
    BY <1>8, <1>16
  <2> QED
    BY <1>7, <2>1
<1> QED
  BY <1>4, <1>16, <1>17 DEF other, S, t, step

(* A numeral that size_t can hold is the length the code reads: if the     *)
(* whole number does not wrap, none of its prefixes did.                   *)
LEMMA NumeralFits ==
  ASSUME NEW value \in String, ~BadContentLength(value),
         Numeral(value) < SizeMod
  PROVE  ContentLength(value) = Numeral(value)
<1> DEFINE t == Trim(value)
           S == DOMAIN t
           n == Len(t)
<1>1. n \in Nat /\ S \in SUBSET (1..n)
  <2>1. t \in String
    BY TrimIsString DEF Trim
  <2> HIDE DEF t
  <2> QED
    BY <2>1 DEF String
<1>2. \A i \in S : DigitValue(t[i]) \in Nat
  BY DigitType DEF BadContentLength
<1>3. PICK f \in [SUBSET S -> Nat] : /\ Folds(f, S, 0, LengthStep(t, S))
                                     /\ ContentLength(value) = f[S]
  BY ContentLengthFolds
<1>4. PICK g \in [SUBSET S -> Nat] : /\ Folds(g, S, 0, NumeralStep(t, S))
                                     /\ Numeral(value) = g[S]
  BY NumeralFolds
<1>5. SizeMod \in Nat \ {0}
  BY SizeAssumption
<1> HIDE DEF t, S, n
<1>6. \A i \in S, v \in Nat :
        LengthStep(t, S)[<<i, v>>] = (v * 10 + DigitValue(t[i])) % SizeMod
  <2>1. \A i \in S, v \in Nat : (v * 10 + DigitValue(t[i])) % SizeMod \in Nat
    BY <1>2, <1>5
  <2> QED
    BY <2>1, LengthStepIs
<1>7. \A i \in S, v \in Nat :
        NumeralStep(t, S)[<<i, v>>] = v * 10 + DigitValue(t[i])
  <2>1. \A i \in S, v \in Nat : v * 10 + DigitValue(t[i]) \in Nat
    BY <1>2
  <2> QED
    BY <2>1, NumeralStepIs
<1>8. ASSUME NEW s \in SUBSET S, s # {}
      PROVE  Max(s) \in S /\ s \ {Max(s)} \in SUBSET S
  <2>1. s \in SUBSET (0..n)
    BY <1>1
  <2> QED
    BY <1>1, <1>8, <2>1, MaxOfNats
<1> DEFINE T == {s \in SUBSET S : g[s] < SizeMod => f[s] = g[s]}
<1>9. {} \in T
  <2>1. {} \in SUBSET S /\ f[{}] = 0 /\ g[{}] = 0
    BY <1>3, <1>4 DEF Folds
  <2> QED
    BY <2>1
<1>10. ASSUME NEW s \in SUBSET S, s # {}, s \ {Max(s)} \in T
       PROVE  s \in T
  <2> DEFINE m == Max(s)
             a == f[s \ {m}]
             b == g[s \ {m}]
             d == DigitValue(t[m])
  <2>1. m \in S /\ a \in Nat /\ b \in Nat /\ d \in Nat
    BY <1>2, <1>3, <1>4, <1>8, <1>10
  <2>2. f[s] = (a * 10 + d) % SizeMod
    <3>1. f[s] = LengthStep(t, S)[<<m, a>>]
      BY <1>3, <1>10, Zenon DEF Folds
    <3> QED
      BY <1>6, <2>1, <3>1
  <2>3. g[s] = b * 10 + d
    <3>1. g[s] = NumeralStep(t, S)[<<m, b>>]
      BY <1>4, <1>10, Zenon DEF Folds
    <3> QED
      BY <1>7, <2>1, <3>1
  <2>4. b < SizeMod => a = b
    BY <1>10
  <2> HIDE DEF m, a, b, d
  <2>5. ASSUME g[s] < SizeMod PROVE f[s] = g[s]
    <3>1. b * 10 + d \in Nat /\ b <= b * 10 + d
      BY <2>1
    <3>2. a = b
      BY <1>5, <2>1, <2>3, <2>4, <2>5, <3>1
    <3>3. \A k \in Nat, l \in Nat : k < l => k % l = k
      OBVIOUS
    <3> QED
      BY <1>5, <2>2, <2>3, <2>5, <3>1, <3>2, <3>3
  <2> QED
    BY <2>5
<1>11. SUBSET S \subseteq T
  <2> HIDE DEF T
  <2> QED
    BY <1>1, <1>9, <1>10, SubsetsByInduction
<1>12. g[S] < SizeMod => f[S] = g[S]
  BY <1>11
<1> QED
  BY <1>3, <1>4, <1>12

(* Each request object holds what some buffer was decoded to.              *)
IsDecoded(request) ==
  \E s \in String : /\ Len(s) <= MaxString
                    /\ \E c \in 1..Len(s) : Decode(s) = Parsed(request, c)
RequestsInv == \A i \in DOMAIN heap : IsDecoded(heap[i].request)

(* No step makes a request up or alters one.                               *)
LEMMA NextKeepsRequestsInv ==
  ASSUME BufferInv, RequestsInv, [Next]_vars
  PROVE  RequestsInv'
<1>1. ASSUME NEW o, NEW end,
             pc = "draining", Decode(buffer_).outcome = "request",
             o.request = Decode(buffer_).request,
             Grown(heap, heap', o, end)
      PROVE  RequestsInv'
  <2>1. IsDecoded(o.request)
    BY <1>1, RequestFits, BufferFacts DEF IsDecoded
  <2>2. /\ heap' \in Seq(Objects(heap', end))
        /\ Len(heap') = Len(heap) + 1
        /\ heap'[Len(heap) + 1] = o
        /\ \A i \in DOMAIN heap : heap'[i] = heap[i]
    BY <1>1 DEF Grown
  <2>3. Len(heap) \in Nat /\ DOMAIN heap = 1..Len(heap)
        /\ DOMAIN heap' = 1..(Len(heap) + 1)
    BY <2>2, LenProperties DEF BufferInv, TypeOK
  <2>4. \A i \in DOMAIN heap' : i \in DOMAIN heap \/ i = Len(heap) + 1
    BY <2>3
  <2> QED
    BY <2>1, <2>2, <2>4 DEF RequestsInv
<1>2. CASE DrainRequest
  BY <1>1, <1>2, DrainRequestGrows DEF DrainRequest, Object
<1>3. CASE PushFails
  BY <1>1, <1>3, PushFailsGrows DEF PushFails, Object
<1>4. CASE \/ NextRequest
           \/ \E i \in DOMAIN heap : DeleteRequest(i)
           \/ Destroy
  <2>1. PICK owner : ChangedHands(heap, heap', owner, parsed)
    BY <1>4, OwnersChange
  <2> QED
    BY <2>1 DEF ChangedHands, RequestsInv
<1>5. CASE \/ \E n \in 1..(Len(wire) - fed) : Feed(n)
           \/ FeedFails \/ DrainDone \/ DrainThrows \/ DecodeFails
           \/ UNCHANGED vars
  BY <1>5
  DEF Feed, FeedFails, DrainDone, DrainThrows, DecodeFails, vars, RequestsInv
<1> QED
  BY <1>2, <1>3, <1>4, <1>5 DEF Next, Drain

(* No request declares a body whose length a std::size_t cannot hold.      *)
LengthsFit ==
  \A i \in DOMAIN heap :
    LET declared == HeaderGet(heap[i].request.headers, ContentLengthName)
    IN  declared # None => Numeral(declared[1]) < SizeMod

(* As long as no request declares a length that wraps around, each has     *)
(* exactly the body it declares, of which not an octet was missing when    *)
(* feed queued it.                                                         *)
THEOREM BodyIsDeclared == Spec => [](LengthsFit => BodyIsAsDeclared)
<1> DEFINE Inv == BufferInv /\ RequestsInv
<1>1. Init => Inv
  BY InitBufferInv DEF Init, RequestsInv
<1>2. Inv /\ [Next]_vars => Inv'
  BY NextKeepsBufferInv, NextKeepsRequestsInv
<1>3. Inv => (LengthsFit => BodyIsAsDeclared)
  <2> SUFFICES ASSUME RequestsInv, LengthsFit, NEW i \in DOMAIN heap
               PROVE  LET r == heap[i].request
                          declared == HeaderGet(r.headers, ContentLengthName)
                      IN  IF declared = None THEN r.body = None
                          ELSE /\ r.body # None
                               /\ Len(r.body[1]) = Numeral(declared[1])
    BY DEF BodyIsAsDeclared
  <2> DEFINE r == heap[i].request
             declared == HeaderGet(r.headers, ContentLengthName)
  <2>1. PICK s \in String :
          Len(s) <= MaxString /\ \E c \in 1..Len(s) : Decode(s) = Parsed(r, c)
    BY DEF RequestsInv, IsDecoded
  <2>2. /\ declared = None => r.body = None
        /\ declared # None => /\ declared[1] \in String
                              /\ ~BadContentLength(declared[1])
                              /\ r.body # None
                              /\ Len(r.body[1]) = ContentLength(declared[1])
    BY <2>1, DecodedBody DEF Pieces
  <2>3. declared # None => Numeral(declared[1]) < SizeMod
    BY DEF LengthsFit
  <2> HIDE DEF r
  <2> QED
    BY <2>2, <2>3, NumeralFits DEF r
<1> QED
  BY <1>1, <1>2, <1>3, PTL DEF Spec

(* Each request can be written into a std::string.                         *)
EncodingsFit ==
  \A i \in DOMAIN heap : Len(Encode(heap[i].request)) <= MaxString

(* As long as no queued request has a header without a name, what a        *)
(* request encodes to decodes, completely, to the same request: whatever   *)
(* blanks, colons or line ends cut in half it was read with.               *)
THEOREM EncodingsDecode ==
  Spec => [](HeadersHaveNames /\ EncodingsFit => EncodeRoundTrip)
<1> DEFINE Inv == BufferInv /\ RequestsInv
<1>1. Init => Inv
  BY InitBufferInv DEF Init, RequestsInv
<1>2. Inv /\ [Next]_vars => Inv'
  BY NextKeepsBufferInv, NextKeepsRequestsInv
<1>3. Inv => (HeadersHaveNames /\ EncodingsFit => EncodeRoundTrip)
  <2> SUFFICES ASSUME RequestsInv, HeadersHaveNames, EncodingsFit,
                      NEW i \in DOMAIN heap
               PROVE  LET text == Encode(heap[i].request)
                      IN  DecodeExactly(text)
                            = Parsed(heap[i].request, Len(text))
    BY DEF EncodeRoundTrip
  <2> DEFINE r == heap[i].request
  <2>1. PICK s \in String :
          Len(s) <= MaxString /\ \E c \in 1..Len(s) : Decode(s) = Parsed(r, c)
    BY DEF RequestsInv, IsDecoded
  <2>2. Len(Encode(r)) <= MaxString
    BY DEF EncodingsFit
  <2>3. \A k \in DOMAIN r.headers : r.headers[k].name # <<>>
    BY DEF HeadersHaveNames
  <2> HIDE DEF r
  <2>4. RequestReads(r)
    BY <2>1, <2>3, DecodedReads
  <2> QED
    BY <2>2, <2>4, EncodedDecodes DEF r
<1> QED
  BY <1>1, <1>2, <1>3, PTL DEF Spec

=============================================================================
