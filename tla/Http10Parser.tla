---------------------------- MODULE Http10Parser ----------------------------
(***************************************************************************)
(* Http10Parser: an incremental parser that buffers what it is fed, queues *)
(* the requests it completes and hands them over to its caller.            *)
(*                                                                         *)
(* feed is not one step: its drain loop is run one iteration at a time,    *)
(* because an exception may leave it after any iteration.  While           *)
(* pc = "draining" the caller is inside feed and can do nothing else.      *)
(*                                                                         *)
(* heap records every request object ever allocated, in allocation order,  *)
(* with who is responsible for it; an index into heap is a pointer.        *)
(***************************************************************************)
EXTENDS Http10Request

CONSTANTS
  Wires,      \* the octet streams a peer may send
  MaxFaults   \* bound: how many allocations may fail while a wire is fed

ASSUME ParserAssumption ==
  /\ \A w \in Wires : w \in Seq(Octet) /\ Len(w) <= MaxString
  /\ MaxFaults \in [Wires -> Nat]

VARIABLES
  wire,       \* the stream the peer sends
  fed,        \* how many of its octets were handed to feed
  buffer_,    \* the octets fed and not yet parsed
  requests_,  \* the queue: pointers, oldest first
  heap,       \* the request objects, each with its history
  parsed,     \* how many octets were erased from buffer_ (history)
  log,        \* every pointer ever queued, in order (history)
  pc,         \* "idle", "draining" (inside feed) or "destroyed"
  thrown,     \* how the last feed ended: "none" or an exception
  faults      \* how many allocations have failed

vars == <<wire, fed, buffer_, requests_, heap, parsed, log, pc, thrown, faults>>

Object(request, at, size, owner) ==
  [request |-> request, at |-> at, size |-> size, owner |-> owner]

(* The queue owns an object until it is popped; the caller owns it until   *)
(* it deletes it; an object that nothing points to any more is leaked.     *)
Owners == {"queue", "caller", "deleted", "leaked"}

(* Objects that hold one of the requests in h, decoded at an offset up to  *)
(* end.                                                                    *)
Objects(h, end) == [request : {h[i].request : i \in DOMAIN h},
                    at : 0..end, size : Nat \ {0}, owner : Owners]

(* The objects to which the queue points.                                  *)
Queued(i) == \E k \in DOMAIN requests_ : requests_[k] = i

Init ==
  /\ wire \in Wires
  /\ fed = 0
  /\ buffer_ = <<>>
  /\ requests_ = <<>>
  /\ heap = <<>>
  /\ parsed = 0
  /\ log = <<>>
  /\ pc = "idle"
  /\ thrown = "none"
  /\ faults = 0

-----------------------------------------------------------------------------
(* feed(data, size).  An empty chunk returns at once and changes nothing.  *)

(* buffer_.append(data, size), and into drainBuffer.                       *)
Feed(n) ==
  /\ pc = "idle"
  /\ fed' = fed + n
  /\ buffer_' = buffer_ \o SubSeq(wire, fed + 1, fed + n)
  /\ pc' = "draining"
  /\ thrown' = "none"
  /\ UNCHANGED <<wire, requests_, heap, parsed, log, faults>>

(* append throws std::bad_alloc: the chunk was not taken, and the caller   *)
(* still holds it.                                                         *)
FeedFails ==
  /\ pc = "idle"
  /\ fed < Len(wire)
  /\ faults < MaxFaults[wire]
  /\ faults' = faults + 1
  /\ thrown' = "bad_alloc"
  /\ UNCHANGED <<wire, fed, buffer_, requests_, heap, parsed, log, pc>>

(* buffer_.erase(0, n); the variant leaves one octet too many.             *)
EraseShort(n) == SubSeq(buffer_, n, Len(buffer_))
Erased(n) == SubSeq(buffer_, n + 1, Len(buffer_))

(* Variant: an "if" where the code has a "while".                          *)
DrainRequestOnce ==
  LET next == Decode(buffer_)
      new == Len(heap) + 1
  IN  /\ pc = "draining"
      /\ next.outcome = "request"
      /\ heap' = Append(heap, Object(next.request, parsed, next.consumed,
                                     "queue"))
      /\ requests_' = Append(requests_, new)
      /\ log' = Append(log, new)
      /\ buffer_' = Erased(next.consumed)
      /\ parsed' = parsed + next.consumed
      /\ pc' = "idle"
      /\ UNCHANGED <<wire, fed, thrown, faults>>

(* One iteration: a request is decoded, queued and erased from the buffer. *)
DrainRequest ==
  LET next == Decode(buffer_)
      new == Len(heap) + 1
  IN  /\ pc = "draining"
      /\ next.outcome = "request"
      /\ heap' = Append(heap, Object(next.request, parsed, next.consumed,
                                     "queue"))
      /\ requests_' = Append(requests_, new)
      /\ log' = Append(log, new)
      /\ buffer_' = Erased(next.consumed)
      /\ parsed' = parsed + next.consumed
      /\ UNCHANGED <<wire, fed, pc, thrown, faults>>

(* decodeHttp10Request returns NULL: the tail waits for the next feed.     *)
DrainDone ==
  /\ pc = "draining"
  /\ Decode(buffer_).outcome = "incomplete"
  /\ pc' = "idle"
  /\ UNCHANGED <<wire, fed, buffer_, requests_, heap, parsed, log, thrown,
                 faults>>

(* Variants: the malformed octets are discarded, and what follows them is  *)
(* taken for the beginning of a request; the exception is caught and       *)
(* cleared inside the loop, which tries again.                             *)
DrainDiscards ==
  /\ pc = "draining"
  /\ Decode(buffer_).outcome \in Exceptions
  /\ thrown' = Decode(buffer_).outcome
  /\ pc' = "idle"
  /\ buffer_' = <<>>
  /\ parsed' = fed
  /\ UNCHANGED <<wire, fed, requests_, heap, log, faults>>

DrainSwallows ==
  /\ pc = "draining"
  /\ Decode(buffer_).outcome \in Exceptions
  /\ thrown' = IF thrown = "none" THEN Decode(buffer_).outcome ELSE "none"
  /\ UNCHANGED <<wire, fed, buffer_, requests_, heap, parsed, log, pc, faults>>

(* decodeHttp10Request throws: feed passes the exception on and leaves the *)
(* buffer as it is.                                                        *)
DrainThrows ==
  /\ pc = "draining"
  /\ Decode(buffer_).outcome \in Exceptions
  /\ thrown' = Decode(buffer_).outcome
  /\ pc' = "idle"
  /\ UNCHANGED <<wire, fed, buffer_, requests_, heap, parsed, log, faults>>

(* Decoding runs out of memory, which it can only do once it has found a   *)
(* line to copy: nothing was queued or erased.                             *)
DecodeFails ==
  /\ pc = "draining"
  /\ CRLFs(buffer_) # {}
  /\ faults < MaxFaults[wire]
  /\ faults' = faults + 1
  /\ thrown' = "bad_alloc"
  /\ pc' = "idle"
  /\ UNCHANGED <<wire, fed, buffer_, requests_, heap, parsed, log>>

(* requests_.push_back runs out of memory: the local pointer to the new    *)
(* request is lost, and its octets stay in the buffer.                     *)
PushFails ==
  LET next == Decode(buffer_)
  IN  /\ pc = "draining"
      /\ next.outcome = "request"
      /\ faults < MaxFaults[wire]
      /\ faults' = faults + 1
      /\ heap' = Append(heap, Object(next.request, parsed, next.consumed,
                                     "leaked"))
      /\ thrown' = "bad_alloc"
      /\ pc' = "idle"
      /\ UNCHANGED <<wire, fed, buffer_, requests_, parsed, log>>

-----------------------------------------------------------------------------
(* The caller.                                                             *)

(* requests_.pop_front(); the variant pops the newest request.             *)
PopNewest == SubSeq(requests_, 1, Len(requests_) - 1)
Popped == Tail(requests_)

(* nextRequest() on a non-empty queue; on an empty one it returns NULL and *)
(* changes nothing.                                                        *)
NextRequest ==
  /\ pc = "idle"
  /\ requests_ # <<>>
  /\ requests_' = Popped
  /\ heap' = [heap EXCEPT ![Head(requests_)].owner = "caller"]
  /\ UNCHANGED <<wire, fed, buffer_, parsed, log, pc, thrown, faults>>

(* The caller deletes a request it was given, which it owns.               *)
DeleteRequest(i) ==
  /\ pc # "draining"
  /\ heap[i].owner = "caller"
  /\ heap' = [heap EXCEPT ![i].owner = "deleted"]
  /\ UNCHANGED <<wire, fed, buffer_, requests_, parsed, log, pc, thrown,
                 faults>>

(* clearRequests, seen from the heap; the variants forget the delete, and  *)
(* delete what was handed over as well.                                    *)
Forgotten == heap
AllDeleted == [i \in DOMAIN heap |-> [heap[i] EXCEPT !.owner = "deleted"]]
Cleared ==
  [i \in DOMAIN heap |-> IF Queued(i) THEN [heap[i] EXCEPT !.owner = "deleted"]
                         ELSE heap[i]]

(* ~Http10Parser: clearRequests pops and deletes until the queue is empty. *)
Destroy ==
  /\ pc = "idle"
  /\ pc' = "destroyed"
  /\ requests_' = <<>>
  /\ buffer_' = <<>>
  /\ heap' = Cleared
  /\ UNCHANGED <<wire, fed, parsed, log, thrown, faults>>

-----------------------------------------------------------------------------

Drain == DrainRequest \/ DrainDone \/ DrainThrows

Next ==
  \/ \E n \in 1..(Len(wire) - fed) : Feed(n)
  \/ FeedFails
  \/ Drain
  \/ DecodeFails
  \/ PushFails
  \/ NextRequest
  \/ \E i \in DOMAIN heap : DeleteRequest(i)
  \/ Destroy

(* feed runs to its end: it is a loop that never blocks.  This is weak     *)
(* fairness of Drain with the enabling condition written out (the decoder  *)
(* has an answer for every buffer, so that Drain is enabled exactly inside *)
(* feed).  Nothing obliges the peer to send, nor the caller to take,       *)
(* delete or destroy.                                                      *)
FeedRuns == <>[](pc = "draining") => []<><<Drain>>_vars

Spec == Init /\ [][Next]_vars /\ FeedRuns

-----------------------------------------------------------------------------
(* Safety.                                                                 *)

(* The variables stay in their types; in particular every pointer in the   *)
(* queue and in the log is a pointer to an allocated object.               *)
TypeOK ==
  /\ wire \in Wires
  /\ fed \in 0..Len(wire)
  /\ buffer_ \in Seq(Octet)
  /\ heap \in Seq(Objects(heap, parsed))
  /\ requests_ \in Seq(DOMAIN heap)
  /\ log \in Seq(DOMAIN heap)
  /\ parsed \in 0..fed
  /\ pc \in {"idle", "draining", "destroyed"}
  /\ thrown \in {"none", "bad_alloc"} \cup Exceptions
  /\ faults \in 0..MaxFaults[wire]

(* No octet is lost, repeated or reordered by the buffer, whatever the     *)
(* chunks and wherever an exception left feed: buffer_ is exactly what was *)
(* fed and not yet parsed.                                                 *)
BufferIsUnparsedTail ==
  pc # "destroyed" => buffer_ = SubSeq(wire, parsed + 1, fed)

(* The request a decoder given the rest of the whole stream would see.     *)
WholeDecode(at) == Decode(SubSeq(wire, at + 1, Len(wire)))

EndOf(i) == heap[i].at + heap[i].size

(* "Packet boundaries are ignored" (Http10Parser.hpp): the requests queued *)
(* so far cut the stream where one feed of the whole stream would cut it,  *)
(* and are the requests it would see, although each was decoded from a     *)
(* prefix that happened to have arrived.                                   *)
PacketBoundariesIgnored ==
  /\ \A k \in DOMAIN log :
       /\ WholeDecode(heap[log[k]].at)
            = Parsed(heap[log[k]].request, heap[log[k]].size)
       /\ heap[log[k]].at = IF k = 1 THEN 0 ELSE EndOf(log[k - 1])
  /\ parsed = IF log = <<>> THEN 0 ELSE EndOf(log[Len(log)])

(* When feed returns normally the buffer holds no complete request and no  *)
(* malformed one: everything that could be said of the octets was said.    *)
NothingLeftBehind ==
  pc = "idle" /\ thrown = "none" => Decode(buffer_) = Incomplete

(* Each object has one owner at a time: the queue holds the objects it     *)
(* owns, once each and oldest first, none survives the parser, and an      *)
(* object is lost only to a failed push_back.                              *)
Ownership ==
  /\ \A i \in DOMAIN heap :
       heap[i].owner = "queue" <=> Queued(i)
  /\ \A j, k \in DOMAIN requests_ : j < k => requests_[j] < requests_[k]
  /\ pc = "destroyed" => requests_ = <<>>
  /\ Cardinality({i \in DOMAIN heap : heap[i].owner = "leaked"}) <= faults

(* Requests leave in the order they were queued, none twice and none       *)
(* skipped: the queue is the end of the log, and all before it are gone.   *)
FifoDelivery ==
  /\ pc # "destroyed" =>
       requests_ = SubSeq(log, Len(log) - Len(requests_) + 1, Len(log))
  /\ \A j, k \in DOMAIN log : j < k => log[j] < log[k]

(* encode is a right inverse of decode: what a queued request encodes to   *)
(* decodes, completely, to the same request.                               *)
EncodeRoundTrip ==
  \A i \in DOMAIN heap :
    LET text == Encode(heap[i].request)
    IN  DecodeExactly(text) = Parsed(heap[i].request, Len(text))

(* The number a Content-Length value spells, without the wrap of size_t.   *)
Numeral(value) ==
  FoldLeft(LAMBDA n, digit : n * 10 + DigitValue(digit), 0, Trim(value))

(* A queued request has exactly the body its own header declares: it was   *)
(* not queued before the last octet of that body had arrived.              *)
BodyIsAsDeclared ==
  \A i \in DOMAIN heap :
    LET declared == HeaderGet(heap[i].request.headers, ContentLengthName)
    IN  IF declared = None THEN heap[i].request.body = None
        ELSE /\ heap[i].request.body # None
             /\ Len(heap[i].request.body[1]) = Numeral(declared[1])

(* What feed throws because of the octets it was fed, as opposed to a      *)
(* failed allocation, is what its documentation names.                     *)
FeedThrowsInvalidArgument == thrown \in {"none", "bad_alloc", "invalid_argument"}

(* Tests call a header without a name malformed.                           *)
HeadersHaveNames ==
  \A i \in DOMAIN heap : \A k \in DOMAIN heap[i].request.headers :
    heap[i].request.headers[k].name # <<>>

-----------------------------------------------------------------------------
(* Steps and liveness.                                                     *)

(* A malformed stream stays malformed: once the buffered octets make feed  *)
(* throw, every later feed throws the same exception and no request is     *)
(* queued any more, whatever else arrives.                                 *)
ErrorIsSticky ==
  [][Decode(buffer_).outcome \in Exceptions /\ pc' # "destroyed"
       => Decode(buffer_').outcome = Decode(buffer_).outcome /\ log' = log]_vars

(* An object that has left the queue is out of the parser's hands: it      *)
(* stays as it is until the caller deletes it, and when the caller has it  *)
(* is not touched again, not by the destructor either.                     *)
HandedOverIsCallers ==
  [][\A i \in DOMAIN heap :
       heap[i].owner # "queue" /\ heap'[i] # heap[i] => DeleteRequest(i)]_vars

(* feed returns to its caller, normally or with an exception.              *)
FeedReturns == pc = "draining" ~> pc = "idle"

(* The stream holds a request that has arrived in full and is not queued.  *)
Due ==
  LET next == WholeDecode(parsed)
  IN  next.outcome = "request" /\ parsed + next.consumed <= fed

(* Every request that has arrived in full is eventually queued: no further *)
(* octets are needed to push it out of the buffer, unless an allocation    *)
(* fails meanwhile.                                                        *)
ArrivedIsQueued == Due ~> (~Due \/ thrown = "bad_alloc")

(* The parser implements the contract of its interface.                    *)
IParser == INSTANCE IHttpParser WITH
  Decode <- Decode,
  ready <- [k \in DOMAIN requests_ |-> heap[requests_[k]].request],
  open <- pc # "destroyed"

ImplementsContract == IParser!Contract

=============================================================================
