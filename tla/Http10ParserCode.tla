-------------------------- MODULE Http10ParserCode --------------------------
(***************************************************************************)
(* Http10Parser put together from its parts: the scan of                   *)
(* decodeHttp10Request in the drain loop, and a Vec of pointers as the     *)
(* queue.  Http10Parser decodes a buffer in one step and queues in a       *)
(* sequence; here both are code, and the result is to be the same.         *)
(*                                                                         *)
(* An object belongs to the drain loop ("drain") from its allocation until *)
(* push_back has taken the pointer.  The caller deletes a request before   *)
(* it asks for the next one or feeds again, as in the example of           *)
(* Http10Parser.hpp.                                                       *)
(***************************************************************************)
EXTENDS Http10Scan

CONSTANTS
  Wires,      \* the octet streams a peer may send
  MaxFaults   \* bound: how many allocations may fail while a wire is fed

(* A wire fits a std::string, and a size_t has more than five bits.        *)
ASSUME CodeAssumption ==
  /\ \A w \in Wires : w \in String /\ Len(w) <= MaxString
  /\ MaxFaults \in [Wires -> Nat]
  /\ SizeMod % 8 = 0 /\ SizeMod > 32

VARIABLES
  wire, fed, parsed, heap, log, thrown, faults,  \* as in Http10Parser
  requests_,  \* the queue, a Vec of pointers
  pc,         \* "idle", "scanning", "pushing" or "destroyed"
  peak        \* the most requests ever queued at once (history)

caller == <<wire, fed, faults>>
objects == <<heap, parsed, log, requests_, peak>>
vars == <<buffer_, scan, caller, objects, thrown, pc>>

NullPointer == 0

(* A pointer takes eight octets, in a block whose size wraps like the      *)
(* other sizes.                                                            *)
Queue == INSTANCE Vec WITH
  vec <- requests_, Value <- Nat \ {0}, Raw <- NullPointer,
  Kinds <- {TRUE}, trivial <- TRUE, Wrap <- SizeMod \div 8,
  Others <- {<<>>}, OwnReferences <- FALSE,
  MaxCapacity <- SizeMod \div 8 - 1, MaxFaults <- 0,
  promised <- <<>>, torn <- FALSE, littered <- FALSE, forsaken <- FALSE

Pointers == Queue!Elements(requests_)

(* The parser whose parts these are; it has no object while the pointer to *)
(* it is still on its way to the queue.                                    *)
Parser == INSTANCE Http10Parser WITH
  requests_ <- Pointers,
  heap <- IF pc = "pushing" THEN SubSeq(heap, 1, Len(heap) - 1) ELSE heap,
  pc <- IF pc \in {"scanning", "pushing"} THEN "draining" ELSE pc

Init ==
  /\ wire \in Wires
  /\ fed = 0 /\ parsed = 0 /\ faults = 0
  /\ buffer_ = <<>>
  /\ scan = ScanStart
  /\ heap = <<>> /\ log = <<>>
  /\ requests_ = Queue!EmptyVec
  /\ pc = "idle" /\ thrown = "none"
  /\ peak = 0

-----------------------------------------------------------------------------
(* feed.                                                                   *)

Held == {i \in DOMAIN heap : heap[i].owner = "caller"}

(* buffer_.append(data, size).                                             *)
Feed(n) ==
  /\ pc = "idle" /\ Held = {}
  /\ fed' = fed + n
  /\ buffer_' = buffer_ \o SubSeq(wire, fed + 1, fed + n)
  /\ scan' = ScanStart
  /\ pc' = "scanning" /\ thrown' = "none"
  /\ UNCHANGED <<wire, faults, objects>>

Scan ==
  /\ pc = "scanning"
  /\ ScanStep
  /\ UNCHANGED <<buffer_, caller, objects, thrown, pc>>

(* The decoder returns a new request.                                      *)
Allocate ==
  /\ pc = "scanning" /\ scan.phase = "done"
  /\ scan.result.outcome = "request"
  /\ heap' = Append(heap, Parser!Object(scan.result.request, parsed,
                                        scan.result.consumed, "drain"))
  /\ pc' = "pushing"
  /\ UNCHANGED <<buffer_, scan, caller, parsed, log, requests_, peak, thrown>>

(* feed returns; the local variables of the decoder are gone.              *)
LeaveFeed(exception) ==
  /\ pc' = "idle"
  /\ thrown' = exception
  /\ scan' = ScanStart
  /\ UNCHANGED buffer_

(* Variant: catches the exception and tries again.                         *)
TryAgain ==
  /\ pc = "scanning" /\ scan.phase = "done"
  /\ scan.result.outcome \in Exceptions
  /\ scan' = ScanStart
  /\ UNCHANGED <<buffer_, caller, objects, thrown, pc>>

Rethrow ==
  /\ pc = "scanning" /\ scan.phase = "done"
  /\ scan.result.outcome \in Exceptions
  /\ LeaveFeed(scan.result.outcome)
  /\ UNCHANGED <<caller, objects>>

NothingFound ==
  /\ pc = "scanning" /\ scan.phase = "done"
  /\ scan.result.outcome = "incomplete"
  /\ LeaveFeed(thrown)
  /\ UNCHANGED <<caller, objects>>

(* requests_.push_back(request); buffer_.erase(0, consumed); and the next  *)
(* iteration.                                                              *)
Push ==
  LET new == Len(heap)
      size == heap[new].size
  IN  /\ pc = "pushing"
      /\ requests_' = Queue!Placed(Queue!WithRoom(requests_), new)
      /\ heap' = [heap EXCEPT ![new].owner = "queue"]
      /\ log' = Append(log, new)
      /\ buffer_' = SubSeq(buffer_, size + 1, Len(buffer_))
      /\ parsed' = parsed + size
      /\ peak' = Max({peak, requests_'.size})
      /\ scan' = ScanStart
      /\ pc' = "scanning"
      /\ UNCHANGED <<caller, thrown>>

-----------------------------------------------------------------------------
(* An allocation fails.                                                    *)

Fail ==
  /\ faults < MaxFaults[wire]
  /\ faults' = faults + 1
  /\ UNCHANGED <<wire, fed>>

FeedFails ==
  /\ pc = "idle" /\ Held = {}
  /\ fed < Len(wire)
  /\ Fail
  /\ LeaveFeed("bad_alloc")
  /\ UNCHANGED objects

(* The strings of a line, a header, the body or the request itself.        *)
ScanFails ==
  /\ pc = "scanning"
  /\ AtLineEnd \/ scan.phase = "body"
  /\ Fail
  /\ LeaveFeed("bad_alloc")
  /\ UNCHANGED objects

(* push_back allocates only to grow; the pointer is lost.                  *)
PushFails ==
  /\ pc = "pushing"
  /\ Queue!IsFull(requests_)
  /\ Fail
  /\ heap' = [heap EXCEPT ![Len(heap)].owner = "leaked"]
  /\ LeaveFeed("bad_alloc")
  /\ UNCHANGED <<parsed, log, requests_, peak>>

-----------------------------------------------------------------------------
(* The caller.                                                             *)

NextRequest ==
  /\ pc = "idle" /\ Held = {}
  /\ requests_.size > 0
  /\ requests_' = Queue!Popped(requests_)
  /\ heap' = [heap EXCEPT ![Pointers[1]].owner = "caller"]
  /\ UNCHANGED <<buffer_, scan, caller, parsed, log, peak, thrown, pc>>

DeleteRequest(i) ==
  /\ pc \in {"idle", "destroyed"}
  /\ heap' = [heap EXCEPT ![i].owner = "deleted"]
  /\ UNCHANGED <<buffer_, scan, caller, parsed, log, requests_, peak, thrown,
                 pc>>

(* ~Http10Parser deletes what is queued, and its members follow.           *)
Destroy ==
  /\ pc = "idle"
  /\ pc' = "destroyed"
  /\ heap' = [i \in DOMAIN heap |->
                IF \E k \in DOMAIN Pointers : Pointers[k] = i
                THEN [heap[i] EXCEPT !.owner = "deleted"] ELSE heap[i]]
  /\ requests_' = Queue!EmptyVec
  /\ buffer_' = <<>>
  /\ UNCHANGED <<scan, caller, parsed, log, peak, thrown>>

-----------------------------------------------------------------------------

(* What feed does when no allocation fails.                                *)
FeedStep == Scan \/ Allocate \/ Rethrow \/ NothingFound \/ Push

Next ==
  \/ \E n \in 1..(Len(wire) - fed) : Feed(n)
  \/ FeedStep
  \/ FeedFails \/ ScanFails \/ PushFails
  \/ NextRequest
  \/ \E i \in Held : DeleteRequest(i)
  \/ Destroy

(* feed is a loop on one thread that waits for nothing: it keeps running.  *)
Spec == Init /\ [][Next]_vars /\ WF_vars(FeedStep)

-----------------------------------------------------------------------------

(* The members of the parser keep their types, and the local variables of  *)
(* the decoder stay inside the buffer.                                     *)
TypeOK ==
  /\ wire \in Wires
  /\ fed \in 0..Len(wire) /\ parsed \in 0..fed
  /\ buffer_ \in Seq(Octet)
  /\ ScanInBounds
  /\ Pointers \in Seq(DOMAIN heap)
  /\ log \in Seq(DOMAIN heap)
  /\ pc \in {"idle", "scanning", "pushing", "destroyed"}
  /\ faults \in 0..MaxFaults[wire]

(* The queue is compacted before it is made to grow: its block never has   *)
(* twice as many slots as there were ever requests waiting, however long   *)
(* the stream and however often it was popped.                             *)
BlockFollowsPeak == requests_.capacity > 4 => requests_.capacity < 2 * peak

(* feed comes to an end on every stream: the scan advances with each       *)
(* octet, and the loop with each request.                                  *)
FeedEnds == pc = "scanning" ~> pc = "idle"

(* What is left to do for a call of feed, at most: each octet is skipped   *)
(* or taken with its line, and each request needs a few steps more.        *)
StepsInPhase ==
  CASE pc = "pushing" -> 0
    [] pc # "pushing" /\ scan.phase = "done" -> 1
    [] pc # "pushing" /\ scan.phase = "body" -> 2
    [] pc # "pushing" /\ InLines -> 3
StepsLeft == 2 * (Size - scan.lineEnd) + StepsInPhase

InFeed == pc \in {"scanning", "pushing"}

(* Every step that does not end feed brings it nearer to its end, the one  *)
(* to the next request too: no octet is scanned again, and feed takes at   *)
(* most two steps for each octet of the buffer, and three.                 *)
FeedGetsOn ==
  [][InFeed /\ InFeed' => StepsLeft' < StepsLeft /\ StepsLeft' >= 0]_vars

(* Scanning octet by octet and queueing in a block that grows and is       *)
(* compacted, the code does what Http10Parser does in single steps: the    *)
(* same requests are queued, kept and handed over, and feed fails in the   *)
(* same ways.                                                              *)
ImplementsParser == Parser!Spec

=============================================================================
