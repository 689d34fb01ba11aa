# Verification of kireji

kireji is a small C++98 library that parses HTTP/1.0 requests from a TCP stream
delivered in arbitrary pieces. This directory holds TLA+ modules that model it,
TLC configurations that check the modules on small instances, and proofs that
TLAPS checks for every value of the constants. Paths below are relative to the
repository.

## 1. Inventory

The library has no threads, no I/O and no persistent state. It is hard for
other reasons: input arrives cut anywhere, exceptions leave multi-step
operations half way, lengths are machine integers, and storage and ownership
are managed by hand.

| component | source | state | operations |
| --- | --- | --- | --- |
| Http10Parser | `src/parser/Http10Parser.cpp` | `buffer_`, `requests_` | `feed`, `hasRequest`, `nextRequest`, destructor; `drainBuffer`, `decodeHttp10Request` inside |
| IHttpParser | `include/shared/IHttpParser.hpp` | none (interface) | the same three operations, as a contract |
| HTTP/1.0 codec | `src/parser/Http10Parser.cpp` (`BasicHttp10Request`, `decodeHttp10Request`) | none; the scan has `position`, `lineEnd` and what it found so far | `encode`, `decode` |
| HttpRequest | `src/shared/HttpRequest.cpp` | method, path, version, body, headers | `to_string`, `parseHttpMethod`, constructors |
| HeaderMap | `src/shared/HeaderMap.cpp` | nodes in a doubly linked list and in hash chains, `buckets_`, `bucket_count_`, `size_` | `get`, `set`, `remove`, `clear`, copy, rehash inside `set` |
| Vec | `src/shared/Vec.cpp` | `data_`, `size_`, `capacity_`, `offset_` | `push_back`, `pop_front`, `reserve`, `clear`, copy, indexing |
| Option | `src/shared/Option.cpp` | `has_value_`, `value_` | `take`, `replace`, `and_then`, `or_else`, assignment, observers |
| parseHttpRequest | `src/shared/HttpRequest/parseHttpRequest.cpp` | none | version dispatch |

Interactions: the caller calls `feed`, which appends to `buffer_` and loops
over `decodeHttp10Request`; each request found is allocated, pushed on the
`Vec` of pointers `requests_` and erased from the buffer. `nextRequest` pops a
pointer and makes the caller its owner. A request holds a `HeaderMap`, whose
bucket array is a `Vec`, and an `Option` body.

What makes each component correct:

* **Http10Parser**: the requests produced do not depend on where the stream is
  cut; the buffer loses exactly the octets of the requests queued; nothing that
  is complete or malformed is left unreported; a malformed stream stays
  malformed; an exception in any step loses no octet and repeats no request;
  requests come out in order and each is owned by one party.
* **codec**: the scan never leaves the buffer, and what it finds is what the
  lines say; a verdict on a buffer never changes when octets are added; what is
  encoded decodes to itself; a body has the length its header declares.
* **HeaderMap**: hash chains and insertion list describe the same headers, each
  name once, whatever the sequence of insertions, removals, rehashes and failed
  allocations.
* **Vec**: a FIFO sequence whatever the growth, compaction and front removal;
  each slot is constructed and destroyed exactly once; a queue that is pushed and
  popped for ever does not grow with its history.
* **Option**: `value_` is a `T` also while the option is None; no operation may
  hand out one that was taken.
* **parseHttpRequest**: it and the parser must read the same version in the same
  octets.

The hazards behind these properties are listed, with their lines, in
`PROJECT.json`.

## 2. Modules

Modules that extend each the one before, and the tops of the three chains:

```
Octets -> HeaderList -> HttpRequest -> Http10Request -> Http10Parser -> Http10Dispatch
                        HttpRequest -> ParseHttpRequest ----------------^
                                       Http10Request -> Http10Scan -> Http10ParserCode
          HeaderList -> HeaderMap
```

`IHttpParser`, `Vec` and `Option` stand alone. Each module of theorems extends
the module it is about.

| module | code | what it holds |
| --- | --- | --- |
| `Octets` | string helpers of `Http10Parser.cpp` | the alphabet, trimming, lower case |
| `HeaderList` | `HeaderMap.hpp` | what HeaderMap promises: an ordered list of headers, one per name; None and Some for `Option` |
| `HttpRequest` | `HttpRequest.cpp` | methods, versions, the request value |
| `Http10Request` | `Http10Parser.cpp:28-213` | `Decode`, `DecodeExactly` and `Encode` |
| `Http10Scan` | `Http10Parser.cpp:120-213` | `decodeHttp10Request` again, as the loop it is |
| `IHttpParser` | `IHttpParser.hpp` | the contract, an abstract specification over the whole stream |
| `Http10Parser` | `Http10Parser.cpp:215-263` | the parser and its caller; instantiates `IHttpParser` |
| `Http10ParserCode` | `Http10Parser.cpp:120-263`, `Vec.cpp` | the same, with the scan in the drain loop and a `Vec` for the queue; instantiates `Http10Parser` and `Vec` |
| `ParseHttpRequest` | `parseHttpRequest.cpp` | `findNthSpace`, `findHttpVersion` and the dispatch |
| `Http10Dispatch` | both | what `parseHttpRequest` makes of the requests the parser accepted |
| `HeaderMap` | `HeaderMap.cpp` | nodes, list, chains, buckets; extends `HeaderList`, which is its reference |
| `Vec` | `Vec.cpp` | the slots of a block and the window of elements |
| `Option` | `Option.cpp` | the flag and the value behind it |
| `MCMessages` | | the messages of which the streams are made |
| `MCHttp10Parser`, `MCHttp10ParserCode`, `MCHeaderMap`, `MCVec`, `MCOption` | | small instances |
| `NaturalsLemmas` | | least and greatest elements, induction over sets of positions, folds |
| `Http10RequestProofs` | | theorems about the codec |
| `Http10ParserProofs`, `Http10QueueProofs` | | theorems about the parser; the second has the queue, the objects and the dispatch |
| `Http10CodeProofs` | | theorems about the scan, the block of the queue and the refinement of the parser |
| `VecProofs`, `OptionProofs`, `HeaderMapProofs` | | theorems about the containers |

Composition. The parser is specified at three levels, each shown to implement
the one above by a refinement mapping:

* `IHttpParser` knows the stream and the requests in it, and neither chunks nor
  a buffer.
* `Http10Parser` has the buffer and the caller; it decodes a whole buffer in one
  step and queues pointers in a sequence.
* `Http10ParserCode` decodes octet by octet and queues in `Vec`'s slots, with
  the operators of `Vec` itself: a pointer is a value, NULL is `Raw`. Between
  allocation and `push_back` a request belongs to neither the queue nor the
  caller; the mapping hides it there.

`Http10Request` takes its headers from `HeaderList`. `HeaderMap` is checked on
its own against that same `HeaderList` (`promised` is one), so the parser may
rely on the list without carrying links and buckets. `Option` is checked on its
own too, against the None and Some that requests use for their bodies.

### State and actions

`Http10Parser`

| model | code |
| --- | --- |
| `buffer_`, `requests_` | the members of that name; a pointer is an index into `heap` |
| `wire`, `fed` | the stream of the peer and how much of it reached `feed` |
| `heap[i].owner` | who must delete the object: `requests_`, the caller, or nobody ("leaked", "deleted") |
| `pc`, `thrown` | inside `feed` or not; how the last `feed` ended |
| `parsed`, `log`, `heap[i].at`, `.size` | history: offsets in the stream, all pointers ever queued |
| `Feed`, `FeedFails` | `feed` up to the call of `drainBuffer`; `append` throwing |
| `DrainRequest`, `DrainDone`, `DrainThrows` | one iteration of the loop in `drainBuffer` and its two ends |
| `DecodeFails`, `PushFails` | `std::bad_alloc` inside the decoder; in `push_back`, after the request was allocated |
| `NextRequest`, `DeleteRequest`, `Destroy` | `nextRequest`, the caller's `delete`, the destructor |

The loop is one iteration per step because an exception may end `feed` after
any iteration, with the earlier requests queued and the rest still in the
buffer. The class promises no thread safety, so the caller does nothing else
while `pc = "draining"`; objects it owns it could delete at any other time.

`Decode` is declarative where the code scans: it names the lines by the
positions of the CRLF pairs that end them, and the first line up to the blank
one that is malformed decides. Arithmetic on lengths is modulo `SizeMod`, as
`std::size_t` is; `MaxString` is `std::string::max_size()`.

`Http10Scan`: `scan` has the local variables of `decodeHttp10Request`, with the
positions of the code, which count from 0; `phase` tells which loop it is in.
`SkipOctet` and `RunOut` are the inner loop, `TakeRequestLine`, `TakeHeaderLine`
and `TakeBlankLine` what is done with a line, `TakeBody` the rest.

`Http10ParserCode`: `Scan` is one step of the decoder, `Allocate` its return with
a request, `Push` the push on the `Vec`, the erasure and the next iteration,
`Rethrow` and `NothingFound` the two ends of `feed`. `FeedFails`, `ScanFails` and
`PushFails` are the allocations that can fail, at the steps at which the code
makes them; `push_back` makes one only when the block is full. The objects and
the history are those of `Http10Parser`; `peak` is history too.

`Vec`: `vec` has the four members; a slot holds a value or `Raw` (no object).
`trivial` is fixed at the start and tells `int` and pointers from `std::string`,
whose destructor leaves a slot `Raw`; `Kinds` says which of the two an instance
looks at. `WithRoom` is the growth or compaction at the start of
`push_back`, `Placed` its end; between them and inside them an element copy may
throw (`CompactionFails`, `PlacementFails`). `ReserveFails` is a `reserve` that
gets no block, or has copied `k` elements when a copy throws and destroys these
(`RolledBack`); `PopFrontFails` throws before anything is changed. `forsaken`
notes a block that is freed with objects in it, `littered` an interrupted
compaction, which leaves its copies in front of the window. `References` is the parameter of
`push_back`, a value of the caller or (`OwnReferences`) a slot of the vector.

`HeaderMap`: `map` has the members, and `map.node` is the heap of nodes with
`prev`, `next` and `hash_next`. `Set` rehashes first and looks up afterwards,
as `set` does, even for a name that is present. `SetFailures` lists what a
failed allocation leaves behind, `HalfRehash` among them.

`Option`: `option` has the two members of each option a caller keeps. `Take` and
`Replace` assign what they return to an option or drop it; `Assign` is the
implicit `operator=`, from a constructor, a copy, `and_then` or `or_else`
(`Results`). `StoreFails` is a copy that throws between the assignment of the flag
and that of the value, `CopyFails` one that throws first.

`promised`, `owed`, `torn`, `littered`, `forsaken` and `damaged` are history
variables: they say what the caller is owed, and whether the run has passed a
point after which the code itself owes nothing (see the findings).

## 3. What the runs check

Every run enumerates all reachable states of its instance. Deadlock is not an
error anywhere: the peer may have sent all it has, a destroyed parser stays
destroyed, and the data structures are not obliged to be used.

Runs that pass:

| run | instance | properties |
| --- | --- | --- |
| `stream` | 147 streams of up to three messages, all cuts; two failed allocations on three of them | `TypeOK`, `PacketBoundariesIgnored`, `EncodeRoundTrip`, `BodyIsAsDeclared`, `BufferIsUnparsedTail`, `NothingLeftBehind`, `Ownership`, `FifoDelivery`, `VersionsAgree`, `ErrorIsSticky`, `HandedOverIsCallers`, `FeedReturns`, `ArrivedIsQueued`, `ImplementsContract` |
| `code` | 109 streams of up to seven messages, all cuts; two failed allocations on three of them | `TypeOK`, `ScanAgrees`, `BlockFollowsPeak`, `FeedEnds`, `FeedGetsOn`, `ImplementsParser` |
| `option` | two options, three values, two functions for `and_then`, two copies that throw | `TypeOK`, `HoldsUnlessTorn`, `ObserversAgree` |
| `vec_elements` | pointers and strings, blocks of up to eight, two failures | `TypeOK`, `PointersKeepOrder`, `KeepsOrderUnlessTorn`, `Lifetimes`, `BlocksFreedEmpty` |
| `header_chains` | four names that collide, three table sizes, one failure | `TypeOK`, `ListIntact`, `ListKeepsOrder`, `GetFindsUnlessDamaged` |

They show that, on these instances, what is queued depends only on the stream
and never on the cuts; that a body is never delivered before its last octet;
that an error can neither be skipped nor turned into a request by later octets;
that no failed allocation loses an octet, repeats a request or makes two parties
delete one; that the containers keep their order and find what they hold; that
an option never shows what was taken from it unless a call failed half way; and
that the code, scan, block and all, does what `Http10Parser` does, which in turn
implements `IHttpParser`'s contract. The block of the queue follows the longest
queue there ever was, not the length of the stream. A request that was handed
over is the caller's alone, and a block is freed without objects in it, also by a
`reserve` that fails half way.

Runs that show a disagreement between the code and what its documentation or
tests say; each stops at the counterexample:

| run | property | what happens |
| --- | --- | --- |
| `content_length_wraps` | `BodyIsAsDeclared` | a Content-Length of 2^64 is taken for 0 (`Http10Parser.cpp:55`), and the body is parsed as the next request |
| `overlong_body_throws` | `FeedThrowsInvalidArgument` | a length just below 2^64 wraps the end of the body around (line 201), and `feed` throws `std::length_error` |
| `nameless_header` | `HeadersHaveNames` | the line `" : x"` passes the test for an empty name, which is made before trimming |
| `parse_http_request` | `ParseHttpRequestReturns` | the token taken for the method ends with the space that `findNthSpace` counts (`parseHttpRequest.cpp:65`), so that every complete request is refused |
| `vec_compaction` | `KeepsInsertionOrder` | strings that are copied to the front over their own range are then destroyed (`Vec.cpp:80`); vectors of pointers, all the library itself uses, are not affected |
| `vec_own_element` | `KeepsInsertionOrder` | `v.push_back(v[0])` on a full vector reads a freed block |
| `header_half_rehash` | `GetFindsStored` | `buckets_ = newBuckets` throws when all chains are already relinked (`HeaderMap.cpp:218`); stored headers are no longer found |

### Bounds, and why they suffice

* **Streams.** A message is a request of each form the decoder distinguishes
  (no headers, headers to trim and merge, bodies of zero to nine octets, a
  repeated Content-Length, a body that looks like a request), one that breaks
  each check the decoder makes, or one that never ends. Two in a row, or three,
  cover every order of good, bad and cut-short messages: `feed` keeps nothing of
  a request once it is erased.
* **Octets.** A word stands for a run of characters that the code compares or
  copies as a whole; each delimiter is an octet of its own, so that every cut
  around a CR, LF, blank or colon is explored. A cut inside a word behaves as
  one beside it, as the decoder looks at complete lines only.
* **`SizeMod` = 128, `MaxString` = 63** stand for 2^64 and `max_size()`; the
  assumption `2 * MaxString < SizeMod` is what the code relies on. The streams
  contain lengths beyond either.
* **`MaxFaults`** failed allocations: two allow a failure while recovering from
  another. For the parser it is a function of the stream, two on three streams
  and none on the others: every kind of step that can fail occurs on those three,
  and the streams without failures show the rest.
* **`MaxCapacity` = 8** with assigned vectors of length 0, 1 and 3: the first
  growth to 4 and a second one to 8, doublings of 1, 2 and 3, and compaction with
  and without overlap. `Wrap` = 64 is never reached.
* **Seven requests** in a row (`code`) let the queue of pointers grow to eight, or
  be compacted, grow and be compacted again, depending on what the caller takes
  in between.
* **Two options, three values** (`option`), one of them the default one, whose
  copy allocates nothing: enough for a value to come back under a flag raised for
  another, and to travel from one option to the other.
* **`InitialBucketCount` = 2** instead of 16, so that five nodes cause two
  rehashes; three of the four names share a bucket in a table of two or four,
  two of them in every table.

### Fairness

`Http10Parser` assumes one thing: `FeedRuns`, that a `feed` under way is not
abandoned. It is a loop on one thread, with no blocking call and nothing to wait
for, so the code runs it. It is weak fairness of `Drain`, with its enabling
condition written as `pc = "draining"`, which TLC evaluates at once where
`ENABLED` would run the decoder again. `Http10ParserCode` assumes the same of its
finer steps, `WF_vars(FeedStep)`; `ImplementsParser` includes that this gives
`FeedRuns`, which it could not if a scan went on for ever. The peer need not
send and the caller need not take, delete or destroy. `FeedReturns`, `FeedEnds`
and `ArrivedIsQueued` follow from the fairness, and are not given by it: a loop
that made no progress would satisfy it and violate all three. (`ArrivedIsQueued`
excepts a feed that ran out of memory, which leaves what arrived in the buffer
until the caller feeds again.) `Vec`, `HeaderMap` and `Option` are passive and
assume nothing.

## 4. What is proved

The theorems hold for every alphabet, stream, cut, order of calls and number
of failures, and for every type, hash function and table size. What they assume
of the constants is named where the constants are declared, and TLC evaluates it
in the runs:

| assumption | what it says |
| --- | --- |
| `OctetAssumption` | blanks and delimiters are octets; folding to lower case twice is folding once, and no other octet is folded to a blank or a delimiter (`std::tolower` changes letters only) |
| `SizeAssumption` | the lengths of two strings add up without wrapping |
| `ParserAssumption`, `CodeAssumption` | each stream fits in a string; `SizeMod` is a multiple of the eight octets of a pointer, and has room for more than four of them |
| `VecAssumption`, `OptionAssumption` | a default value is a value; functions for `and_then` return options |
| `HeaderMapAssumption` | the hash of a name is a number; the load limit is a percentage; a map that is copied has each name once, folded |
| `DispatchAssumption`, `EnabledAssumption` | HTTP/1.0 is among the versions compiled in, and these are versions |

The codec and the parser:

* **`DecodeStable`** (`Http10RequestProofs`): a verdict on a buffer other than
  "incomplete" stays when octets are added. The ends of lines up to the first
  blank one do not change, so neither do the lines, nor what is wrong with the
  first bad one; a body that fits keeps fitting. The rest builds on it.
* **`TypeCorrect`, `BufferCorrect`** (`Http10ParserProofs`): `TypeOK` is not
  inductive alone, since nothing in it bounds what a step erases. The inductive
  invariant `BufferInv` is `TypeOK` with `BufferIsUnparsedTail`: the buffer is a
  slice of the stream, so it fits in a string and a request in it ends inside it.
* **`NothingLeft`, `ErrorsAreSticky`** follow from `BufferInv`, the second with
  `DecodeStable`.
* **`BoundariesIgnored`**: the requests queued cut the stream as one decoder
  run over all of it would. `DecodeStable` carries the verdict on the prefix
  that has arrived to the whole stream.
* **`BodyIsDeclared`**: `Spec => [](LengthsFit => BodyIsAsDeclared)`. The property
  is false of streams that declare a length beyond `SizeMod`, as
  `content_length_wraps` shows; `LengthsFit` says that no object has one, and
  nothing more can be left out. Each object holds what some buffer decodes to
  (`RequestsInv`); `DecodedBody` says that such a request has the body
  `ContentLength` asks for, and `NumeralFits`, by induction over the digits,
  that the fold modulo `SizeMod` is the numeral when the numeral is below it.
* **`EncodingsDecode`**:
  `Spec => [](HeadersHaveNames /\ EncodingsFit => EncodeRoundTrip)`. Neither
  hypothesis can be left out: a header without a name, which `nameless_header`
  shows the decoder to make, is written as a line the decoder refuses, and the
  blanks `encode` adds may make a text no `std::string` can hold
  (`EncodingsFit`). The proof has two halves, which meet in `RequestReads`, the
  requests that read as they are written. `DecodedReads`: lines have no CRLF
  pair in them, parts of them have none, trimmed parts begin and end with no
  blank, lower case changes none of this, and `HeaderMap` keeps each name once,
  so that every request the decoder makes is of this kind. `EncodedDecodes`: by
  induction over the headers, the text `encode` has written so far is whole
  lines, the first of them the request line, the others those whose fold is the
  headers written (`HeadSoFar`); a blank line completes the head, and the body
  follows it.
* **`Refinement`**: `Spec => ImplementsContract`; `DrainRequest` is the
  contract's `Complete`, `NextRequest` its `Take`, `Destroy` its `Close`, and
  all steps that fail are stutters.
* **`FifoOrder`** (`Http10QueueProofs`): the invariant `FifoInv` says the queue
  is how the log ends, element by element.
* **`OneOwner`**: the invariant `OwnedInv` says that the objects owned by the
  queue are those it points to, and counts the leaks. It needs `FifoInv`: that
  popping a pointer leaves no second copy of it follows from the order.
  **`OnlyCallerDeletes`** follows from the same invariant: what the destructor and
  `nextRequest` change is what the queue points to, so `HandedOverIsCallers`.
* **`SameVersion`**: `VersionsAgree`. The first two spaces of the whole data are
  the two of the first line, since a request was decoded only from a line with
  exactly two.

The code of the parser (`Http10CodeProofs`):

* **`CodeInvariant`**: the inductive invariant is `BufferInv` (a namesake of the
  one above), `HeapInv` and `QueueInv`. Its centre is `ScanInv`: between two lines
  the scan has found what the lines of the head that end before `position` say,
  as the fold over them; inside a line no CRLF pair lies between `position` and
  `lineEnd`; when it is done, its result is `Decode`'s. `ScanAgrees`
  speaks of the last of these only and is not inductive.
* **`TypeCorrect`, `ScanIsRight`** follow: no position the code computes leaves
  the buffer, and what it returns or throws is what the lines say.
* **`BlockStaysSmall`**: a block grows only when it is full from the left, so it
  never exceeds twice the longest queue. That the doubled size does not wrap
  needs a bound on the queue, hence the conjunct `8 * Len(log) <= parsed`: no
  request takes fewer than eight octets (`RequestHasEight`), and a stream is
  shorter than half of `SizeMod`. The slots are those of `Vec`, by an instance of
  `VecProofs`.
* **`CodeIsAParser`**: every step of the code is a step of `Http10Parser` or none.
  `Scan` and `Allocate` are none; `Push` is `DrainRequest`, `NothingFound`
  `DrainDone`, `Rethrow` `DrainThrows`, `ScanFails` `DecodeFails`, and the others
  their namesakes. The proof needs `ScanInv` for every step that ends a scan, and
  for `ScanFails` that the code allocates nothing before it has seen a line. It is
  the safety part of `ImplementsParser`.
* **`FeedAdvances`**: `FeedGetsOn`. `StepsLeft` counts two for each octet from
  `lineEnd` on and a few for the phase of the scan; every step of `feed` but its
  last lowers it. For a `Push`, which starts a new scan, this needs `ScanAhead`: a
  request reaches past the blank line found, since a sum that wrapped is
  never taken for its end. What is left of `FeedEnds` is that there always is a
  next step, and that it is taken, which is the fairness.

The containers:

* **`VecInvariant`, `VecTypeCorrect`, `KeepsOrder`, `LifetimesKept`,
  `BlocksAreFreedEmpty`, `PointersHoldOrder`** (`VecProofs`): under `Cautious` (no block whose size
  wraps, no element of the vector passed to its own `push_back`, which is what
  `vec_own_element` does) a vector holds what was promised, until
  it is torn; a vector of pointers is never torn. `Holds` relates the slots to
  a sequence, and each operation is one lemma about it. Of a tidy vector, in
  which no compaction was interrupted, it also says that no slot outside the
  window holds an object; hence a block that is outgrown is freed empty
  (`GrowthIsTidy`), and so is one that `reserve` gives up (`RollbackIsTidy`).
* **`HoldsWhatIsOwed`, `ObserversHold`, `OptionTypeCorrect`** (`OptionProofs`):
  the inductive invariant is the conjunction of the three. `HoldsUnlessTorn`
  needs the types, and the observers' answers follow from it; its core is that a
  flag over a new value, or an old one, shows something that is owed, unless the
  flag was raised over a value that was not stored.
* **`MapInvariant`, `TypeCorrect`, `ListStaysIntact`, `ListStaysInOrder`,
  `LookupsAgree`** (`HeaderMapProofs`): the four properties follow from `MapInv`,
  and none of them is inductive without the others. `Linked` says that both
  directions of the list are one sequence of all the nodes, each once;
  `Chained` that each chain runs through the nodes of its bucket from the newest
  to the oldest, which a rehash, an insertion and a removal all keep;
  `NamesDiffer` that no name is there twice, without which the first node of a
  chain would hide another. `Linked` survives a rehash that fails half way, the
  other two need not: that is what `damaged` excepts.

Induction. The theorems of the library that carry out an induction take an
operator as a parameter, which no installed prover instantiates. `NatsByInduction`
and `SubsetsByInduction` (`NaturalsLemmas`) state induction over a set instead,
proved from the least element of its complement, and `FoldExists` and
`FoldIsUnique` define folds by it. This is how the headers of a head, the value
of a numeral, the order of a list and the copy of a map are reasoned about.

Only model-checked:

* liveness (`FeedReturns`, `ArrivedIsQueued`, `FeedEnds`), which is out of the
  prover's reach, as is `ENABLED`; with it the fairness part of
  `ImplementsParser`, that weak fairness of `FeedStep` gives `FeedRuns`;
* the properties of the runs that expect a violation.

## 5. Abstractions

* In `Http10Parser`, `PushFails` may happen at any `push_back`, although `Vec`
  allocates only when it is full. The parser's properties hold of all these
  behaviours, so of the ones the code has, which are those of
  `Http10ParserCode`.
* The caller of `Http10ParserCode` deletes a request before it asks for the next
  one or feeds again, as the example in `Http10Parser.hpp` does; that of
  `Http10Parser` may hold any number.
* `DecodeFails` covers every allocation in the decoder: none changes the state
  of the parser, and those already made are freed by destructors, except for a
  request whose constructor fails, which `new` frees.
* The caller knows whether a failed `feed` has taken the chunk. A real one
  cannot tell, and neither code nor documentation says what it may then do, so
  that there is no promise to check; the hazard is listed.
* An option may be torn: `replace`, or an assignment, that raises the flag of an
  empty option and then fails to copy leaves the option Some, with the value it
  held before it was emptied. `Option.hpp` promises nothing about exceptions, so
  the state is modelled and its consequences are excepted from the properties.
* `DecodeExactly`, which is `BasicHttp10Request::decode`, throws when the buffer
  holds less than a request, where `HttpRequest.hpp:138-141` says an
  implementation should return NULL. The library never calls it.
* `Enabled` are the versions compiled in. `CMakeLists.txt` defines
  `KIREJI_ENABLE_HTTP2` and `KIREJI_ENABLE_HTTP3` where `parseHttpRequest.cpp`
  tests `KIREJI_ENABLE_HTTP2_0` and `KIREJI_ENABLE_HTTP3_0`, so that a build can
  enable the first two versions only; the instance has those.
* A huge `reserve` whose size in bytes wraps gets a small block (`Vec.cpp:44`).
  `Block` models it and `Cautious` excludes it from the theorems; no run asks for
  so much, and the library never does.
* Behaviour after a compaction has destroyed a live object, or while a bucket
  head dangles, is undefined and is not followed: the actions require `~torn`
  and `NothingDangles`.
* `hashLowerName` is the parameter `Hash`; the chains are right for every hash.
* Destroying a `Vec` or a `HeaderMap` is `Clear`: what remains of it is freed.

Not modelled:

* A copy constructor that throws leaves no object whose state could be spoken
  of; the block or the nodes it leaks need a heap shared between objects.
* `Vec::clearStorage` is never called. `operator<<` only formats. The default
  constructors and copies of `HttpRequest` assign fields and nothing else. The
  build files, benchmarks, examples and documentation pages hold no behaviour of
  the library.

## 6. Plan

Done, in this order: the codec and the parser with its contract; the proofs
about them; `Vec` with its proofs; `HeaderMap`; the proofs of order and
ownership; `Option` with its proofs; `parseHttpRequest` beside the parser; the
decoder as a scan; the parser composed with that scan and with `Vec`; the proofs
about that composition, about `HeaderMap`, about the dispatch and about `encode`;
the roll-back of `reserve` and the requests that were handed over.

Every part of the library that changes state is modelled, and every invariant a
passing run checks is stated by a theorem, as is the measure by which `feed` comes
to its end. Next: a shared heap, for the failures of copy constructors.
