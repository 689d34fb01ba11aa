-------------------------------- MODULE Vec --------------------------------
(***************************************************************************)
(* Vec<T>: a block of slots of which a window holds the elements.  New     *)
(* elements go to the right end of the window, pop_front moves its left    *)
(* end; a full block is replaced by a larger one, and a window that has    *)
(* reached the right end of a block with room is moved to its beginning.   *)
(*                                                                         *)
(* promised is the sequence that Vec.hpp speaks of, kept beside the slots. *)
(***************************************************************************)
EXTENDS Integers, Sequences

CONSTANTS
  Value,          \* the elements, as far as they are told apart
  Raw,            \* a slot that holds no object
  Kinds,          \* which kinds of T are looked at (see trivial)
  Wrap,           \* 2^w / sizeof(T): a block of so many elements has 0 bytes
  Others,         \* the contents of the vectors that are copied
  OwnReferences,  \* the caller may pass v[i] to v.push_back
  MaxCapacity,    \* bound: capacities a behaviour asks for
  MaxFaults       \* bound: how many allocations may fail in a behaviour

ASSUME VecAssumption ==
  /\ Raw \notin Value
  /\ Kinds \subseteq BOOLEAN
  /\ OwnReferences \in BOOLEAN
  /\ Others \subseteq Seq(Value)
  /\ Wrap \in Nat \ {0} /\ MaxCapacity \in Nat /\ MaxFaults \in Nat

VARIABLES
  trivial,    \* T is int or a pointer, not std::string
  vec,        \* data, size, capacity and offset
  promised,   \* the elements the caller was promised (history)
  torn,       \* a compaction has destroyed or overwritten an element (history)
  littered,   \* a compaction has left copies in front of the window (history)
  forsaken,   \* a block was freed with objects in it (history)
  faults      \* how many allocations have failed

vars == <<trivial, vec, promised, torn, littered, forsaken, faults>>

(* The slots that hold the elements, and what is in them.                  *)
Window(v) == v.offset .. (v.offset + v.size - 1)
Elements(v) == [i \in 1..v.size |-> v.data[v.offset + i - 1]]

-----------------------------------------------------------------------------
(* Storage.                                                                *)

(* Calling the destructor: it does nothing to an int or a pointer.         *)
Destroyed(data, slots) ==
  [i \in DOMAIN data |-> IF i \in slots /\ ~trivial THEN Raw ELSE data[i]]

(* ::operator new(sizeof(T) * n), whose product wraps, with the elements   *)
(* of s constructed at its beginning.                                      *)
Block(n, s) ==
  [i \in 0 .. ((n % Wrap) - 1) |-> IF i < Len(s) THEN s[i + 1] ELSE Raw]

(* reserve(n), which never shrinks; the variant forgets the offset.        *)
ReservedFromStart(v, n) ==
  IF n <= v.capacity THEN v
  ELSE [data |-> Block(n, [i \in 1..v.size |-> v.data[i - 1]]),
        size |-> v.size, capacity |-> n, offset |-> 0]
Reserved(v, n) ==
  IF n <= v.capacity THEN v
  ELSE [data |-> Block(n, Elements(v)), size |-> v.size,
        capacity |-> n, offset |-> 0]

(* What reserve frees: the old block, once its elements are destroyed; or, *)
(* when the copy of an element throws, the new one, once the k copies that *)
(* are in it are destroyed.  The variant forgets these.                    *)
OldBlock(v) == Destroyed(v.data, Window(v))
NewBlock(v, n, k) == Block(n, SubSeq(Elements(v), 1, k))
RolledBack(v, n, k) == Destroyed(NewBlock(v, n, k), 0 .. (k - 1))

(* A block is freed with objects in it, which nobody can destroy any more. *)
Forsakes(data) == ~trivial /\ \E i \in DOMAIN data : data[i] # Raw
GrowthForsakes(v, n) == n > v.capacity /\ Forsakes(OldBlock(v))

(* The first k elements are copied to the beginning, from left to right: a *)
(* slot is read before a later copy reaches it.                            *)
Copied(v, k) ==
  [i \in DOMAIN v.data |-> IF i < k THEN v.data[v.offset + i] ELSE v.data[i]]

(* Compaction copies every element and only then destroys the originals;   *)
(* the variant leaves the offset where it was.                             *)
CompactedInPlace(v) == [v EXCEPT !.data = Destroyed(Copied(v, v.size), Window(v))]
Compacted(v) ==
  [data |-> Destroyed(Copied(v, v.size), Window(v)),
   size |-> v.size, capacity |-> v.capacity, offset |-> 0]

(* clear(); the variant forgets to run the destructors.                    *)
ForgetElements(v) == [v EXCEPT !.size = 0, !.offset = 0]
Cleared(v) ==
  [data |-> Destroyed(v.data, Window(v)),
   size |-> 0, capacity |-> v.capacity, offset |-> 0]

(* clear, reserve(n) and one push_back for each element of s, which        *)
(* neither grows nor compacts any more.                                    *)
Refilled(v, n, s) ==
  LET room == Reserved(Cleared(v), n)
  IN  [data |-> [i \in DOMAIN room.data |->
                   IF i < Len(s) THEN s[i + 1] ELSE room.data[i]],
       size |-> Len(s), capacity |-> room.capacity, offset |-> room.offset]

EmptyVec == [data |-> Block(0, <<>>), size |-> 0, capacity |-> 0, offset |-> 0]

(* The default constructor and the copy constructor.                       *)
Init ==
  /\ trivial \in Kinds
  /\ \E s \in Others : /\ vec = Refilled(EmptyVec, Len(s), s)
                       /\ promised = s
  /\ torn = FALSE /\ littered = FALSE /\ forsaken = FALSE
  /\ faults = 0

-----------------------------------------------------------------------------
(* push_back.                                                              *)

(* No slot is left at all; the variant looks at the right end only.        *)
IsFullAtEnd(v) == v.offset + v.size = v.capacity
IsFull(v) == v.size = v.capacity
NextCapacity(v) == IF v.capacity = 0 THEN 4 ELSE v.capacity * 2

(* The block has room, but only in front of the window.                    *)
AtEnd(v) == ~IsFull(v) /\ v.offset > 0 /\ v.offset + v.size = v.capacity

(* The copies land on elements that are still to be destroyed.             *)
Overlaps(v, k) == ~trivial /\ v.offset < k

WithRoom(v) == IF IsFull(v) THEN Reserved(v, NextCapacity(v))
               ELSE IF AtEnd(v) THEN Compacted(v)
               ELSE v

Placed(v, x) ==
  [data |-> [v.data EXCEPT ![v.offset + v.size] = x],
   size |-> v.size + 1, capacity |-> v.capacity, offset |-> v.offset]

(* What the parameter refers to: a value of the caller's own, or a slot.   *)
Outside(x) == [own |-> FALSE, at |-> x]
Own(slot) == [own |-> TRUE, at |-> slot]
References == {Outside(x) : x \in Value} \cup
              (IF OwnReferences THEN {Own(i) : i \in Window(vec)} ELSE {})

Meant(ref) == IF ref.own THEN vec.data[ref.at] ELSE ref.at

(* The parameter is read once room has been made.  Its slot may be in a    *)
(* block that was freed, or hold nothing any more: any value can be read.  *)
Read(ref, room) ==
  IF ~ref.own THEN {ref.at}
  ELSE IF IsFull(vec) \/ room.data[ref.at] = Raw THEN Value
  ELSE {room.data[ref.at]}

(* What a torn vector does next is undefined, and is not followed.         *)
PushBack(ref) ==
  LET room == WithRoom(vec)
  IN  /\ ~torn
      /\ room.capacity <= MaxCapacity
      /\ \E x \in Read(ref, room) : vec' = Placed(room, x)
      /\ promised' = Append(promised, Meant(ref))
      /\ torn' = (AtEnd(vec) /\ Overlaps(vec, vec.size))
      /\ forsaken' = (forsaken \/ GrowthForsakes(vec, room.capacity))
      /\ UNCHANGED <<trivial, littered, faults>>

(* The copy of an element throws during compaction: the copies made so far *)
(* are not destroyed.  They do no harm to the elements until they reach    *)
(* them.                                                                   *)
CompactionFails(k) ==
  /\ ~torn /\ ~trivial
  /\ faults < MaxFaults
  /\ AtEnd(vec)
  /\ vec' = [vec EXCEPT !.data = Copied(vec, k)]
  /\ torn' = Overlaps(vec, k)
  /\ littered' = (littered \/ k > 0)
  /\ faults' = faults + 1
  /\ UNCHANGED <<trivial, promised, forsaken>>

(* The copy of the new element throws, after room was made for it.         *)
PlacementFails ==
  /\ ~torn /\ ~trivial
  /\ faults < MaxFaults
  /\ WithRoom(vec).capacity <= MaxCapacity
  /\ vec' = WithRoom(vec)
  /\ torn' = (AtEnd(vec) /\ Overlaps(vec, vec.size))
  /\ forsaken' = (forsaken \/ GrowthForsakes(vec, vec'.capacity))
  /\ faults' = faults + 1
  /\ UNCHANGED <<trivial, promised, littered>>

-----------------------------------------------------------------------------
(* The other operations.                                                   *)

(* The front element leaves; the variant forgets to move the window.       *)
PoppedInPlace(v) == [v EXCEPT !.data = Destroyed(v.data, {v.offset}),
                              !.size = @ - 1]
Popped(v) ==
  [data |-> Destroyed(v.data, {v.offset}),
   size |-> v.size - 1, capacity |-> v.capacity,
   offset |-> IF v.size = 1 THEN 0 ELSE v.offset + 1]

(* An empty vector throws and stays as it is.                              *)
PopFront ==
  /\ ~torn
  /\ vec.size > 0
  /\ vec' = Popped(vec)
  /\ promised' = Tail(promised)
  /\ UNCHANGED <<trivial, torn, littered, forsaken, faults>>

(* The copy of the element to be returned throws first: nothing changes.   *)
PopFrontFails ==
  /\ ~torn /\ ~trivial
  /\ faults < MaxFaults
  /\ vec.size > 0
  /\ faults' = faults + 1
  /\ UNCHANGED <<trivial, vec, promised, torn, littered, forsaken>>

Reserve(n) ==
  /\ ~torn
  /\ vec' = Reserved(vec, n)
  /\ forsaken' = (forsaken \/ GrowthForsakes(vec, n))
  /\ UNCHANGED <<trivial, promised, torn, littered, faults>>

(* reserve(n), on its own or in push_back, gets no block, or has copied k  *)
(* elements when a copy throws: the old block stays as it was.             *)
ReserveFails(n, k) ==
  /\ ~torn
  /\ faults < MaxFaults
  /\ n > vec.capacity
  /\ k = 0 \/ (~trivial /\ k < vec.size)
  /\ forsaken' = (forsaken \/ Forsakes(RolledBack(vec, n, k)))
  /\ faults' = faults + 1
  /\ UNCHANGED <<trivial, vec, promised, torn, littered>>

(* clear; the destructor runs it and frees the block.                      *)
Clear ==
  /\ ~torn
  /\ vec' = Cleared(vec)
  /\ promised' = <<>>
  /\ UNCHANGED <<trivial, torn, littered, forsaken, faults>>

(* operator= from a vector that holds s.                                   *)
Assign(s) ==
  /\ ~torn
  /\ vec' = Refilled(vec, Len(s), s)
  /\ promised' = s
  /\ forsaken' = (forsaken \/ GrowthForsakes(Cleared(vec), Len(s)))
  /\ UNCHANGED <<trivial, torn, littered, faults>>

(* operator= throws after the old elements are gone, at reserve or at the  *)
(* copy of an element: what is left is a beginning of s, and of s only.    *)
AssignFails(s, k) ==
  /\ ~torn
  /\ faults < MaxFaults
  /\ \/ /\ k = 0 /\ Len(s) > vec.capacity
        /\ vec' = Cleared(vec)
        /\ UNCHANGED forsaken
     \/ /\ ~trivial /\ k < Len(s)
        /\ vec' = Refilled(vec, Len(s), SubSeq(s, 1, k))
        /\ forsaken' = (forsaken \/ GrowthForsakes(Cleared(vec), Len(s)))
  /\ promised' = SubSeq(s, 1, k)
  /\ faults' = faults + 1
  /\ UNCHANGED <<trivial, torn, littered>>

Next ==
  \/ \E ref \in References : PushBack(ref)
  \/ \E k \in 0 .. (vec.size - 1) : CompactionFails(k)
  \/ PlacementFails
  \/ PopFront \/ PopFrontFails
  \/ \E n \in 0..MaxCapacity : Reserve(n)
  \/ \E n \in 0..MaxCapacity : \E k \in 0..vec.size : ReserveFails(n, k)
  \/ Clear
  \/ \E s \in Others : Assign(s)
  \/ \E s \in Others : \E k \in 0..Len(s) : AssignFails(s, k)

Spec == Init /\ [][Next]_vars

-----------------------------------------------------------------------------

(* The window lies inside the capacity, and starts at the beginning of the *)
(* block when it is empty.                                                 *)
TypeOK ==
  /\ trivial \in Kinds
  /\ vec \in [data : [0 .. ((vec.capacity % Wrap) - 1) -> Value \cup {Raw}],
              size : Nat, capacity : Nat, offset : Nat]
  /\ vec.offset + vec.size <= vec.capacity
  /\ vec.size = 0 => vec.offset = 0
  /\ promised \in Seq(Value)
  /\ torn \in BOOLEAN /\ littered \in BOOLEAN /\ forsaken \in BOOLEAN
  /\ faults \in 0..MaxFaults

(* "keeps values in insertion order" (Vec.hpp): reading the elements from  *)
(* front to back gives those the caller pushed and has not popped, after   *)
(* any growth, compaction, copy and failed allocation.                     *)
KeepsInsertionOrder == Elements(vec) = promised

(* The same for pointers, the elements of all vectors in the library, to   *)
(* which compaction does no harm.                                          *)
PointersKeepOrder == trivial => KeepsInsertionOrder

(* The same for elements with a destructor, as long as no compaction has   *)
(* copied elements on top of others that are still to be destroyed.  One   *)
(* that an exception ends before that loses no element.                    *)
KeepsOrderUnlessTorn == ~torn => Elements(vec) = promised

(* Every object constructed in the block is an element, and every element  *)
(* is an object: nothing is destroyed twice and nothing is forgotten.  An  *)
(* interrupted compaction leaves objects behind that are no elements.      *)
Lifetimes ==
  ~trivial /\ ~torn /\ ~littered =>
    {i \in DOMAIN vec.data : vec.data[i] # Raw} = Window(vec)

(* No object is forgotten in a block that is given back: not in the old    *)
(* one when the vector grows, and not in the new one when a copy throws    *)
(* and reserve undoes the copies before it.                                *)
BlocksFreedEmpty == ~torn /\ ~littered => ~forsaken

=============================================================================
