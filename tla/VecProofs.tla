----------------------------- MODULE VecProofs -----------------------------
(***************************************************************************)
(* Vec keeps the elements it was given, in order, and the objects in its   *)
(* block are exactly its elements, for every set of values and capacities. *)
(*                                                                         *)
(* Two things are assumed of the callers: they ask for no block whose size *)
(* in bytes wraps around, and they do not pass an element of the vector to *)
(* its own push_back.  Elements with a destructor survive only as long as  *)
(* no compaction overlaps itself.                                          *)
(*                                                                         *)
(* Holds(v, p, tidy) relates the slots of v to the sequence p; if tidy,    *)
(* there is no object in any other slot.  Each operation on v is a lemma   *)
(* about Holds, and the invariant says that Holds(vec, promised,           *)
(* ~littered) is true until the vector is torn.                            *)
(***************************************************************************)
EXTENDS Vec, TLAPS

Cautious ==
  /\ ~OwnReferences
  /\ MaxCapacity < Wrap
  /\ \A s \in Others : Len(s) < Wrap

IsVec(v) ==
  /\ v \in [data : [0 .. (v.capacity - 1) -> Value \cup {Raw}],
            size : Nat, capacity : Nat, offset : Nat]
  /\ v.offset + v.size <= v.capacity
  /\ v.size = 0 => v.offset = 0
  /\ v.capacity < Wrap

Holds(v, p, tidy) ==
  /\ IsVec(v)
  /\ p \in Seq(Value) /\ Len(p) = v.size
  /\ \A i \in 1..v.size : v.data[v.offset + i - 1] = p[i]
  /\ ~trivial /\ tidy => \A i \in 0 .. (v.capacity - 1) :
                            v.data[i] # Raw => i \in Window(v)

VecInv ==
  /\ trivial \in Kinds
  /\ IsVec(vec)
  /\ promised \in Seq(Value)
  /\ torn \in BOOLEAN /\ littered \in BOOLEAN /\ forsaken \in BOOLEAN
  /\ faults \in 0..MaxFaults
  /\ ~torn => Holds(vec, promised, ~littered)
  /\ BlocksFreedEmpty

-----------------------------------------------------------------------------
(* The operations on storage.                                              *)

(* A block of n slots really has n slots when its size does not wrap, and  *)
(* begins with the elements it was made from.                              *)
LEMMA BlockIsReal ==
  ASSUME NEW n \in Nat, n < Wrap, NEW s \in Seq(Value), Len(s) <= n
  PROVE  /\ Block(n, s) \in [0 .. (n - 1) -> Value \cup {Raw}]
         /\ \A i \in 0 .. (n - 1) :
              Block(n, s)[i] = IF i < Len(s) THEN s[i + 1] ELSE Raw
<1>1. n % Wrap = n
  BY VecAssumption
<1>2. Block(n, s) = [i \in 0 .. (n - 1) |-> IF i < Len(s) THEN s[i + 1] ELSE Raw]
  BY <1>1 DEF Block
<1>3. \A i \in 0 .. (n - 1) : i < Len(s) => s[i + 1] \in Value
  OBVIOUS
<1> QED
  BY <1>2, <1>3

(* The elements, read off the slots, are the promised sequence.            *)
LEMMA ElementsArePromised ==
  ASSUME NEW v, NEW p, NEW tidy, Holds(v, p, tidy)
  PROVE  Elements(v) = p
<1>1. /\ v.size \in Nat /\ p \in Seq(Value) /\ Len(p) = v.size
      /\ \A i \in 1..v.size : v.data[v.offset + i - 1] = p[i]
  BY DEF Holds, IsVec
<1>2. Elements(v) = [i \in 1..v.size |-> p[i]]
  BY <1>1 DEF Elements
<1> QED
  BY <1>1, <1>2

(* reserve keeps the elements.                                             *)
LEMMA ReserveHolds ==
  ASSUME NEW v, NEW p, NEW tidy, Holds(v, p, tidy), NEW n \in Nat, n < Wrap
  PROVE  Holds(Reserved(v, n), p, tidy)
<1>1. CASE n <= v.capacity
  BY <1>1 DEF Reserved
<1>2. CASE ~(n <= v.capacity)
  <2> DEFINE w == Reserved(v, n)
  <2>1. Elements(v) = p
    BY ElementsArePromised
  <2>2. w = [data |-> Block(n, p), size |-> v.size, capacity |-> n, offset |-> 0]
    BY <1>2, <2>1 DEF Reserved
  <2>3. /\ v.size \in Nat /\ v.capacity \in Nat /\ v.offset \in Nat
        /\ v.size <= n
        /\ p \in Seq(Value) /\ Len(p) = v.size
    BY <1>2 DEF Holds, IsVec
  <2>4. /\ Block(n, p) \in [0 .. (n - 1) -> Value \cup {Raw}]
        /\ \A i \in 0 .. (n - 1) :
             Block(n, p)[i] = IF i < Len(p) THEN p[i + 1] ELSE Raw
    BY <2>3, BlockIsReal
  <2>5. IsVec(w)
    BY <2>2, <2>3, <2>4 DEF IsVec
  <2>6. \A i \in 1..w.size : w.data[w.offset + i - 1] = p[i]
    BY <2>2, <2>3, <2>4
  <2>7. \A i \in 0 .. (w.capacity - 1) : w.data[i] # Raw => i \in Window(w)
    BY <2>2, <2>3, <2>4 DEF Window
  <2> QED
    BY <2>2, <2>3, <2>5, <2>6, <2>7 DEF Holds
<1> QED
  BY <1>1, <1>2

(* clear leaves no element and, in its block, no object.                   *)
LEMMA ClearHolds ==
  ASSUME NEW v, NEW p, NEW tidy, Holds(v, p, tidy)
  PROVE  Holds(Cleared(v), <<>>, tidy)
<1> DEFINE w == Cleared(v)
<1>1. /\ v \in [data : [0 .. (v.capacity - 1) -> Value \cup {Raw}],
                size : Nat, capacity : Nat, offset : Nat]
      /\ v.capacity < Wrap
  BY DEF Holds, IsVec
<1>2. /\ w = [data |-> w.data, size |-> 0, capacity |-> v.capacity, offset |-> 0]
      /\ w.data = [i \in 0 .. (v.capacity - 1) |->
                     IF i \in Window(v) /\ ~trivial THEN Raw ELSE v.data[i]]
  <2>1. DOMAIN v.data = 0 .. (v.capacity - 1)
    BY <1>1
  <2>2. w = [data |-> Destroyed(v.data, Window(v)), size |-> 0,
             capacity |-> v.capacity, offset |-> 0]
    BY DEF Cleared
  <2>3. Destroyed(v.data, Window(v)) =
          [i \in 0 .. (v.capacity - 1) |->
             IF i \in Window(v) /\ ~trivial THEN Raw ELSE v.data[i]]
    BY <2>1 DEF Destroyed
  <2> QED
    BY <2>2, <2>3
<1>3. IsVec(w)
  BY <1>1, <1>2 DEF IsVec
<1>4. ~trivial /\ tidy => \A i \in 0 .. (v.capacity - 1) : w.data[i] = Raw
  BY <1>2 DEF Holds
<1> QED
  BY <1>2, <1>3, <1>4 DEF Holds

(* A cleared vector that is filled with s holds s.                         *)
LEMMA RefillHolds ==
  ASSUME NEW v, NEW p, NEW tidy, Holds(v, p, tidy), NEW n \in Nat, n < Wrap,
         NEW s \in Seq(Value), Len(s) <= n
  PROVE  Holds(Refilled(v, n, s), s, tidy)
<1> DEFINE room == Reserved(Cleared(v), n)
           w == Refilled(v, n, s)
<1>1. Holds(room, <<>>, tidy)
  BY ClearHolds, ReserveHolds
<1> HIDE DEF room
<1>2. /\ room \in [data : [0 .. (room.capacity - 1) -> Value \cup {Raw}],
                   size : Nat, capacity : Nat, offset : Nat]
      /\ room.size = 0 /\ room.offset = 0 /\ room.capacity < Wrap
      /\ ~trivial /\ tidy =>
           \A i \in 0 .. (room.capacity - 1) : room.data[i] = Raw
  <2>1. room.size = 0 /\ IsVec(room)
    BY <1>1 DEF Holds
  <2>2. ~trivial /\ tidy => \A i \in 0 .. (room.capacity - 1) :
                              room.data[i] # Raw => i \in Window(room)
    BY <1>1 DEF Holds
  <2>3. room.offset = 0 /\ room.capacity \in Nat
    BY <2>1 DEF IsVec
  <2>4. Window(room) = {}
    BY <2>1, <2>3 DEF Window
  <2>5. ~trivial /\ tidy =>
          \A i \in 0 .. (room.capacity - 1) : room.data[i] = Raw
    BY <2>2, <2>4
  <2> QED
    BY <2>1, <2>3, <2>5 DEF IsVec
<1>3. n <= room.capacity
  <2>1. Cleared(v).capacity \in Nat
    BY ClearHolds DEF Holds, IsVec
  <2> QED
    BY <2>1 DEF Reserved, room
<1>4. /\ w = [data |-> w.data, size |-> Len(s), capacity |-> room.capacity,
              offset |-> 0]
      /\ w.data = [i \in 0 .. (room.capacity - 1) |->
                     IF i < Len(s) THEN s[i + 1] ELSE room.data[i]]
  BY <1>2 DEF Refilled, room
<1>5. \A i \in 0 .. (room.capacity - 1) : i < Len(s) => s[i + 1] \in Value
  OBVIOUS
<1>6. w.data \in [0 .. (room.capacity - 1) -> Value \cup {Raw}]
  BY <1>2, <1>4, <1>5
<1>7. IsVec(w)
  BY <1>2, <1>3, <1>4, <1>6 DEF IsVec
<1>8. \A i \in 1..w.size : w.data[w.offset + i - 1] = s[i]
  BY <1>2, <1>3, <1>4
<1>9. ~trivial /\ tidy => \A i \in 0 .. (w.capacity - 1) :
                            w.data[i] # Raw => i \in Window(w)
  BY <1>2, <1>3, <1>4 DEF Window
<1>10. w.size = Len(s)
  BY <1>4
<1> HIDE DEF w
<1>11. Holds(w, s, tidy)
  BY <1>7, <1>8, <1>9, <1>10 DEF Holds
<1> QED
  BY <1>11 DEF w

(* Compaction leaves a vector, whatever it has done to the objects.        *)
LEMMA CompactIsVec ==
  ASSUME NEW v, IsVec(v)
  PROVE  IsVec(Compacted(v))
<1>1. /\ v \in [data : [0 .. (v.capacity - 1) -> Value \cup {Raw}],
                size : Nat, capacity : Nat, offset : Nat]
      /\ v.offset + v.size <= v.capacity /\ v.capacity < Wrap
  BY DEF IsVec
<1>2. \A i \in 0 .. (v.capacity - 1) :
        i < v.size => v.offset + i \in 0 .. (v.capacity - 1)
  BY <1>1
<1>3. Copied(v, v.size) \in [0 .. (v.capacity - 1) -> Value \cup {Raw}]
  BY <1>1, <1>2 DEF Copied
<1>4. Destroyed(Copied(v, v.size), Window(v))
        \in [0 .. (v.capacity - 1) -> Value \cup {Raw}]
  BY <1>3 DEF Destroyed
<1> QED
  BY <1>1, <1>4 DEF Compacted, IsVec

(* Compaction that does not overlap itself keeps the elements.  For a type *)
(* with a destructor the copies then end in front of the originals.        *)
LEMMA CompactHolds ==
  ASSUME NEW v, NEW p, NEW tidy, Holds(v, p, tidy), ~Overlaps(v, v.size)
  PROVE  Holds(Compacted(v), p, tidy)
<1> DEFINE w == Compacted(v)
           copied == Copied(v, v.size)
<1>1. /\ v \in [data : [0 .. (v.capacity - 1) -> Value \cup {Raw}],
                size : Nat, capacity : Nat, offset : Nat]
      /\ v.offset + v.size <= v.capacity
      /\ p \in Seq(Value) /\ Len(p) = v.size
      /\ \A i \in 1..v.size : v.data[v.offset + i - 1] = p[i]
  BY DEF Holds, IsVec
<1>2. /\ w.size = v.size /\ w.offset = 0 /\ w.capacity = v.capacity
      /\ w.data = Destroyed(copied, Window(v))
  BY DEF Compacted
<1>3. copied = [i \in 0 .. (v.capacity - 1) |->
                  IF i < v.size THEN v.data[v.offset + i] ELSE v.data[i]]
  BY <1>1 DEF Copied
<1>4. w.data = [i \in 0 .. (v.capacity - 1) |->
                  IF i \in Window(v) /\ ~trivial THEN Raw ELSE copied[i]]
  BY <1>2, <1>3 DEF Destroyed
<1>5. IsVec(w)
  BY CompactIsVec DEF Holds
<1>6. \A i \in 0 .. (v.size - 1) : copied[i] = p[i + 1]
  BY <1>1, <1>3
<1>7. \A i \in 0 .. (v.size - 1) : ~(i \in Window(v) /\ ~trivial)
  <2>1. ~trivial => \A i \in 0 .. (v.size - 1) : i < v.offset
    BY <1>1 DEF Overlaps
  <2> QED
    BY <1>1, <2>1 DEF Window
<1>8. \A i \in 0 .. (v.size - 1) : w.data[i] = p[i + 1]
  <2> TAKE i \in 0 .. (v.size - 1)
  <2>1. i \in 0 .. (v.capacity - 1)
    BY <1>1
  <2>2. w.data[i] = copied[i]
    BY <1>4, <1>7, <2>1
  <2> QED
    BY <1>6, <2>2
<1> HIDE DEF w, copied
<1>9. \A i \in 1..w.size : w.data[w.offset + i - 1] = p[i]
  <2> SUFFICES ASSUME NEW i \in 1..v.size PROVE w.data[i - 1] = p[i]
    BY <1>1, <1>2
  <2>1. i - 1 \in 0 .. (v.size - 1) /\ (i - 1) + 1 = i
    BY <1>1
  <2> QED
    BY <1>8, <2>1
<1>10. ASSUME ~trivial, tidy, NEW i \in 0 .. (v.capacity - 1), w.data[i] # Raw
       PROVE  i \in Window(w)
  <2>1. i \notin Window(v) /\ w.data[i] = copied[i]
    BY <1>4, <1>10
  <2>2. v.data[i] = Raw
    BY <1>10, <2>1 DEF Holds
  <2>3. i < v.size
    BY <1>1, <1>3, <1>10, <2>1, <2>2
  <2> QED
    BY <1>1, <1>2, <2>3 DEF Window
<1>11. Holds(w, p, tidy)
  BY <1>1, <1>2, <1>5, <1>9, <1>10 DEF Holds
<1> QED
  BY <1>11 DEF w

(* A new element is placed behind the last one.                            *)
LEMMA PlaceHolds ==
  ASSUME NEW v, NEW p, NEW tidy, Holds(v, p, tidy), v.offset + v.size < v.capacity,
         NEW x \in Value
  PROVE  Holds(Placed(v, x), Append(p, x), tidy)
<1> DEFINE w == Placed(v, x)
           q == Append(p, x)
<1>1. /\ v \in [data : [0 .. (v.capacity - 1) -> Value \cup {Raw}],
                size : Nat, capacity : Nat, offset : Nat]
      /\ v.capacity < Wrap
      /\ p \in Seq(Value) /\ Len(p) = v.size
      /\ \A i \in 1..v.size : v.data[v.offset + i - 1] = p[i]
  BY DEF Holds, IsVec
<1>2. /\ w = [data |-> w.data, size |-> v.size + 1, capacity |-> v.capacity,
              offset |-> v.offset]
      /\ w.data = [v.data EXCEPT ![v.offset + v.size] = x]
  BY DEF Placed
<1>3. /\ q \in Seq(Value) /\ Len(q) = v.size + 1 /\ q[v.size + 1] = x
      /\ \A i \in 1..v.size : q[i] = p[i]
  BY <1>1
<1>4. /\ w.data \in [0 .. (v.capacity - 1) -> Value \cup {Raw}]
      /\ w.data[v.offset + v.size] = x
      /\ \A i \in 0 .. (v.capacity - 1) :
           i # v.offset + v.size => w.data[i] = v.data[i]
  BY <1>1, <1>2
<1> HIDE DEF w, q
<1>5. IsVec(w)
  <2>1. /\ w.size = v.size + 1 /\ w.capacity = v.capacity
        /\ w.offset = v.offset /\ w.size # 0
    BY <1>1, <1>2
  <2>2. w \in [data : [0 .. (v.capacity - 1) -> Value \cup {Raw}],
              size : Nat, capacity : Nat, offset : Nat]
    <3>1. v.size + 1 \in Nat /\ v.capacity \in Nat /\ v.offset \in Nat
      BY <1>1
    <3> QED
      BY <1>2, <1>4, <3>1
  <2>3. w.offset + w.size <= w.capacity
    BY <1>1, <2>1
  <2> QED
    BY <1>1, <2>1, <2>2, <2>3 DEF IsVec
<1>6. \A i \in 1..w.size : w.data[w.offset + i - 1] = q[i]
  <2> SUFFICES ASSUME NEW i \in 1 .. (v.size + 1)
               PROVE  w.data[v.offset + i - 1] = q[i]
    BY <1>2
  <2>1. CASE i = v.size + 1
    <3>1. v.offset + i - 1 = v.offset + v.size
      BY <1>1, <2>1
    <3> QED
      BY <1>3, <1>4, <2>1, <3>1
  <2>2. CASE i \in 1..v.size
    <3>1. /\ v.offset + i - 1 \in 0 .. (v.capacity - 1)
          /\ v.offset + i - 1 # v.offset + v.size
      BY <1>1, <2>2
    <3> QED
      BY <1>1, <1>3, <1>4, <2>2, <3>1
  <2> QED
    BY <1>1, <2>1, <2>2
<1>7. ASSUME ~trivial, tidy, NEW i \in 0 .. (w.capacity - 1), w.data[i] # Raw
      PROVE  i \in Window(w)
  <2>1. i \in 0 .. (v.capacity - 1)
    BY <1>2
  <2>2. CASE i = v.offset + v.size
    BY <1>1, <1>2, <2>2 DEF Window
  <2>3. CASE i # v.offset + v.size
    <3>1. v.data[i] # Raw
      BY <1>4, <1>7, <2>1, <2>3
    <3>2. i \in Window(v)
      BY <1>7, <2>1, <3>1 DEF Holds
    <3> QED
      BY <1>1, <1>2, <3>2 DEF Window
  <2> QED
    BY <2>2, <2>3
<1>8. Holds(w, q, tidy)
  BY <1>2, <1>3, <1>5, <1>6, <1>7 DEF Holds
<1> QED
  BY <1>8 DEF w, q

(* The front element leaves, and no other.                                 *)
LEMMA PopHolds ==
  ASSUME NEW v, NEW p, NEW tidy, Holds(v, p, tidy), v.size > 0
  PROVE  Holds(Popped(v), Tail(p), tidy)
<1> DEFINE w == Popped(v)
           q == Tail(p)
<1>1. /\ v \in [data : [0 .. (v.capacity - 1) -> Value \cup {Raw}],
                size : Nat, capacity : Nat, offset : Nat]
      /\ v.offset + v.size <= v.capacity /\ v.capacity < Wrap
      /\ p \in Seq(Value) /\ Len(p) = v.size /\ v.size > 0
      /\ \A i \in 1..v.size : v.data[v.offset + i - 1] = p[i]
  BY DEF Holds, IsVec
<1>2. w = [data |-> Destroyed(v.data, {v.offset}), size |-> v.size - 1,
           capacity |-> v.capacity,
           offset |-> IF v.size = 1 THEN 0 ELSE v.offset + 1]
  BY DEF Popped
<1>3. /\ q \in Seq(Value) /\ Len(q) = v.size - 1
      /\ \A i \in 1 .. (v.size - 1) : q[i] = p[i + 1]
  BY <1>1
<1>4. w.data = [i \in 0 .. (v.capacity - 1) |->
                  IF i \in {v.offset} /\ ~trivial THEN Raw ELSE v.data[i]]
  BY <1>1, <1>2 DEF Destroyed
<1>5. /\ w.data \in [0 .. (v.capacity - 1) -> Value \cup {Raw}]
      /\ \A i \in 0 .. (v.capacity - 1) :
           i # v.offset => w.data[i] = v.data[i]
      /\ ~trivial => w.data[v.offset] = Raw
  <2>1. v.offset \in 0 .. (v.capacity - 1)
    BY <1>1
  <2>2. w.data \in [0 .. (v.capacity - 1) -> Value \cup {Raw}]
    BY <1>1, <1>4
  <2> QED
    BY <1>4, <2>1, <2>2
<1> DEFINE start == IF v.size = 1 THEN 0 ELSE v.offset + 1
<1> HIDE DEF w, q
<1>6. IsVec(w)
  <2>1. /\ start \in Nat /\ start + (v.size - 1) <= v.capacity
        /\ v.size - 1 = 0 => start = 0
    BY <1>1
  <2>2. w = [data |-> w.data, size |-> v.size - 1, capacity |-> v.capacity,
             offset |-> start]
    BY <1>2
  <2> HIDE DEF start
  <2>3. /\ w.size = v.size - 1 /\ w.capacity = v.capacity
        /\ w.offset = start
    BY <2>2
  <2>4. w \in [data : [0 .. (v.capacity - 1) -> Value \cup {Raw}],
              size : Nat, capacity : Nat, offset : Nat]
    BY <1>1, <1>5, <2>1, <2>2
  <2> QED
    BY <1>1, <2>1, <2>3, <2>4 DEF IsVec
<1>7. \A i \in 1..w.size : w.data[w.offset + i - 1] = q[i]
  <2> SUFFICES ASSUME NEW i \in 1 .. (v.size - 1)
               PROVE  w.data[v.offset + i] = q[i]
    <3>1. w.size = v.size - 1
      BY <1>2
    <3>2. \A i \in 1 .. (v.size - 1) :
            w.offset = v.offset + 1 /\ v.offset + 1 + i - 1 = v.offset + i
      BY <1>1, <1>2
    <3> QED
      BY <3>1, <3>2
  <2>1. /\ v.offset + i \in 0 .. (v.capacity - 1) /\ v.offset + i # v.offset
        /\ i + 1 \in 1..v.size /\ v.offset + (i + 1) - 1 = v.offset + i
    BY <1>1
  <2>2. v.data[v.offset + i] = p[i + 1]
    BY <1>1, <2>1
  <2> QED
    BY <1>3, <1>5, <2>1, <2>2
<1>8. ASSUME ~trivial, tidy, NEW i \in 0 .. (w.capacity - 1), w.data[i] # Raw
      PROVE  i \in Window(w)
  <2>1. i \in 0 .. (v.capacity - 1) /\ i # v.offset
    BY <1>1, <1>2, <1>5, <1>8
  <2>2. i \in Window(v)
    BY <1>5, <1>8, <2>1 DEF Holds
  <2> QED
    BY <1>1, <1>2, <2>1, <2>2 DEF Window
<1>9. Holds(w, q, tidy)
  BY <1>2, <1>3, <1>6, <1>7, <1>8 DEF Holds
<1> QED
  BY <1>9 DEF w, q

-----------------------------------------------------------------------------
(* push_back.                                                              *)

(* Whatever push_back does to make room leaves a vector.                   *)
LEMMA RoomIsVec ==
  ASSUME NEW v, NEW p, NEW tidy, Holds(v, p, tidy), WithRoom(v).capacity < Wrap
  PROVE  IsVec(WithRoom(v))
<1>1. CASE IsFull(v)
  <2>1. NextCapacity(v) \in Nat /\ v.capacity \in Nat
    BY DEF Holds, IsVec, NextCapacity
  <2>2. WithRoom(v) = Reserved(v, NextCapacity(v))
    BY <1>1 DEF WithRoom
  <2>3. NextCapacity(v) < Wrap
    <3>1. NextCapacity(v) > v.capacity
      BY <2>1 DEF NextCapacity
    <3>2. Reserved(v, NextCapacity(v)).capacity = NextCapacity(v)
      BY <2>1, <3>1 DEF Reserved
    <3> QED
      BY <2>2, <3>2
  <2>4. Holds(Reserved(v, NextCapacity(v)), p, tidy)
    BY <2>1, <2>3, ReserveHolds
  <2> QED
    BY <2>2, <2>4 DEF Holds
<1>2. CASE ~IsFull(v) /\ AtEnd(v)
  BY <1>2, CompactIsVec DEF WithRoom, Holds
<1>3. CASE ~IsFull(v) /\ ~AtEnd(v)
  BY <1>3 DEF WithRoom, Holds
<1> QED
  BY <1>1, <1>2, <1>3

(* Making room keeps the elements, unless an overlapping compaction tears  *)
(* them.                                                                   *)
LEMMA RoomHolds ==
  ASSUME NEW v, NEW p, NEW tidy, Holds(v, p, tidy), WithRoom(v).capacity < Wrap,
         ~(AtEnd(v) /\ Overlaps(v, v.size))
  PROVE  Holds(WithRoom(v), p, tidy)
<1>1. CASE IsFull(v)
  <2>1. NextCapacity(v) \in Nat /\ v.capacity \in Nat
    BY DEF Holds, IsVec, NextCapacity
  <2>2. WithRoom(v) = Reserved(v, NextCapacity(v))
    BY <1>1 DEF WithRoom
  <2>3. NextCapacity(v) > v.capacity
    BY <2>1 DEF NextCapacity
  <2>4. Reserved(v, NextCapacity(v)).capacity = NextCapacity(v)
    BY <2>1, <2>3 DEF Reserved
  <2> QED
    BY <2>1, <2>2, <2>4, ReserveHolds
<1>2. CASE ~IsFull(v) /\ AtEnd(v)
  BY <1>2, CompactHolds DEF WithRoom
<1>3. CASE ~IsFull(v) /\ ~AtEnd(v)
  BY <1>3 DEF WithRoom
<1> QED
  BY <1>1, <1>2, <1>3

(* There is then a free slot behind the last element.                      *)
LEMMA RoomIsThere ==
  ASSUME NEW v, NEW p, NEW tidy, Holds(v, p, tidy)
  PROVE  WithRoom(v).offset + WithRoom(v).size < WithRoom(v).capacity
<1>1. /\ v.size \in Nat /\ v.capacity \in Nat /\ v.offset \in Nat
      /\ v.offset + v.size <= v.capacity
  BY DEF Holds, IsVec
<1>2. CASE IsFull(v)
  <2>1. NextCapacity(v) > v.capacity
    BY <1>1 DEF NextCapacity
  <2> QED
    <3>1. WithRoom(v) = Reserved(v, NextCapacity(v))
      BY <1>2 DEF WithRoom
    <3>2. ~(NextCapacity(v) <= v.capacity) /\ v.size < NextCapacity(v)
      <4>1. NextCapacity(v) \in Nat
        BY <1>1 DEF NextCapacity
      <4> QED
        BY <1>1, <2>1, <4>1
    <3>3. /\ WithRoom(v).offset = 0 /\ WithRoom(v).size = v.size
          /\ WithRoom(v).capacity = NextCapacity(v)
      BY <3>1, <3>2 DEF Reserved
    <3> QED
      BY <1>1, <3>2, <3>3
<1>3. CASE ~IsFull(v) /\ AtEnd(v)
  BY <1>1, <1>3 DEF WithRoom, Compacted, AtEnd
<1>4. CASE ~IsFull(v) /\ ~AtEnd(v)
  BY <1>1, <1>4 DEF WithRoom, AtEnd, IsFull
<1> QED
  BY <1>2, <1>3, <1>4

(* A new element leaves a vector even when the others were torn.           *)
LEMMA PlaceIsVec ==
  ASSUME NEW v, IsVec(v), v.offset + v.size < v.capacity, NEW x \in Value
  PROVE  IsVec(Placed(v, x))
<1> DEFINE w == Placed(v, x)
<1>1. /\ v \in [data : [0 .. (v.capacity - 1) -> Value \cup {Raw}],
                size : Nat, capacity : Nat, offset : Nat]
      /\ v.capacity < Wrap
  BY DEF IsVec
<1>2. w = [data |-> [v.data EXCEPT ![v.offset + v.size] = x],
           size |-> v.size + 1, capacity |-> v.capacity, offset |-> v.offset]
  BY DEF Placed
<1>3. [v.data EXCEPT ![v.offset + v.size] = x]
        \in [0 .. (v.capacity - 1) -> Value \cup {Raw}]
  BY <1>1
<1>4. v.size + 1 \in Nat /\ v.capacity \in Nat /\ v.offset \in Nat
  BY <1>1
<1>5. /\ w.size = v.size + 1 /\ w.capacity = v.capacity
      /\ w.offset = v.offset /\ w.size # 0
  BY <1>1, <1>2
<1>6. w \in [data : [0 .. (v.capacity - 1) -> Value \cup {Raw}],
             size : Nat, capacity : Nat, offset : Nat]
  BY <1>2, <1>3, <1>4
<1>7. w.offset + w.size <= w.capacity
  BY <1>1, <1>5
<1> QED
  BY <1>1, <1>5, <1>6, <1>7 DEF IsVec

-----------------------------------------------------------------------------
(* What reserve frees.                                                     *)

(* A tidy vector that grows frees a block without objects.                 *)
LEMMA GrowthIsTidy ==
  ASSUME NEW v, NEW p, Holds(v, p, TRUE)
  PROVE  ~Forsakes(OldBlock(v))
<1>1. /\ DOMAIN v.data = 0 .. (v.capacity - 1)
      /\ ~trivial => \A i \in 0 .. (v.capacity - 1) :
                       v.data[i] # Raw => i \in Window(v)
  BY DEF Holds, IsVec
<1> QED
  BY <1>1 DEF Forsakes, OldBlock, Destroyed

(* When reserve undoes the k copies it has made, none is left in the new   *)
(* block.                                                                  *)
LEMMA RollbackIsTidy ==
  ASSUME NEW v, NEW p, NEW tidy, Holds(v, p, tidy),
         NEW n \in Nat, n < Wrap, v.capacity < n, NEW k \in 0..v.size
  PROVE  ~Forsakes(RolledBack(v, n, k))
<1> DEFINE s == SubSeq(Elements(v), 1, k)
<1>1. /\ Elements(v) = p /\ p \in Seq(Value) /\ Len(p) = v.size
      /\ v.size \in Nat /\ v.size < n
  <2>1. /\ v.size \in Nat /\ v.offset \in Nat /\ v.capacity \in Nat
        /\ v.offset + v.size <= v.capacity
    BY DEF Holds, IsVec
  <2>2. v.size < n
    BY <2>1
  <2>3. p \in Seq(Value) /\ Len(p) = v.size
    BY DEF Holds
  <2>4. Elements(v) = p
    BY ElementsArePromised
  <2> QED
    BY <2>1, <2>2, <2>3, <2>4
<1>2. s \in Seq(Value) /\ Len(s) = k /\ k \in Nat /\ k <= n
  BY <1>1
<1> HIDE DEF s
<1>3. /\ DOMAIN Block(n, s) = 0 .. (n - 1)
      /\ \A i \in 0 .. (n - 1) :
           Block(n, s)[i] = IF i < k THEN s[i + 1] ELSE Raw
  BY <1>2, BlockIsReal
<1>4. \A i \in 0 .. (n - 1) : i < k \/ Block(n, s)[i] = Raw
  BY <1>3
<1>5. RolledBack(v, n, k) = Destroyed(Block(n, s), 0 .. (k - 1))
  BY DEF RolledBack, NewBlock, s
<1> QED
  BY <1>2, <1>3, <1>4, <1>5 DEF Forsakes, Destroyed

-----------------------------------------------------------------------------
(* The invariant.                                                          *)

(* Every vector begins with the elements it was copied from, or with none. *)
LEMMA InitHolds ==
  ASSUME Cautious, Init
  PROVE  VecInv
<1>1. Wrap \in Nat /\ MaxFaults \in Nat /\ 0 < Wrap
  BY VecAssumption
<1>2. Block(0, <<>>) \in [0 .. (0 - 1) -> Value \cup {Raw}]
  <2>1. <<>> \in Seq(Value) /\ Len(<<>>) <= 0
    OBVIOUS
  <2> QED
    BY <1>1, <2>1, BlockIsReal
<1>3. Holds(EmptyVec, <<>>, TRUE)
  <2>1. IsVec(EmptyVec)
    BY <1>1, <1>2 DEF EmptyVec, IsVec
  <2> QED
    BY <2>1 DEF EmptyVec, Holds
<1>4. PICK s \in Others : vec = Refilled(EmptyVec, Len(s), s) /\ promised = s
  BY DEF Init
<1>5. s \in Seq(Value) /\ Len(s) \in Nat /\ Len(s) < Wrap
  BY VecAssumption DEF Cautious
<1>6. Holds(vec, promised, TRUE)
  <2>1. Len(s) <= Len(s)
    BY <1>5
  <2>2. Holds(Refilled(EmptyVec, Len(s), s), s, TRUE)
    BY <1>3, <1>5, <2>1, RefillHolds
  <2> QED
    BY <1>4, <2>2
<1> QED
  <2>1. IsVec(vec) /\ promised \in Seq(Value)
    BY <1>6 DEF Holds
  <2>2. /\ torn = FALSE /\ littered = FALSE /\ forsaken = FALSE
        /\ faults = 0 /\ trivial \in Kinds
    BY DEF Init
  <2>3. faults \in 0..MaxFaults
    BY <1>1, <2>2
  <2> QED
    BY <1>6, <2>1, <2>2, <2>3 DEF VecInv, Holds, BlocksFreedEmpty

(* What has to be shown of a step, with the kind of T fixed.               *)
LEMMA InvAgain ==
  ASSUME VecInv, trivial' = trivial,
         torn' \in BOOLEAN, littered' \in BOOLEAN, forsaken' \in BOOLEAN,
         faults' \in 0..MaxFaults,
         IsVec(vec'), promised' \in Seq(Value),
         ~torn' => Holds(vec', promised', ~littered'),
         BlocksFreedEmpty'
  PROVE  VecInv'
BY DEF VecInv, IsVec, Holds, Window

(* A step that frees the block of a vector that holds its elements.        *)
LEMMA NothingForsaken ==
  ASSUME VecInv, ~torn, NEW v, NEW p, Holds(v, p, ~littered), NEW n,
         forsaken' = (forsaken \/ GrowthForsakes(v, n)), littered' = littered
  PROVE  BlocksFreedEmpty' /\ forsaken' \in BOOLEAN
<1>1. ~littered => ~forsaken
  BY DEF VecInv, BlocksFreedEmpty
<1>2. ASSUME ~littered PROVE ~GrowthForsakes(v, n)
  <2>1. Holds(v, p, TRUE)
    BY <1>2 DEF Holds
  <2> QED
    BY <2>1, GrowthIsTidy DEF GrowthForsakes
<1>3. BlocksFreedEmpty'
  BY <1>1, <1>2 DEF BlocksFreedEmpty
<1>4. forsaken' \in BOOLEAN
  BY DEF VecInv
<1> QED
  BY <1>3, <1>4

(* Every step of push_back preserves the invariant, and may end it.        *)
LEMMA PushBackKeepsInv ==
  ASSUME Cautious, VecInv, NEW ref \in References, PushBack(ref)
  PROVE  VecInv'
<1> DEFINE room == WithRoom(vec)
<1>1. /\ Holds(vec, promised, ~littered) /\ room.capacity < Wrap
  <2>1. room.capacity <= MaxCapacity /\ MaxCapacity < Wrap
    BY DEF PushBack, Cautious
  <2>2. vec.capacity \in Nat /\ Holds(vec, promised, ~littered)
    BY DEF VecInv, IsVec, PushBack
  <2>3. room.capacity \in Nat
    BY <2>2 DEF WithRoom, Reserved, NextCapacity, Compacted
  <2> QED
    BY <2>1, <2>2, <2>3, VecAssumption
<1>2. PICK x \in Value : ref = Outside(x)
  BY DEF References, Cautious
<1>3. Read(ref, room) = {x} /\ Meant(ref) = x
  BY <1>2 DEF Read, Meant, Outside
<1>4. /\ vec' = Placed(room, x) /\ promised' = Append(promised, x)
      /\ forsaken' = (forsaken \/ GrowthForsakes(vec, room.capacity))
      /\ littered' = littered /\ trivial' = trivial /\ ~torn
  BY <1>3 DEF PushBack
<1>5. IsVec(room) /\ room.offset + room.size < room.capacity
  BY <1>1, RoomIsVec, RoomIsThere
<1>6. IsVec(Placed(room, x))
  BY <1>5, PlaceIsVec
<1>7. ~torn' => Holds(Placed(room, x), Append(promised, x), ~littered)
  <2> SUFFICES ASSUME ~torn'
               PROVE  Holds(Placed(room, x), Append(promised, x), ~littered)
    OBVIOUS
  <2>1. ~(AtEnd(vec) /\ Overlaps(vec, vec.size))
    BY DEF PushBack
  <2>2. Holds(room, promised, ~littered)
    BY <1>1, <2>1, RoomHolds
  <2> QED
    BY <1>5, <2>2, PlaceHolds
<1> HIDE DEF room
<1>8. torn' \in BOOLEAN /\ littered' \in BOOLEAN /\ faults' \in 0..MaxFaults
  BY DEF PushBack, VecInv
<1>9. promised' \in Seq(Value)
  BY <1>4 DEF VecInv
<1>10. BlocksFreedEmpty' /\ forsaken' \in BOOLEAN
  BY <1>1, <1>4, NothingForsaken
<1>11. IsVec(vec') /\ (~torn' => Holds(vec', promised', ~littered'))
  BY <1>4, <1>6, <1>7
<1> QED
  BY <1>4, <1>8, <1>9, <1>10, <1>11, InvAgain

(* A push that fails after room was made keeps the elements it found.      *)
LEMMA PlacementFailsKeepsInv ==
  ASSUME Cautious, VecInv, PlacementFails
  PROVE  VecInv'
<1> DEFINE room == WithRoom(vec)
<1>1. Holds(vec, promised, ~littered) /\ room.capacity < Wrap
  <2>1. room.capacity <= MaxCapacity /\ MaxCapacity < Wrap
    BY DEF PlacementFails, Cautious
  <2>2. vec.capacity \in Nat /\ Holds(vec, promised, ~littered)
    BY DEF VecInv, IsVec, PlacementFails
  <2>3. room.capacity \in Nat
    BY <2>2 DEF WithRoom, Reserved, NextCapacity, Compacted
  <2> QED
    BY <2>1, <2>2, <2>3, VecAssumption
<1>2. IsVec(room)
  BY <1>1, RoomIsVec
<1>3. ~torn' => Holds(room, promised, ~littered)
  <2> SUFFICES ASSUME ~torn' PROVE Holds(room, promised, ~littered)
    OBVIOUS
  <2>1. ~(AtEnd(vec) /\ Overlaps(vec, vec.size))
    BY DEF PlacementFails
  <2> QED
    BY <1>1, <2>1, RoomHolds
<1>4. /\ vec' = room /\ promised' = promised /\ torn' \in BOOLEAN
      /\ forsaken' = (forsaken \/ GrowthForsakes(vec, vec'.capacity))
      /\ littered' = littered /\ trivial' = trivial /\ ~torn
  BY DEF PlacementFails
<1> HIDE DEF room
<1>5. /\ faults' \in 0..MaxFaults
      /\ promised' \in Seq(Value) /\ littered' \in BOOLEAN
  BY VecAssumption DEF PlacementFails, VecInv
<1>6. BlocksFreedEmpty' /\ forsaken' \in BOOLEAN
  BY <1>1, <1>4, NothingForsaken
<1>7. IsVec(vec') /\ (~torn' => Holds(vec', promised', ~littered'))
  BY <1>2, <1>3, <1>4
<1> QED
  BY <1>4, <1>5, <1>6, <1>7, InvAgain

(* An interrupted compaction keeps the elements as long as the copies have *)
(* not reached them, but leaves the copies behind.                         *)
LEMMA CompactionFailsKeepsInv ==
  ASSUME Cautious, VecInv, NEW k \in 0 .. (vec.size - 1), CompactionFails(k)
  PROVE  VecInv'
<1>1. /\ vec \in [data : [0 .. (vec.capacity - 1) -> Value \cup {Raw}],
                  size : Nat, capacity : Nat, offset : Nat]
      /\ vec.offset + vec.size <= vec.capacity /\ vec.capacity < Wrap
      /\ vec.size = 0 => vec.offset = 0
  BY DEF VecInv, IsVec
<1>2. /\ vec' = [vec EXCEPT !.data = Copied(vec, k)]
      /\ torn' = Overlaps(vec, k) /\ littered' = (littered \/ k > 0)
      /\ promised' = promised /\ forsaken' = forsaken /\ trivial' = trivial
      /\ ~torn /\ ~trivial
  BY DEF CompactionFails
<1>3. \A i \in 0 .. (vec.capacity - 1) :
        i < k => vec.offset + i \in 0 .. (vec.capacity - 1)
  BY <1>1
<1>4. Copied(vec, k) \in [0 .. (vec.capacity - 1) -> Value \cup {Raw}]
  BY <1>1, <1>3 DEF Copied
<1>5. vec' = [data |-> Copied(vec, k), size |-> vec.size,
              capacity |-> vec.capacity, offset |-> vec.offset]
  BY <1>1, <1>2
<1>6. IsVec(vec')
  BY <1>1, <1>4, <1>5 DEF IsVec
<1>7. Holds(vec, promised, ~littered)
  BY <1>2 DEF VecInv
<1>8. ASSUME ~torn' PROVE Holds(vec', promised', ~littered')
  <2>1. k \in Nat /\ k <= vec.offset
    <3>1. ~Overlaps(vec, k)
      BY <1>2, <1>8
    <3>2. ~(vec.offset < k)
      BY <1>2, <3>1 DEF Overlaps
    <3>3. vec.offset \in Nat /\ k \in Nat
      BY <1>1
    <3> QED
      BY <3>2, <3>3
  <2>2. /\ promised \in Seq(Value) /\ Len(promised) = vec.size
        /\ \A i \in 1..vec.size : vec.data[vec.offset + i - 1] = promised[i]
    BY <1>7 DEF Holds
  <2>3. \A i \in 1..vec.size : Copied(vec, k)[vec.offset + i - 1] = promised[i]
    <3> TAKE i \in 1..vec.size
    <3>1. /\ vec.offset + i - 1 \in 0 .. (vec.capacity - 1)
          /\ ~(vec.offset + i - 1 < k)
      BY <1>1, <2>1
    <3>2. Copied(vec, k)[vec.offset + i - 1] = vec.data[vec.offset + i - 1]
      BY <1>1, <3>1 DEF Copied
    <3> QED
      BY <2>2, <3>2
  <2>4. ASSUME ~littered', NEW i \in 0 .. (vec.capacity - 1),
               Copied(vec, k)[i] # Raw
        PROVE  i \in Window(vec)
    <3>1. k = 0 /\ ~littered
      <4>1. ~(littered \/ k > 0)
        BY <1>2, <2>4
      <4>2. ~littered /\ ~(k > 0)
        BY <4>1
      <4> QED
        BY <2>1, <4>2
    <3>2. Copied(vec, k)[i] = vec.data[i]
      BY <1>1, <3>1 DEF Copied
    <3> QED
      BY <1>2, <1>7, <2>4, <3>1, <3>2 DEF Holds
  <2>5. Window(vec') = Window(vec)
    BY <1>5 DEF Window
  <2> QED
    BY <1>2, <1>5, <1>6, <2>2, <2>3, <2>4, <2>5 DEF Holds
<1>9. torn' \in BOOLEAN /\ littered' \in BOOLEAN /\ forsaken' \in BOOLEAN
  <2>1. torn' \in BOOLEAN
    BY <1>2 DEF Overlaps
  <2>2. littered' \in BOOLEAN
    BY <1>2
  <2>3. forsaken' \in BOOLEAN
    BY <1>2 DEF VecInv
  <2> QED
    BY <2>1, <2>2, <2>3
<1>10. faults' \in 0..MaxFaults /\ promised' \in Seq(Value)
  BY VecAssumption DEF CompactionFails, VecInv
<1>11. BlocksFreedEmpty'
  BY <1>2 DEF VecInv, BlocksFreedEmpty
<1> QED
  BY <1>2, <1>6, <1>8, <1>9, <1>10, <1>11, InvAgain

(* Nothing is forgotten when reserve fails.                                *)
LEMMA ReserveFailsKeepsInv ==
  ASSUME Cautious, VecInv, NEW n \in 0..MaxCapacity, NEW k \in 0..vec.size,
         ReserveFails(n, k)
  PROVE  VecInv'
<1>1. /\ forsaken' = (forsaken \/ Forsakes(RolledBack(vec, n, k)))
      /\ UNCHANGED <<trivial, vec, promised, torn, littered>>
      /\ ~torn /\ n > vec.capacity
  BY DEF ReserveFails
<1>2. Holds(vec, promised, ~littered) /\ vec.capacity \in Nat
  BY <1>1 DEF VecInv, IsVec
<1>3. n \in Nat /\ n < Wrap /\ vec.capacity < n
  BY <1>1, <1>2, VecAssumption DEF Cautious
<1>4. ~Forsakes(RolledBack(vec, n, k))
  BY <1>2, <1>3, RollbackIsTidy
<1>5. forsaken' = forsaken
  BY <1>1, <1>4 DEF VecInv
<1>6. faults' \in 0..MaxFaults
  BY VecAssumption DEF ReserveFails, VecInv
<1>7. BlocksFreedEmpty'
  BY <1>1, <1>5 DEF VecInv, BlocksFreedEmpty
<1>8. /\ torn' \in BOOLEAN /\ littered' \in BOOLEAN /\ forsaken' \in BOOLEAN
      /\ IsVec(vec') /\ promised' \in Seq(Value) /\ trivial' = trivial
      /\ Holds(vec', promised', ~littered')
  BY <1>1, <1>2, <1>5 DEF VecInv
<1> QED
  BY <1>6, <1>7, <1>8, InvAgain

(* reserve and operator= may free a block; what they leave holds what they *)
(* promise.                                                                *)
LEMMA RefillsKeepInv ==
  ASSUME Cautious, VecInv,
         \/ \E n \in 0..MaxCapacity : Reserve(n)
         \/ \E s \in Others : Assign(s)
         \/ \E s \in Others : \E k \in 0..Len(s) : AssignFails(s, k)
  PROVE  VecInv'
<1>1. /\ Holds(vec, promised, ~littered) /\ ~torn /\ torn' = torn
      /\ littered' = littered /\ trivial' = trivial
  BY DEF VecInv, Reserve, Assign, AssignFails
<1>2. \A s \in Others : s \in Seq(Value) /\ Len(s) \in Nat /\ Len(s) < Wrap
  BY VecAssumption DEF Cautious
<1>3. faults' \in 0..MaxFaults
  BY VecAssumption DEF VecInv, Reserve, Assign, AssignFails
<1>4. Holds(Cleared(vec), <<>>, ~littered)
  BY <1>1, ClearHolds
<1> SUFFICES ASSUME TRUE
             PROVE  /\ Holds(vec', promised', ~littered)
                    /\ BlocksFreedEmpty' /\ forsaken' \in BOOLEAN
  <2>1. torn' \in BOOLEAN /\ littered' \in BOOLEAN
    BY <1>1 DEF VecInv
  <2>2. ASSUME Holds(vec', promised', ~littered)
        PROVE  IsVec(vec') /\ promised' \in Seq(Value)
    BY <2>2 DEF Holds
  <2> QED
    BY <1>1, <1>3, <2>1, <2>2, InvAgain
<1>5. ASSUME NEW n \in 0..MaxCapacity, Reserve(n)
      PROVE  /\ Holds(vec', promised', ~littered)
             /\ BlocksFreedEmpty' /\ forsaken' \in BOOLEAN
  <2>1. n \in Nat /\ n < Wrap
    BY VecAssumption DEF Cautious
  <2>2. Holds(Reserved(vec, n), promised, ~littered)
    BY <1>1, <2>1, ReserveHolds
  <2>3. BlocksFreedEmpty' /\ forsaken' \in BOOLEAN
    BY <1>1, <1>5, NothingForsaken DEF Reserve
  <2> QED
    BY <1>5, <2>2, <2>3 DEF Reserve
<1>6. ASSUME NEW s \in Others, Assign(s)
      PROVE  /\ Holds(vec', promised', ~littered)
             /\ BlocksFreedEmpty' /\ forsaken' \in BOOLEAN
  <2>1. Holds(Refilled(vec, Len(s), s), s, ~littered)
    BY <1>1, <1>2, RefillHolds
  <2>2. BlocksFreedEmpty' /\ forsaken' \in BOOLEAN
    BY <1>1, <1>4, <1>6, NothingForsaken DEF Assign
  <2> QED
    BY <1>6, <2>1, <2>2 DEF Assign
<1>7. ASSUME NEW s \in Others, NEW k \in 0..Len(s), AssignFails(s, k)
      PROVE  /\ Holds(vec', promised', ~littered)
             /\ BlocksFreedEmpty' /\ forsaken' \in BOOLEAN
  <2> DEFINE t == SubSeq(s, 1, k)
  <2>1. t \in Seq(Value) /\ Len(t) = k
    BY <1>2
  <2>2. promised' = t
    BY <1>7 DEF AssignFails
  <2>3. CASE k = 0 /\ vec' = Cleared(vec) /\ UNCHANGED forsaken
    <3>1. t = <<>>
      BY <2>1, <2>3
    <3>2. BlocksFreedEmpty' /\ forsaken' \in BOOLEAN
      BY <1>1, <2>3 DEF VecInv, BlocksFreedEmpty
    <3> QED
      BY <1>4, <2>2, <2>3, <3>1, <3>2
  <2>4. CASE /\ vec' = Refilled(vec, Len(s), t)
             /\ forsaken' = (forsaken \/ GrowthForsakes(Cleared(vec), Len(s)))
    <3> HIDE DEF t
    <3>1. Holds(Refilled(vec, Len(s), t), t, ~littered)
      BY <1>1, <1>2, <2>1, RefillHolds
    <3>2. BlocksFreedEmpty' /\ forsaken' \in BOOLEAN
      BY <1>1, <1>4, <2>4, NothingForsaken
    <3> QED
      BY <2>2, <2>4, <3>1, <3>2
  <2> QED
    BY <1>7, <2>3, <2>4 DEF AssignFails
<1> QED
  BY <1>5, <1>6, <1>7

(* The operations that keep the block.                                     *)
LEMMA OthersKeepInv ==
  ASSUME Cautious, VecInv, PopFront \/ PopFrontFails \/ Clear
  PROVE  VecInv'
<1>1. /\ Holds(vec, promised, ~littered) /\ torn = FALSE
      /\ UNCHANGED <<trivial, torn, littered, forsaken>>
  BY DEF VecInv, PopFront, PopFrontFails, Clear
<1>2. faults' \in 0..MaxFaults
  BY VecAssumption DEF VecInv, PopFront, PopFrontFails, Clear
<1>3. Holds(vec', promised', ~littered)
  <2>1. CASE PopFront
    <3>1. Holds(Popped(vec), Tail(promised), ~littered)
      BY <1>1, <2>1, PopHolds DEF PopFront
    <3> QED
      BY <2>1, <3>1 DEF PopFront
  <2>2. CASE PopFrontFails
    BY <1>1, <2>2 DEF PopFrontFails
  <2>3. CASE Clear
    <3>1. Holds(Cleared(vec), <<>>, ~littered)
      BY <1>1, ClearHolds
    <3> QED
      BY <2>3, <3>1 DEF Clear
  <2> QED
    BY <2>1, <2>2, <2>3
<1>4. /\ torn' \in BOOLEAN /\ littered' \in BOOLEAN /\ forsaken' \in BOOLEAN
      /\ BlocksFreedEmpty'
  BY <1>1 DEF VecInv, BlocksFreedEmpty
<1>5. IsVec(vec') /\ promised' \in Seq(Value)
  BY <1>3 DEF Holds
<1> QED
  BY <1>1, <1>2, <1>3, <1>4, <1>5, InvAgain

(* The invariant holds throughout.                                         *)
THEOREM VecInvariant == Cautious => (Spec => []VecInv)
<1> SUFFICES ASSUME Cautious PROVE Spec => []VecInv
  OBVIOUS
<1>1. Init => VecInv
  BY InitHolds
<1>2. VecInv /\ [Next]_vars => VecInv'
  <2> SUFFICES ASSUME VecInv, [Next]_vars PROVE VecInv'
    OBVIOUS
  <2>1. CASE \E ref \in References : PushBack(ref)
    BY <2>1, PushBackKeepsInv
  <2>2. CASE \E k \in 0 .. (vec.size - 1) : CompactionFails(k)
    BY <2>2, CompactionFailsKeepsInv
  <2>3. CASE PlacementFails
    BY <2>3, PlacementFailsKeepsInv
  <2>4. ASSUME NEW n \in 0..MaxCapacity, NEW k \in 0..vec.size,
               ReserveFails(n, k)
        PROVE  VecInv'
    BY <2>4, ReserveFailsKeepsInv
  <2>5. CASE \/ \E n \in 0..MaxCapacity : Reserve(n)
             \/ \E s \in Others : Assign(s)
             \/ \E s \in Others : \E k \in 0..Len(s) : AssignFails(s, k)
    BY <2>5, RefillsKeepInv
  <2>6. CASE PopFront \/ PopFrontFails \/ Clear
    BY <2>6, OthersKeepInv
  <2>7. CASE UNCHANGED vars
    BY <2>7 DEF vars, VecInv, IsVec, Holds, Window, BlocksFreedEmpty
  <2> QED
    BY <2>1, <2>2, <2>3, <2>4, <2>5, <2>6, <2>7 DEF Next
<1> QED
  BY <1>1, <1>2, PTL DEF Spec

(* The variables stay in their types.                                      *)
THEOREM VecTypeCorrect == Cautious => (Spec => []TypeOK)
<1>1. VecInv => TypeOK
  <2> SUFFICES ASSUME VecInv PROVE TypeOK
    OBVIOUS
  <2>1. vec.capacity % Wrap = vec.capacity
    <3>1. vec.capacity \in Nat /\ vec.capacity < Wrap
      BY DEF VecInv, IsVec
    <3> QED
      BY <3>1, VecAssumption
  <2> QED
    BY <2>1 DEF VecInv, IsVec, TypeOK
<1> QED
  BY <1>1, VecInvariant, PTL

(* The elements are those that were promised until the vector is torn.     *)
THEOREM KeepsOrder == Cautious => (Spec => []KeepsOrderUnlessTorn)
<1>1. VecInv => KeepsOrderUnlessTorn
  BY ElementsArePromised DEF VecInv, KeepsOrderUnlessTorn
<1> QED
  BY <1>1, VecInvariant, PTL

(* The objects of the block are its elements, until the vector is torn or  *)
(* an interrupted compaction leaves others behind.                         *)
THEOREM LifetimesKept == Cautious => (Spec => []Lifetimes)
<1>1. VecInv => Lifetimes
  <2> SUFFICES ASSUME VecInv, ~trivial, ~torn, ~littered
               PROVE  {i \in DOMAIN vec.data : vec.data[i] # Raw} = Window(vec)
    BY DEF Lifetimes
  <2>1. /\ vec \in [data : [0 .. (vec.capacity - 1) -> Value \cup {Raw}],
                    size : Nat, capacity : Nat, offset : Nat]
        /\ vec.offset + vec.size <= vec.capacity
        /\ promised \in Seq(Value) /\ Len(promised) = vec.size
        /\ \A i \in 1..vec.size : vec.data[vec.offset + i - 1] = promised[i]
        /\ \A i \in 0 .. (vec.capacity - 1) :
             vec.data[i] # Raw => i \in Window(vec)
    BY DEF VecInv, Holds, IsVec
  <2>2. ASSUME NEW i \in Window(vec)
        PROVE  i \in 0 .. (vec.capacity - 1) /\ vec.data[i] # Raw
    <3>1. /\ i \in 0 .. (vec.capacity - 1)
          /\ i - vec.offset + 1 \in 1..vec.size
          /\ vec.offset + (i - vec.offset + 1) - 1 = i
      BY <2>1 DEF Window
    <3>2. vec.data[i] = promised[i - vec.offset + 1]
      BY <2>1, <3>1
    <3>3. promised[i - vec.offset + 1] \in Value
      BY <2>1, <3>1
    <3> QED
      BY <3>1, <3>2, <3>3, VecAssumption
  <2> QED
    BY <2>1, <2>2
<1> QED
  BY <1>1, VecInvariant, PTL

(* No block is given back with an object in it, until then.                *)
THEOREM BlocksAreFreedEmpty == Cautious => (Spec => []BlocksFreedEmpty)
<1>1. VecInv => BlocksFreedEmpty
  BY DEF VecInv
<1> QED
  BY <1>1, VecInvariant, PTL

(* A vector of pointers is never torn: it keeps its elements in order      *)
(* whatever happens.                                                       *)
THEOREM PointersHoldOrder == Cautious => (Spec => []PointersKeepOrder)
<1> SUFFICES ASSUME Cautious
             PROVE  Spec => []PointersKeepOrder
  OBVIOUS
<1> DEFINE Whole == trivial => ~torn
<1>1. Init => Whole
  BY DEF Init
<1>2. Whole /\ [Next]_vars => Whole'
  BY DEF Next, vars, PushBack, Overlaps, CompactionFails, PlacementFails,
              PopFront, PopFrontFails, Reserve, ReserveFails, Clear, Assign,
              AssignFails
<1>3. Spec => []Whole
  BY <1>1, <1>2, PTL DEF Spec
<1>4. Whole /\ KeepsOrderUnlessTorn => PointersKeepOrder
  BY DEF KeepsOrderUnlessTorn, KeepsInsertionOrder, PointersKeepOrder
<1> QED
  BY <1>3, <1>4, KeepsOrder, PTL

=============================================================================
