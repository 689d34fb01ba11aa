---------------------------- MODULE OptionProofs ----------------------------
(***************************************************************************)
(* Option keeps its word for every type, every number of options, every    *)
(* function passed to and_then and any number of copies that throw.        *)
(***************************************************************************)
EXTENDS Option, TLAPS

(* What an option is seen as is owed, unless it is torn.                   *)
Sound(r) ==
  /\ r.option \in Storage
  /\ r.owed \in SUBSET Seen
  /\ r.torn \in BOOLEAN
  /\ ~r.torn => Unwrap(r.option) \in r.owed

OptionInv ==
  /\ option \in [Options -> Storage]
  /\ owed \in [Options -> SUBSET Seen]
  /\ torn \in [Options -> BOOLEAN]
  /\ faults \in 0..MaxFaults
  /\ \A o \in Options : ~torn[o] => Unwrap(option[o]) \in owed[o]

-----------------------------------------------------------------------------
(* Observers.                                                              *)

(* None is not a Some, and Some tells values apart.                        *)
LEMMA SeenApart ==
  /\ \A v : Some(v) # None /\ Some(v)[1] = v
  /\ \A v, w : Some(v) = Some(w) <=> v = w
BY DEF Some, None

(* What is seen of an option is None or Some.                              *)
LEMMA SeenCases ==
  ASSUME NEW seen \in Seen
  PROVE  seen = None \/ \E v \in Value : seen = Some(v)
BY DEF Seen

(* A new option is seen as it was asked for.                               *)
LEMMA BuiltIsSeen ==
  ASSUME NEW seen \in Seen
  PROVE  Built(seen) \in Storage /\ Unwrap(Built(seen)) = seen
<1>1. CASE seen = None
  BY <1>1, OptionAssumption DEF Built, NewNone, Storage, Unwrap
<1>2. CASE \E v \in Value : seen = Some(v)
  <2>1. PICK v \in Value : seen = Some(v)
    BY <1>2
  <2>2. seen # None /\ seen[1] = v
    BY <2>1, SeenApart
  <2>3. Built(seen) = [has_value_ |-> TRUE, value_ |-> v]
    BY <2>2 DEF Built, NewSome
  <2> QED
    BY <2>1, <2>3 DEF Storage, Unwrap
<1> QED
  BY <1>1, <1>2, SeenCases

(* unwrap on the members of an option.                                     *)
LEMMA UnwrapCases ==
  ASSUME NEW s \in Storage
  PROVE  /\ Unwrap(s) \in Seen
         /\ s.has_value_ => s.value_ \in Value /\ Unwrap(s) = Some(s.value_)
         /\ ~s.has_value_ => Unwrap(s) = None
BY DEF Storage, Unwrap, Seen

(* and_then and or_else are what Option.hpp says they are.                 *)
LEMMA AndThenIsChained ==
  ASSUME NEW s \in Storage, NEW next \in Nexts
  PROVE  /\ AndThen(s, next) \in Storage
         /\ Unwrap(AndThen(s, next)) = Chained(Unwrap(s), next)
<1>1. next \in [Value -> Seen]
  BY OptionAssumption
<1>2. CASE s.has_value_
  <2>1. next[s.value_] \in Seen
    BY <1>1, <1>2, UnwrapCases
  <2>2. AndThen(s, next) = Built(next[s.value_])
    BY <1>2 DEF AndThen
  <2>3. Chained(Unwrap(s), next) = next[s.value_]
    BY <1>2, UnwrapCases, SeenApart DEF Chained
  <2> QED
    BY <2>1, <2>2, <2>3, BuiltIsSeen
<1>3. CASE ~s.has_value_
  <2>1. AndThen(s, next) = Built(None) /\ None \in Seen
    BY <1>3 DEF AndThen, Built, Seen
  <2>2. Chained(Unwrap(s), next) = None
    BY <1>3, UnwrapCases DEF Chained
  <2> QED
    BY <2>1, <2>2, BuiltIsSeen
<1> QED
  BY <1>2, <1>3

(* or_else keeps a value or takes the other option.                        *)
LEMMA OrElseIsOtherwise ==
  ASSUME NEW s \in Storage, NEW other \in Seen
  PROVE  /\ OrElse(s, Built(other)) \in Storage
         /\ Unwrap(OrElse(s, Built(other))) = Otherwise(Unwrap(s), other)
<1>1. CASE s.has_value_
  BY <1>1, UnwrapCases, SeenApart DEF OrElse, Otherwise
<1>2. CASE ~s.has_value_
  BY <1>2, UnwrapCases, BuiltIsSeen DEF OrElse, Otherwise
<1> QED
  BY <1>1, <1>2

-----------------------------------------------------------------------------
(* Results and steps.                                                      *)

(* A result is sound when its parts are.                                   *)
LEMMA SoundWhen ==
  ASSUME NEW r, r.option \in Storage, r.owed \subseteq Seen,
         r.torn \in BOOLEAN, ~r.torn => Unwrap(r.option) \in r.owed
  PROVE  Sound(r)
BY DEF Sound

(* and_then gives an option.                                               *)
LEMMA ChainedIsSeen ==
  ASSUME NEW seen \in Seen, NEW next \in Nexts
  PROVE  Chained(seen, next) \in Seen
<1>1. next \in [Value -> Seen]
  BY OptionAssumption
<1>2. CASE seen = None
  BY <1>2 DEF Chained
<1>3. CASE \E v \in Value : seen = Some(v)
  BY <1>1, <1>3, SeenApart DEF Chained
<1> QED
  BY <1>2, <1>3, SeenCases

(* Whatever an option may be assigned is as good as the options it was     *)
(* computed from.                                                          *)
LEMMA ResultsAreSound ==
  ASSUME OptionInv, NEW r \in Results
  PROVE  Sound(r)
<1>1. CASE \E seen \in Seen : r = Fresh(seen)
  <2>1. PICK seen \in Seen : r = Fresh(seen)
    BY <1>1
  <2>2. r.option = Built(seen) /\ r.owed = {seen} /\ r.torn = FALSE
    BY <2>1 DEF Fresh, Result
  <2>3. /\ r.option \in Storage /\ r.owed \subseteq Seen
        /\ r.torn \in BOOLEAN /\ Unwrap(r.option) \in r.owed
    BY <2>2, BuiltIsSeen
  <2> QED
    BY <2>3, SoundWhen
<1>2. CASE \E o \in Options : r = CopyOf(o)
  <2>1. PICK o \in Options : r = CopyOf(o)
    BY <1>2
  <2>2. r.option = option[o] /\ r.owed = owed[o] /\ r.torn = torn[o]
    BY <2>1 DEF CopyOf, Result
  <2> QED
    BY <2>2 DEF Sound, OptionInv
<1>3. ASSUME NEW o \in Options, NEW next \in Nexts,
             r = AfterAndThen(o, next)
      PROVE  Sound(r)
  <2>1. /\ option[o] \in Storage /\ torn[o] \in BOOLEAN
        /\ owed[o] \subseteq Seen
        /\ ~torn[o] => Unwrap(option[o]) \in owed[o]
    BY DEF OptionInv
  <2>2. /\ r.option = AndThen(option[o], next) /\ r.torn = torn[o]
        /\ r.owed = {Chained(seen, next) : seen \in owed[o]}
    BY <1>3 DEF AfterAndThen, Result
  <2>3. \A seen \in owed[o] : Chained(seen, next) \in Seen
    BY <2>1, ChainedIsSeen
  <2>4. r.owed \subseteq Seen
    BY <2>1, <2>2, <2>3
  <2>5. /\ r.option \in Storage
        /\ Unwrap(r.option) = Chained(Unwrap(option[o]), next)
    BY <2>1, <2>2, AndThenIsChained
  <2>6. ~r.torn => Unwrap(r.option) \in r.owed
    <3>1. ~r.torn => Unwrap(option[o]) \in owed[o]
      BY <2>1, <2>2
    <3> QED
      BY <2>2, <2>5, <3>1
  <2>7. r.torn \in BOOLEAN
    BY <2>1, <2>2
  <2> QED
    BY <2>4, <2>5, <2>6, <2>7, SoundWhen
<1>4. ASSUME NEW o \in Options, NEW other \in Seen,
             r = AfterOrElse(o, other)
      PROVE  Sound(r)
  <2>1. /\ option[o] \in Storage /\ torn[o] \in BOOLEAN
        /\ owed[o] \subseteq Seen
        /\ ~torn[o] => Unwrap(option[o]) \in owed[o]
    BY DEF OptionInv
  <2>2. /\ r.option = OrElse(option[o], Built(other)) /\ r.torn = torn[o]
        /\ r.owed = {Otherwise(seen, other) : seen \in owed[o]}
    BY <1>4 DEF AfterOrElse, Result
  <2>3. \A seen \in owed[o] : Otherwise(seen, other) \in Seen
    BY <2>1 DEF Otherwise
  <2>4. r.owed \subseteq Seen
    BY <2>1, <2>2, <2>3
  <2>5. /\ r.option \in Storage
        /\ Unwrap(r.option) = Otherwise(Unwrap(option[o]), other)
    BY <2>1, <2>2, OrElseIsOtherwise
  <2>6. ~r.torn => Unwrap(r.option) \in r.owed
    <3>1. ~r.torn => Unwrap(option[o]) \in owed[o]
      BY <2>1, <2>2
    <3> QED
      BY <2>2, <2>5, <3>1
  <2>7. r.torn \in BOOLEAN
    BY <2>1, <2>2
  <2> QED
    BY <2>4, <2>5, <2>6, <2>7, SoundWhen
<1>5. \/ \E seen \in Seen : r = Fresh(seen)
      \/ \E o \in Options : r = CopyOf(o)
      \/ \E o \in Options, next \in Nexts : r = AfterAndThen(o, next)
      \/ \E o \in Options, other \in Seen : r = AfterOrElse(o, other)
  BY DEF Results
<1> QED
  BY <1>1, <1>2, <1>3, <1>4, <1>5

(* Putting a sound result into an option keeps the invariant.              *)
LEMMA PutKeepsInv ==
  ASSUME OptionInv, NEW o \in Options, NEW r, Sound(r), Put(o, r),
         faults' \in 0..MaxFaults
  PROVE  OptionInv'
BY DEF OptionInv, Put, Sound

(* take and replace, which store one option and return another, keep the   *)
(* invariant.                                                              *)
LEMMA PutAndReturnKeepsInv ==
  ASSUME OptionInv, NEW o \in Options, NEW to \in Options, NEW r, Sound(r),
         PutAndReturn(o, r, to), faults' \in 0..MaxFaults
  PROVE  OptionInv'
<1>1. \A p \in Options :
        /\ option'[p] = IF p = to THEN option[o]
                        ELSE IF p = o THEN r.option ELSE option[p]
        /\ owed'[p] = IF p = to THEN owed[o]
                      ELSE IF p = o THEN r.owed ELSE owed[p]
        /\ torn'[p] = IF p = to THEN torn[o]
                      ELSE IF p = o THEN r.torn ELSE torn[p]
  BY DEF OptionInv, PutAndReturn
<1>2. /\ option' \in [Options -> Storage]
      /\ owed' \in [Options -> SUBSET Seen]
      /\ torn' \in [Options -> BOOLEAN]
  BY DEF OptionInv, PutAndReturn, Sound
<1>3. \A p \in Options : ~torn'[p] => Unwrap(option'[p]) \in owed'[p]
  BY <1>1 DEF OptionInv, Sound
<1> QED
  BY <1>2, <1>3 DEF OptionInv

(* take and replace.                                                       *)
LEMMA CallsKeepInv ==
  ASSUME OptionInv, NEW o \in Options,
         Take(o) \/ \E v \in Value : Replace(o, v)
  PROVE  OptionInv'
<1>1. faults' \in 0..MaxFaults
  BY DEF OptionInv, Take, Replace
<1>2. option[o] \in Storage
  BY DEF OptionInv
<1>3. CASE Take(o)
  <2> DEFINE r == Result(Taken(option[o]), {None}, FALSE)
  <2>1. /\ r.option = Taken(option[o]) /\ r.owed = {None} /\ r.torn = FALSE
    BY DEF Result
  <2>2. Taken(option[o]) \in Storage /\ Unwrap(Taken(option[o])) = None
    BY <1>2 DEF Taken, Storage, Unwrap
  <2>3. Sound(r)
    BY <2>1, <2>2 DEF Sound, Seen
  <2>4. Put(o, r) \/ \E to \in Options : PutAndReturn(o, r, to)
    BY <1>3 DEF Take
  <2> HIDE DEF r
  <2> QED
    BY <1>1, <2>3, <2>4, PutKeepsInv, PutAndReturnKeepsInv
<1>4. ASSUME NEW v \in Value, Replace(o, v)
      PROVE  OptionInv'
  <2> DEFINE r == Result(Replaced(option[o], v), {Some(v)}, FALSE)
  <2>1. /\ r.option = Replaced(option[o], v) /\ r.owed = {Some(v)}
        /\ r.torn = FALSE
    BY DEF Result
  <2>2. /\ Replaced(option[o], v) \in Storage
        /\ Unwrap(Replaced(option[o], v)) = Some(v)
    BY DEF Replaced, Storage, Unwrap
  <2>3. Sound(r)
    BY <2>1, <2>2 DEF Sound, Seen
  <2>4. Put(o, r) \/ \E to \in Options : PutAndReturn(o, r, to)
    BY <1>4 DEF Replace
  <2> HIDE DEF r
  <2> QED
    BY <1>1, <2>3, <2>4, PutKeepsInv, PutAndReturnKeepsInv
<1> QED
  BY <1>3, <1>4

(* A store that fails leaves the old value with the new flag: that is the  *)
(* old state or the new one, or the option is torn.                        *)
LEMMA StoreFailsKeepsInv ==
  ASSUME OptionInv, NEW o \in Options, NEW r, Sound(r), StoreFails(o, r)
  PROVE  OptionInv'
<1> DEFINE h == Half(option[o], r.option)
           tear == \/ torn[o]
                   \/ r.torn
                   \/ r.option.has_value_ /\ ~option[o].has_value_
           q == Result(h, owed[o] \cup r.owed, tear)
<1>1. faults' \in 0..MaxFaults
  BY OptionAssumption DEF OptionInv, StoreFails, CanThrow
<1>2. /\ option[o] \in Storage /\ torn[o] \in BOOLEAN
      /\ owed[o] \in SUBSET Seen
      /\ ~torn[o] => Unwrap(option[o]) \in owed[o]
  BY DEF OptionInv
<1>3. /\ r.option \in Storage /\ r.torn \in BOOLEAN
      /\ r.owed \in SUBSET Seen
      /\ ~r.torn => Unwrap(r.option) \in r.owed
  BY DEF Sound
<1>4. h = [has_value_ |-> r.option.has_value_, value_ |-> option[o].value_]
  BY DEF Half
<1>5. h \in Storage
  BY <1>2, <1>3, <1>4 DEF Storage
<1>6. ASSUME ~tear PROVE Unwrap(h) \in owed[o] \cup r.owed
  <2>1. CASE ~r.option.has_value_
    BY <1>3, <1>4, <1>6, <2>1 DEF Unwrap
  <2>2. CASE r.option.has_value_
    BY <1>2, <1>4, <1>6, <2>2 DEF Unwrap
  <2> QED
    BY <2>1, <2>2
<1>7. tear \in BOOLEAN
  BY <1>2, <1>3 DEF Storage
<1>8. q.option = h /\ q.owed = owed[o] \cup r.owed /\ q.torn = tear
  BY DEF Result
<1>9. Put(o, q)
  BY DEF StoreFails
<1> HIDE DEF q, h, tear
<1>10. Sound(q)
  BY <1>2, <1>3, <1>5, <1>6, <1>7, <1>8 DEF Sound
<1> QED
  BY <1>1, <1>9, <1>10, PutKeepsInv

(* The invariant holds throughout.                                         *)
THEOREM OptionInvariant == Spec => []OptionInv
<1>1. Init => OptionInv
  <2> SUFFICES ASSUME Init PROVE OptionInv
    OBVIOUS
  <2>1. NewNone \in Storage /\ Unwrap(NewNone) = None /\ None \in Seen
    BY OptionAssumption DEF NewNone, Storage, Unwrap, Seen
  <2> QED
    BY <2>1, OptionAssumption DEF Init, OptionInv
<1>2. OptionInv /\ [Next]_vars => OptionInv'
  <2> SUFFICES ASSUME OptionInv, [Next]_vars PROVE OptionInv'
    OBVIOUS
  <2>1. CASE UNCHANGED vars
    BY <2>1 DEF vars, OptionInv
  <2>2. ASSUME NEW o \in Options,
               Take(o) \/ \E v \in Value : Replace(o, v)
        PROVE  OptionInv'
    BY <2>2, CallsKeepInv
  <2>3. ASSUME NEW o \in Options, NEW v \in Value, ReplaceFails(o, v)
        PROVE  OptionInv'
    <3>1. Fresh(Some(v)) \in Results
      BY DEF Results, Seen
    <3>2. Sound(Fresh(Some(v)))
      BY <3>1, ResultsAreSound
    <3> QED
      BY <2>3, <3>2, StoreFailsKeepsInv DEF ReplaceFails
  <2>4. ASSUME NEW o \in Options, NEW r \in Results, Assign(o, r)
        PROVE  OptionInv'
    <3>1. Sound(r) /\ faults' \in 0..MaxFaults
      BY <2>4, ResultsAreSound DEF Assign, OptionInv
    <3> QED
      BY <2>4, <3>1, PutKeepsInv DEF Assign
  <2>5. ASSUME NEW o \in Options, NEW r \in Results, AssignFails(o, r)
        PROVE  OptionInv'
    <3>1. Sound(r)
      BY ResultsAreSound
    <3> QED
      BY <2>5, <3>1, StoreFailsKeepsInv DEF AssignFails
  <2>6. ASSUME NEW o \in Options, CopyFails(o)
        PROVE  OptionInv'
    BY <2>6, OptionAssumption DEF CopyFails, CanThrow, OptionInv
  <2> QED
    BY <2>1, <2>2, <2>3, <2>4, <2>5, <2>6 DEF Next
<1> QED
  BY <1>1, <1>2, PTL DEF Spec

(* An option is seen as one of the states it is owed, whatever was taken,  *)
(* replaced, chained or assigned and whatever copies threw, unless a call  *)
(* failed between raising the flag and storing the value.                  *)
THEOREM HoldsWhatIsOwed == Spec => []HoldsUnlessTorn
<1>1. OptionInv => HoldsUnlessTorn
  BY DEF OptionInv, HoldsUnlessTorn
<1> QED
  BY <1>1, OptionInvariant, PTL

(* The members keep their types; in particular value_ is always a T.       *)
THEOREM OptionTypeCorrect == Spec => []TypeOK
<1>1. OptionInv => TypeOK
  BY DEF OptionInv, TypeOK
<1> QED
  BY <1>1, OptionInvariant, PTL

(* No observer reads a value that was taken.                               *)
THEOREM ObserversHold == Spec => []ObserversAgree
<1>1. OptionInv => ObserversAgree
  <2> SUFFICES ASSUME OptionInv, NEW o \in Options, ~torn[o]
               PROVE  \E seen \in owed[o] : \A v \in Value :
                        /\ IsSomeAnd(option[o], v) <=> seen = Some(v)
                        /\ IsNoneOr(option[o], v) <=> seen \in {None, Some(v)}
                        /\ UnwrapOr(option[o], v) = Otherwise(seen, Some(v))[1]
                        /\ UnwrapOrDefault(option[o])
                             = Otherwise(seen, Some(Default))[1]
    BY DEF ObserversAgree
  <2> DEFINE s == option[o]
  <2>1. s \in Storage /\ Unwrap(s) \in owed[o] /\ s.has_value_ \in BOOLEAN
    BY DEF OptionInv, Storage
  <2>2. ASSUME NEW v \in Value
        PROVE  /\ IsSomeAnd(s, v) <=> Unwrap(s) = Some(v)
               /\ IsNoneOr(s, v) <=> Unwrap(s) \in {None, Some(v)}
               /\ UnwrapOr(s, v) = Otherwise(Unwrap(s), Some(v))[1]
               /\ UnwrapOrDefault(s) = Otherwise(Unwrap(s), Some(Default))[1]
    <3>1. CASE s.has_value_
      <4>1. Unwrap(s) = Some(s.value_) /\ Unwrap(s) # None
        BY <2>1, <3>1, UnwrapCases, SeenApart
      <4> QED
        BY <3>1, <4>1, SeenApart
           DEF IsSomeAnd, IsNoneOr, UnwrapOr, UnwrapOrDefault, Otherwise
    <3>2. CASE ~s.has_value_
      <4>1. Unwrap(s) = None
        BY <2>1, <3>2, UnwrapCases
      <4> QED
        BY <3>2, <4>1, SeenApart
           DEF IsSomeAnd, IsNoneOr, UnwrapOr, UnwrapOrDefault, Otherwise
    <3> QED
      BY <3>1, <3>2
  <2> QED
    BY <2>1, <2>2
<1> QED
  BY <1>1, OptionInvariant, PTL

=============================================================================
