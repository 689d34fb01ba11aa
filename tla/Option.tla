------------------------------- MODULE Option -------------------------------
(***************************************************************************)
(* Option<T>: a flag and a T that is always there.  take only lowers the   *)
(* flag, so that the old value stays in value_ and every operation that    *)
(* reads value_ must look at the flag first.                               *)
(*                                                                         *)
(* owed is what Option.hpp promises of each option, kept beside it: None   *)
(* or Some(v), and after a failed call either the old or the new one.      *)
(***************************************************************************)
EXTENDS Integers, Sequences

CONSTANTS
  Options,    \* the options a caller keeps
  Value,      \* the values of T, as far as they are told apart
  Default,    \* T(), the one value whose copy allocates nothing
  Nexts,      \* the functions that callers pass to and_then
  MaxFaults   \* bound: how many copies of a T may throw in a behaviour

(* Option<T>, as its callers see it.                                       *)
None == <<>>
Some(v) == <<v>>
Seen == {None} \cup {Some(v) : v \in Value}

ASSUME OptionAssumption ==
  /\ None \notin Value
  /\ Default \in Value
  /\ Nexts \subseteq [Value -> Seen]
  /\ MaxFaults \in Nat

VARIABLES
  option,     \* the members of each option
  owed,       \* what each option may be seen as (history)
  torn,       \* a call failed between its two assignments (history)
  faults      \* how many copies have thrown

vars == <<option, owed, torn, faults>>

Storage == [has_value_ : BOOLEAN, value_ : Value]

-----------------------------------------------------------------------------
(* Construction and observers, on the members s of one option.             *)

NewNone == [has_value_ |-> FALSE, value_ |-> Default]
NewSome(v) == [has_value_ |-> TRUE, value_ |-> v]
Built(seen) == IF seen = None THEN NewNone ELSE NewSome(seen[1])

(* unwrap and expect: None stands for the std::runtime_error.              *)
Unwrap(s) == IF s.has_value_ THEN Some(s.value_) ELSE None

(* The variant trusts the value without looking at the flag.               *)
EqualsStored(s, v) == s.value_ = v
IsSomeAnd(s, v) == s.has_value_ /\ s.value_ = v
IsNoneOr(s, v) == ~s.has_value_ \/ s.value_ = v

(* unwrap_or, with the result of defaultFunc for unwrap_or_else.           *)
UnwrapOr(s, other) == IF s.has_value_ THEN s.value_ ELSE other
UnwrapOrDefault(s) == UnwrapOr(s, Default)

AndThen(s, next) == IF s.has_value_ THEN Built(next[s.value_]) ELSE NewNone
OrElse(s, fallback) == IF s.has_value_ THEN s ELSE fallback

-----------------------------------------------------------------------------
(* take and replace.                                                       *)

(* The variant moves the value out, and leaves no T behind.                *)
MovedOut(s) == [has_value_ |-> FALSE, value_ |-> None]
Taken(s) == [s EXCEPT !.has_value_ = FALSE]

(* The variant forgets that the option may have been empty.                *)
Overwritten(s, v) == [s EXCEPT !.value_ = v]
Replaced(s, v) == [has_value_ |-> TRUE, value_ |-> v]

(* What a call returns, and what is owed of it.                            *)
Result(s, seen, tear) == [option |-> s, owed |-> seen, torn |-> tear]
Fresh(seen) == Result(Built(seen), {seen}, FALSE)
CopyOf(o) == Result(option[o], owed[o], torn[o])

(* and_then and or_else, as Option.hpp words them.                         *)
Chained(seen, next) == IF seen = None THEN None ELSE next[seen[1]]
Otherwise(seen, other) == IF seen = None THEN other ELSE seen

AfterAndThen(o, next) ==
  Result(AndThen(option[o], next),
         {Chained(seen, next) : seen \in owed[o]}, torn[o])
AfterOrElse(o, other) ==
  Result(OrElse(option[o], Built(other)),
         {Otherwise(seen, other) : seen \in owed[o]}, torn[o])

Results ==
  {Fresh(seen) : seen \in Seen} \cup {CopyOf(o) : o \in Options}
    \cup {AfterAndThen(o, next) : o \in Options, next \in Nexts}
    \cup {AfterOrElse(o, other) : o \in Options, other \in Seen}

Init ==
  /\ option = [o \in Options |-> NewNone]
  /\ owed = [o \in Options |-> {None}]
  /\ torn = [o \in Options |-> FALSE]
  /\ faults = 0

Put(o, r) ==
  /\ option' = [option EXCEPT ![o] = r.option]
  /\ owed' = [owed EXCEPT ![o] = r.owed]
  /\ torn' = [torn EXCEPT ![o] = r.torn]

(* o becomes r, and what it was goes to the option to; if that is o        *)
(* itself, the assignment of the result comes last.                        *)
PutAndReturn(o, r, to) ==
  /\ option' = [option EXCEPT ![o] = r.option, ![to] = option[o]]
  /\ owed' = [owed EXCEPT ![o] = r.owed, ![to] = owed[o]]
  /\ torn' = [torn EXCEPT ![o] = r.torn, ![to] = torn[o]]

(* The caller drops what the call returns, or assigns it to an option.     *)
Take(o) ==
  LET r == Result(Taken(option[o]), {None}, FALSE)
  IN  /\ Put(o, r) \/ \E to \in Options : PutAndReturn(o, r, to)
      /\ UNCHANGED faults

Replace(o, v) ==
  LET r == Result(Replaced(option[o], v), {Some(v)}, FALSE)
  IN  /\ Put(o, r) \/ \E to \in Options : PutAndReturn(o, r, to)
      /\ UNCHANGED faults

(* to = r, by the implicit operator=: has_value_, then value_.             *)
Assign(to, r) == Put(to, r) /\ UNCHANGED faults

-----------------------------------------------------------------------------
(* The copy of a T throws.                                                 *)

CanThrow(v) == faults < MaxFaults /\ v # Default

(* The flag of the new state with the value of the old one.  It is a       *)
(* state nobody asked for when it raises the flag over an old value.       *)
Half(s, new) == [has_value_ |-> new.has_value_, value_ |-> s.value_]

(* value_ = value throws after has_value_ was assigned.                    *)
StoreFails(o, r) ==
  /\ CanThrow(r.option.value_)
  /\ Put(o, Result(Half(option[o], r.option), owed[o] \cup r.owed,
                   \/ torn[o]
                   \/ r.torn
                   \/ r.option.has_value_ /\ ~option[o].has_value_))
  /\ faults' = faults + 1

ReplaceFails(o, v) == StoreFails(o, Fresh(Some(v)))
AssignFails(to, r) == StoreFails(to, r)

(* The copy to be returned throws first: take and replace change nothing.  *)
CopyFails(o) ==
  /\ CanThrow(option[o].value_)
  /\ faults' = faults + 1
  /\ UNCHANGED <<option, owed, torn>>

Next ==
  \E o \in Options :
    \/ Take(o)
    \/ \E v \in Value : Replace(o, v) \/ ReplaceFails(o, v)
    \/ \E r \in Results : Assign(o, r) \/ AssignFails(o, r)
    \/ CopyFails(o)

Spec == Init /\ [][Next]_vars

-----------------------------------------------------------------------------

(* Each option holds a T at all times, also when it is None.               *)
TypeOK ==
  /\ option \in [Options -> Storage]
  /\ owed \in [Options -> SUBSET Seen]
  /\ torn \in [Options -> BOOLEAN]
  /\ faults \in 0..MaxFaults

(* After take an option is None, after replace it is Some(value), and what *)
(* it was is what the call returned (Option.hpp); a call that failed left  *)
(* the old state or the new one.  The exception is a call that raised the  *)
(* flag of an empty option and then failed to store the value: what the    *)
(* option held before it was emptied is seen again.                        *)
HoldsUnlessTorn ==
  \A o \in Options : ~torn[o] => Unwrap(option[o]) \in owed[o]

(* No observer reads the value that take left behind: each answers from    *)
(* what is owed, as Option.hpp words it.                                   *)
ObserversAgree ==
  \A o \in Options : ~torn[o] =>
    \E seen \in owed[o] : \A v \in Value :
      /\ IsSomeAnd(option[o], v) <=> seen = Some(v)
      /\ IsNoneOr(option[o], v) <=> seen \in {None, Some(v)}
      /\ UnwrapOr(option[o], v) = Otherwise(seen, Some(v))[1]
      /\ UnwrapOrDefault(option[o]) = Otherwise(seen, Some(Default))[1]

=============================================================================
