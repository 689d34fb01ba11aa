------------------------------- MODULE Octets -------------------------------
(***************************************************************************)
(* The alphabet of an HTTP/1.0 octet stream and the string helpers the     *)
(* parser applies to pieces of it.                                         *)
(*                                                                         *)
(* The delimiters the code tests for are octets of their own.  Any other   *)
(* octet is a "word": it stands for a run of ordinary characters that the  *)
(* code only ever compares or copies as a whole, such as a method, a       *)
(* header name or a path.  A string is a sequence of octets.               *)
(***************************************************************************)
EXTENDS Integers, Sequences, FiniteSetsExt

CONSTANTS
  Octet,      \* every octet that may appear on the wire
  LowerCase   \* std::tolower, as a function on octets

CR == "CR"
LF == "LF"
SP == "SP"
HT == "HT"
COLON == ":"

Numerals == <<"0", "1", "2", "3", "4", "5", "6", "7", "8", "9">>
Digit == {Numerals[i] : i \in 1..10}
DigitValue(d) == (CHOOSE i \in 1..10 : Numerals[i] = d) - 1

ASSUME OctetAssumption ==
  /\ {CR, LF, SP, HT, COLON} \subseteq Octet
  /\ LowerCase \in [Octet -> Octet]
  /\ \A o \in Octet :
       /\ LowerCase[LowerCase[o]] = LowerCase[o]
       /\ LowerCase[o] \in {CR, LF, SP, HT, COLON} => LowerCase[o] = o

String == Seq(Octet)

-----------------------------------------------------------------------------

IsSpace(o) == o \in {SP, HT}

(* The positions of v that hold something other than a space or a tab.     *)
Ink(v) == {i \in DOMAIN v : ~IsSpace(v[i])}

(* trimLeft, and a variant that forgets to trim.                           *)
Untrimmed(v) == v
TrimLeft(v) == IF Ink(v) = {} THEN <<>> ELSE SubSeq(v, Min(Ink(v)), Len(v))
TrimRight(v) == IF Ink(v) = {} THEN <<>> ELSE SubSeq(v, 1, Max(Ink(v)))
Trim(v) == TrimRight(TrimLeft(v))

ToLower(v) == [i \in DOMAIN v |-> LowerCase[v[i]]]

(* The positions of octet o in v, in which std::string::find looks.        *)
Occurrences(o, v) == {i \in DOMAIN v : v[i] = o}

=============================================================================
