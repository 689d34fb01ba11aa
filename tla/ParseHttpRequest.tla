-------------------------- MODULE ParseHttpRequest --------------------------
(***************************************************************************)
(* parseHttpRequest, which is to find the version of a request and hand    *)
(* it to the parser of that version.                                       *)
(*                                                                         *)
(* It looks for the version behind the second space of the data, wherever  *)
(* that is, while an HTTP/1.0 parser looks behind the last space of the    *)
(* first line.                                                             *)
(***************************************************************************)
EXTENDS HttpRequest

CONSTANT Enabled    \* the versions compiled in (KIREJI_ENABLE_...)

ASSUME EnabledAssumption == Enabled \subseteq HttpVersion

(* findNthSpace: how many octets there are up to the n-th space, which is  *)
(* one of them; all of them when there are fewer spaces.  The variant      *)
(* stops in front of that space.                                           *)
Upto(data, p) == Occurrences(SP, SubSeq(data, 1, p))
BeforeNthSpace(data, n) ==
  Min({Len(data)} \cup {p - 1 : p \in {q \in Occurrences(SP, data) :
                                         Cardinality(Upto(data, q)) = n}})
FindNthSpace(data, n) ==
  Min({Len(data)} \cup {p \in Occurrences(SP, data) :
                          Cardinality(Upto(data, p)) = n})

(* findHttpVersion: the version named behind the second space; none when   *)
(* it throws std::runtime_error.                                           *)
FindHttpVersion(data) ==
  LET pos == FindNthSpace(data, 2)
  IN  {v \in Enabled : SubSeq(data, pos + 1, pos + 1) = VersionToken(v)}

(* The token of the method ends with the space that FindNthSpace counts.   *)
MethodOf(data, version) ==
  ParseHttpMethod(SubSeq(data, 1, FindNthSpace(data, 1)), version)

(* What parseHttpRequest throws: the switch over the versions has no case  *)
(* but the default one, which throws as well.                              *)
ParseHttpRequest(data) ==
  IF \E v \in FindHttpVersion(data) : MethodOf(data, v) = {}
  THEN "invalid_argument"
  ELSE "runtime_error"

=============================================================================
