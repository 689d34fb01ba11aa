--------------------------- MODULE Http10Dispatch ---------------------------
(***************************************************************************)
(* The two readings of one stream: what parseHttpRequest makes of the      *)
(* octets that Http10Parser took for a request.                            *)
(***************************************************************************)
EXTENDS Http10Parser, ParseHttpRequest

(* Http10Parser is compiled only where HTTP/1.0 is enabled.                *)
ASSUME DispatchAssumption == HTTP_1_0 \in Enabled

(* The octets from which object i was decoded.                             *)
OctetsOf(i) == SubSeq(wire, heap[i].at + 1, EndOf(i))

(* findHttpVersion finds the version of every request that the parser      *)
(* accepts, whatever spaces its headers and its body hold: a dispatcher    *)
(* never sends a request elsewhere.                                        *)
VersionsAgree ==
  \A i \in DOMAIN heap :
    FindHttpVersion(OctetsOf(i)) = {heap[i].request.version}

(* "@return Heap-allocated request object" (HttpRequest.hpp): a complete   *)
(* request that is well formed is parsed, not refused.                     *)
ParseHttpRequestReturns ==
  \A i \in DOMAIN heap :
    ParseHttpRequest(OctetsOf(i)) \notin {"invalid_argument", "runtime_error"}

=============================================================================
