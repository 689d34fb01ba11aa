---------------------------- MODULE IHttpParser ----------------------------
(***************************************************************************)
(* The contract of IHttpParser: octets of a TCP stream go in, complete     *)
(* requests come out in arrival order, and packet boundaries do not        *)
(* matter.  The contract is written against the whole stream: a request is *)
(* whatever the decoder sees in the complete wire at the place where the   *)
(* previous request ended, and it may be queued once its last octet has    *)
(* been received.  Nothing is said of buffers, chunks or exceptions, and   *)
(* nothing of the protocol version, which is the decoder's business.       *)
(***************************************************************************)
EXTENDS Integers, Sequences

CONSTANTS
  Wires,      \* the octet streams a peer may send
  Decode(_)   \* the decoder: an outcome, a request and the octets it took

VARIABLES
  wire,       \* the stream the peer sends
  fed,        \* how many of its octets have been received
  parsed,     \* how many of them belong to requests already queued
  ready,      \* the queued requests, oldest first
  open        \* the parser object exists

contractVars == <<wire, fed, parsed, ready, open>>

(* What a decoder given all of w from offset at on would answer.           *)
WholeDecode(w, at) == Decode(SubSeq(w, at + 1, Len(w)))

ContractInit ==
  /\ wire \in Wires
  /\ fed = 0 /\ parsed = 0 /\ ready = <<>> /\ open = TRUE

Receive ==
  /\ open
  /\ \E n \in 1..(Len(wire) - fed) : fed' = fed + n
  /\ UNCHANGED <<wire, parsed, ready, open>>

Complete ==
  LET next == WholeDecode(wire, parsed)
  IN  /\ open
      /\ next.outcome = "request"
      /\ parsed + next.consumed <= fed
      /\ ready' = Append(ready, next.request)
      /\ parsed' = parsed + next.consumed
      /\ UNCHANGED <<wire, fed, open>>

Take ==
  /\ open
  /\ ready # <<>>
  /\ ready' = Tail(ready)
  /\ UNCHANGED <<wire, fed, parsed, open>>

Close ==
  /\ open
  /\ open' = FALSE
  /\ ready' = <<>>
  /\ UNCHANGED <<wire, fed, parsed>>

ContractNext == Receive \/ Complete \/ Take \/ Close

Contract == ContractInit /\ [][ContractNext]_contractVars

=============================================================================
