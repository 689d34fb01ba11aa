--------------------------- MODULE MCHttp10Parser ---------------------------
(***************************************************************************)
(* Small instances of Http10Parser and Http10Dispatch.  A wire is the      *)
(* concatenation of up to three messages, some of them malformed or cut    *)
(* short; TLC then explores every way of cutting the wire into chunks.     *)
(***************************************************************************)
EXTENDS Http10Dispatch, MCMessages

StreamWires ==
  {a \o b : a \in WellFormed, b \in WellFormed \cup Broken \cup CutShort}
    \cup {Get \o b \o Get : b \in Broken}
    \cup {Get \o PostTwo \o Get, Get \o PostOverruns, Get \o PostHuge \o Get}

(* Streams on which up to two allocations fail.                            *)
FaultWires == {Get \o PostTwo, Get \o Get \o Get, PostZero \o Eol}

MCWires == StreamWires \cup FaultWires
MCEnabled == {HTTP_1_0, HTTP_1_1}
TwoFaults == [w \in Wires |-> IF w \in FaultWires THEN 2 ELSE 0]
NoFaults == [w \in Wires |-> 0]

WrapWires == {PostWraps \o <<"x">>, Get \o PostWraps}
OverrunWires == {Get \o PostOverruns \o Get}
NamelessWires == {NamelessHeader, Get \o NamelessHeader}

=============================================================================
