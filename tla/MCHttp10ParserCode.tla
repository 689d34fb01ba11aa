------------------------- MODULE MCHttp10ParserCode -------------------------
(***************************************************************************)
(* Small instances of Http10ParserCode: streams of which TLC explores      *)
(* every way of cutting them into chunks.                                  *)
(***************************************************************************)
EXTENDS Http10ParserCode, MCMessages

(* Five requests in a row make the queue grow to eight pointers, or be     *)
(* compacted when the caller has taken some in between; with seven it may  *)
(* be compacted, grow and be compacted again.                              *)
Five == EmptyPath \o EmptyPath \o EmptyPath \o EmptyPath \o EmptyPath
Seven == Five \o EmptyPath \o EmptyPath

(* Streams on which up to two allocations fail.                            *)
FaultWires == {Get \o PostTwo, Five, PostZero \o Eol \o Get}

MCWires ==
  FaultWires \cup {a \o b : a \in WellFormed, b \in Broken \cup CutShort}
    \cup {a \o Get : a \in WellFormed \cup Broken}
    \cup {Seven, GetWithHeaders \o PostTwo, Get \o PostOverruns,
          PostHuge \o Get, PostWraps \o Get}

MCFaults == [w \in Wires |-> IF w \in FaultWires THEN 2 ELSE 0]

=============================================================================
