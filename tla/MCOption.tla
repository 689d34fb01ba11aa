------------------------------ MODULE MCOption ------------------------------
(***************************************************************************)
(* A small instance of Option: two options of strings, and functions for   *)
(* and_then that keep, change and drop the value.                          *)
(***************************************************************************)
EXTENDS Option

CONSTANTS a, b, x, y

MCOptions == {a, b}
MCValue == {Default, x, y}
MCNexts == {[v \in MCValue |-> Some(v)],
            [v \in MCValue |-> IF v = x THEN Some(y) ELSE None]}

=============================================================================
