----------------------------- MODULE HeaderList -----------------------------
(***************************************************************************)
(* What HeaderMap promises its callers: a list of headers in insertion     *)
(* order, at most one per name, names folded to lower case.  The buckets,  *)
(* the links and the hash of HeaderMap are hidden here.                    *)
(***************************************************************************)
EXTENDS Octets, SequencesExt

EmptyHeaders == <<>>

(* Option<T>: a value that is present or absent.                           *)
None == <<>>
Some(v) == <<v>>

(* The places of h that hold a header with this name (at most one).        *)
Places(h, name) == {i \in DOMAIN h : h[i].name = ToLower(name)}

(* A replaced value keeps its place; a new name goes to the end.           *)
HeaderSet(h, name, value) ==
  IF Places(h, name) # {}
  THEN [i \in DOMAIN h |-> IF i \in Places(h, name)
                           THEN [h[i] EXCEPT !.value = value]
                           ELSE h[i]]
  ELSE Append(h, [name |-> ToLower(name), value |-> value])

(* The others keep their order.                                            *)
HeaderRemove(h, name) ==
  IF Places(h, name) = {} THEN h
  ELSE RemoveAt(h, CHOOSE i \in Places(h, name) : TRUE)

HeaderGet(h, name) ==
  IF Places(h, name) = {} THEN None
  ELSE Some(h[CHOOSE i \in Places(h, name) : TRUE].value)

=============================================================================
