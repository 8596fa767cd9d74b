------------------------------- MODULE MCBuffer -------------------------------
(***************************************************************************)
(* Serialized inputs for checking Buffer: a length prefix of 0 to 2 and    *)
(* up to two bytes after it, so complete, exact and short inputs occur.    *)
(***************************************************************************)
EXTENDS Buffer

MCWires == [len : 0 .. 2, data : UNION {[1 .. k -> Bytes] : k \in 0 .. 2}]

=============================================================================
