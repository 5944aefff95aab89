--------------------------- MODULE MCRpcDispatch ---------------------------
(* Small instances of RpcDispatch for TLC. *)
EXTENDS RpcDispatch, TLC

MCWords == {"true", "TRUE", "false", "FALSE", "", "x", "y"}

MCTypePrefix == { << "int", "integer" >> }

\* Values within and beyond an int of two bits (-2 .. 1), an unsigned int
\* (0 .. 3) and a long of three bits (-4 .. 3).
Param(x, type, text) == [name |-> x, type |-> type, value |-> text]
MCSettable ==
    { Param("x", "int", Number(2)), Param("x", "long", Number(-3)),
      Param("y", "unsignedLong", Number(3)), Param("y", "boolean", Word("TRUE")) }

\* A type nobody knows, one that only begins with a type name and lacks its
\* value, and no type at all.
MCRawElements ==
    { [name |-> JString(Word("y")), type |-> type, value |-> Absent] :
        type \in {JString(Word("float")), JString(Word("integer")), Absent} }

\* Connections are interchangeable.
Symmetry == Permutations(Conns)
============================================================================
