------------------------------ MODULE Equality ------------------------------
(***************************************************************************)
(* deepEqual() of js/src/policy/constraints.ts.                            *)
(***************************************************************************)
EXTENDS Constraints

\* The same structure, by own properties; NaN is not even equal to itself.
RECURSIVE SameStructure(_, _)
SameStructure(a, b) ==
    CASE Tag(a) = "nan" -> FALSE
      [] Tag(a) = "array" /\ Tag(b) = "array" ->
            Len(a.array) = Len(b.array) /\ \A i \in DOMAIN a.array : SameStructure(a.array[i], b.array[i])
      [] IsType(a, "object") /\ IsType(b, "object") ->
            DOMAIN Own(a) = DOMAIN Own(b) /\ \A key \in DOMAIN Own(a) : SameStructure(Own(a)[key], Own(b)[key])
      [] OTHER -> a = b

=============================================================================
