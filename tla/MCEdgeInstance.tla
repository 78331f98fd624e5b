--------------------------- MODULE MCEdgeInstance ---------------------------
(* Instances of EdgeInstance for TLC. *)
EXTENDS EdgeRegistry, TLC

CONSTANTS d1, d2

\* The name of a service is that of its pair: no two pairs share one.
MCNsNames == Datatypes \X TypeNames
MCNsName == [pair \in MCNsNames |-> pair]

\* With datatypes and types that have hyphens, two pairs may share a name.
SharedNsName == [pair \in MCNsNames |-> IF pair[1] = d2 THEN <<d1, pair[2]>> ELSE pair]

Each(n) == [r \in Resources |-> n]
TwoOfEach == Each(2)
SmallOnly == {Each(1)}
SmallAndOversize == {Each(1), Each(3)}

Symmetry == Permutations(Workers) \cup Permutations(InstanceIds) \cup Permutations(Refs)
              \cup Permutations(TypeNames)
=============================================================================
