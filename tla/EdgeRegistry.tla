---------------------------- MODULE EdgeRegistry ----------------------------
(***************************************************************************)
(* The Edge Instance API seen as a registry of shared services: the        *)
(* refinement mapping to PipelineRegistry.                                 *)
(***************************************************************************)
EXTENDS EdgeInstance

\* Null and Gone are no pairs either.
ASSUME PairsAssumption == \A s \in {Null, Gone} : s \notin Datatypes \X TypeNames

NamedServices(n) == {p \in Refs : pipelines[p] \notin {Null, Gone} /\ pipelines[p].name = n}

\* Two services of one name are no state of the registry.
ServiceState(n) ==
  IF NamedServices(n) = {} THEN "absent"
  ELSE IF \E p, q \in NamedServices(n) : p # q THEN "duplicated"
  ELSE IF \E p \in NamedServices(n) : Live(p) THEN "live" ELSE "ending"

ClientOf(i) ==
  IF IsRow(rows[i]) THEN <<rows[i].datatype, rows[i].type>> ELSE rows[i]

Services == [n \in NsNames |-> ServiceState(n)]

Clients == [i \in InstanceIds |-> ClientOf(i)]

Admitted == {<<req[w].datatype, req[w].type>> : w \in {v \in Workers : At(v, "insert")}}

Registry == INSTANCE PipelineRegistry WITH
  Names <- NsNames, Pairs <- Datatypes \X TypeNames, ServiceOf <- NsName,
  Ids <- InstanceIds, None <- Null, Former <- Gone,
  service <- Services, client <- Clients, admitted <- Admitted

\* While requests do not overlap, the API is such a registry, whatever fails:
\* post_instance deploys only what is not there and adds rows only for a service
\* it has seen, delete_instance retires a service only for a pair's last row.
ImplementsRegistry == Registry!Spec
=============================================================================
