---------------------------- MODULE EdgeInstance ----------------------------
(***************************************************************************)
(* The Edge Instance API of the MEC: the request threads of                *)
(* instances_controller.py and types_controller.py, the MySQL tables they  *)
(* share, the OSM orchestrator they call and the node they introspect.     *)
(*                                                                         *)
(* A request thread is idle or stands between two accesses to something it *)
(* shares with the others; each such access is one action.  The session of *)
(* a request runs under InnoDB's REPEATABLE READ: every SELECT of the      *)
(* request sees the tables as its first SELECT saw them (the field snap),  *)
(* while the constraints are enforced on the current tables at commit.     *)
(***************************************************************************)
EXTENDS Integers, FiniteSets, FiniteSetsExt

CONSTANTS
  Workers,      \* the threads that serve requests
  Datatypes,    \* datatypes a request may name
  Descriptors,  \* the datatypes OSM has a network service descriptor for
  TypeNames,    \* values of type.type_name
  NsNames,      \* names of OSM network services
  NsName,       \* datatype + "-" + instance_type
  Resources,    \* cpu, memory, gpu
  Demands,      \* the resource vectors an instance type may ask for
  Allocatable,  \* the node's allocatable amount of each resource
  InstanceIds,  \* uuids for instance.instance_id: the bound on instances
  Refs,         \* ids OSM gives its network services: the bound on deployments
  Faults,       \* which of the faults below may happen
  Null,         \* absent
  Gone          \* deleted: a uuid or an OSM id is never given out twice

FaultKinds == {"orchestrator", "database", "restart"}

ASSUME ConstantsAssumption ==
  /\ Descriptors \subseteq Datatypes
  /\ NsName \in [Datatypes \X TypeNames -> NsNames]
  /\ Demands \subseteq [Resources -> Nat]
  /\ Allocatable \in [Resources -> Nat]
  /\ Faults \subseteq FaultKinds
  /\ IsFiniteSet(InstanceIds)

VARIABLES
  types,      \* table type: the resources of each instance type, by type_name
  rows,       \* table instance, by instance_id
  pipelines,  \* the network services OSM holds, by id
  req         \* the request each thread is serving

vars == <<types, rows, pipelines, req>>

-----------------------------------------------------------------------------
(* The tables, the orchestrator's records and a request's locals.          *)

Row == [type : TypeNames, datatype : Datatypes, ref : Refs]

IsRow(x) == x \notin {Null, Gone}

Tables == [types : [TypeNames -> Demands \cup {Null}],
           rows  : [InstanceIds -> Row \cup {Null, Gone}]]

Pipeline == [name : NsNames, demand : Demands, by : Workers,
             state : {"deploying", "running", "terminating"}]

Steps == {"list", "reserve", "orchestrate", "insert", "terminate", "remove"}

Request == [pc : Steps, datatype : Datatypes, type : TypeNames, snap : Tables,
            ref : Refs \cup {Null}, id : InstanceIds \cup {Null}]

\* Null and Gone are no values of the tables, the orchestrator or a request.
ASSUME SentinelsAssumption ==
  /\ Null # Gone
  /\ \A s \in {Null, Gone} :
       /\ s \notin Demands /\ s \notin InstanceIds /\ s \notin Refs
       /\ s \notin Row /\ s \notin Pipeline /\ s \notin Request

\* The network services GET ns_instances returns.
Listed == {p \in Refs : pipelines[p] \notin {Null, Gone}}

\* The rows of table rs for one datatype and instance type.
RowsOf(rs, d, t) ==
  {i \in InstanceIds : IsRow(rs[i]) /\ rs[i].datatype = d /\ rs[i].type = t}

\* What the tables say is reserved: each deployed (datatype, type) pair once.
Reserved(tables, r) ==
  LET pairs == {<<tables.rows[i].datatype, tables.rows[i].type>> :
                  i \in {j \in InstanceIds : IsRow(tables.rows[j])}}
  IN  MapThenSumSet(LAMBDA pair : tables.types[pair[2]][r], pairs)

\* introspection.sh -C/-M/-G: allocatable less what the running pods request.
Schedulable(r) ==
  Allocatable[r]
    - MapThenSumSet(LAMBDA p : pipelines[p].demand[r],
                    {p \in Listed : pipelines[p].state # "deploying"})

At(w, pc) == req[w] # Null /\ req[w].pc = pc

NameOf(q) == NsName[<<q.datatype, q.type>>]

Begin(w, q) == req' = [req EXCEPT ![w] = q]

Goto(w, pc, ref) == req' = [req EXCEPT ![w].pc = pc, ![w].ref = ref]

Answer(w) == req' = [req EXCEPT ![w] = Null]

Now == [types |-> types, rows |-> rows]

-----------------------------------------------------------------------------
(* post_instance.                                                          *)

\* The type must be on sale here; the query opens the request's snapshot.
PostInstance(w, d, t) ==
  /\ req[w] = Null
  /\ \/ types[t] = Null /\ Answer(w)
     \/ /\ types[t] # Null
        /\ Begin(w, [pc |-> "list", datatype |-> d, type |-> t, snap |-> Now,
                     ref |-> Null, id |-> Null])
  /\ UNCHANGED <<types, rows, pipelines>>

\* Variant: only the services already running are recognised.
AlreadyRunning(q) ==
  \E p \in Listed : pipelines[p].name = NameOf(q) /\ pipelines[p].state = "running"

\* Some network service of the listing has the name of the requested one.
AlreadyDeployed(q) == \E p \in Listed : pipelines[p].name = NameOf(q)

\* Variant: a deployed pipeline is recognised, its reference is not kept.
ListWithoutReference(w) ==
  /\ At(w, "list")
  /\ Goto(w, IF AlreadyDeployed(req[w]) THEN "insert" ELSE "reserve", Null)
  /\ UNCHANGED <<types, rows, pipelines>>

\* The listing is searched by name, but the reference kept is that of its
\* element 0; the order of OSM's listing is OSM's own.
ListPipelines(w) ==
  /\ At(w, "list")
  /\ \/ ~AlreadyDeployed(req[w]) /\ Goto(w, "reserve", Null)
     \/ AlreadyDeployed(req[w]) /\ \E first \in Listed : Goto(w, "insert", first)
     \/ "orchestrator" \in Faults /\ Answer(w)
  /\ UNCHANGED <<types, rows, pipelines>>

\* Variant: what is free now is compared, what the pipeline adds is not.
SomethingLeft(q) ==
  \A r \in Resources :
    Allocatable[r] - Reserved(q.snap, r) >= 0 /\ Schedulable(r) >= 0

EnoughResources(q) ==
  \A r \in Resources :
    LET demand == q.snap.types[q.type][r] IN
      /\ Allocatable[r] - Reserved(q.snap, r) - demand >= 0
      /\ Schedulable(r) - demand >= 0

CheckResources(w) ==
  /\ At(w, "reserve")
  /\ IF EnoughResources(req[w]) THEN Goto(w, "orchestrate", Null)
                                ELSE Answer(w)
  /\ UNCHANGED <<types, rows, pipelines>>

\* OSM records a new network service p for the request of thread w.
Create(w, p) ==
  /\ pipelines[p] = Null
  /\ pipelines' = [pipelines EXCEPT ![p] =
       [name |-> NameOf(req[w]), demand |-> req[w].snap.types[req[w].type],
        by |-> w, state |-> "deploying"]]

\* 405 without a descriptor; 502 when OSM refuses, and also when it accepts but
\* its answer cannot be read.
Orchestrate(w) ==
  /\ At(w, "orchestrate")
  /\ \/ /\ req[w].datatype \notin Descriptors
        /\ Answer(w) /\ UNCHANGED pipelines
     \/ /\ req[w].datatype \in Descriptors
        /\ \E p \in Refs : Create(w, p) /\ Goto(w, "insert", p)
     \/ /\ req[w].datatype \in Descriptors /\ "orchestrator" \in Faults
        /\ Answer(w)
        /\ UNCHANGED pipelines \/ \E p \in Refs : Create(w, p)
  /\ UNCHANGED <<types, rows>>

\* The row is committed under a fresh uuid.  The foreign key is checked against
\* the types of now: a type deleted or renamed meanwhile makes the insert fail.
InsertInstance(w) ==
  /\ At(w, "insert")
  /\ \/ /\ types[req[w].type] # Null
        /\ \E i \in InstanceIds :
             /\ rows[i] = Null
             /\ rows' = [rows EXCEPT ![i] =
                  [type |-> req[w].type, datatype |-> req[w].datatype,
                   ref |-> req[w].ref]]
        /\ Answer(w)
     \/ /\ types[req[w].type] = Null \/ "database" \in Faults
        /\ Answer(w)
        /\ UNCHANGED rows
  /\ UNCHANGED <<types, pipelines>>

-----------------------------------------------------------------------------
(* delete_instance.                                                        *)

\* Variants: the bound of the count is off by one, either way.
DeleteUpTo(w, i, bound) ==
  /\ req[w] = Null /\ IsRow(rows[i])
  /\ LET last == Cardinality(RowsOf(rows, rows[i].datatype, rows[i].type)) <= bound
     IN  Begin(w, [pc |-> IF last THEN "terminate" ELSE "remove",
                   datatype |-> rows[i].datatype, type |-> rows[i].type,
                   snap |-> Now, ref |-> rows[i].ref, id |-> i])
  /\ UNCHANGED <<types, rows, pipelines>>

DeleteTooEager(w, i) == DeleteUpTo(w, i, 2)

DeleteTooShy(w, i) == DeleteUpTo(w, i, 0)

\* The row's pair and the number of rows of that pair, all from one snapshot;
\* the last row of a pair takes its pipeline with it.
DeleteInstance(w, i) ==
  /\ req[w] = Null
  /\ \/ ~IsRow(rows[i]) /\ Answer(w)
     \/ /\ IsRow(rows[i])
        /\ LET last == Cardinality(RowsOf(rows, rows[i].datatype, rows[i].type)) <= 1
           IN  Begin(w, [pc |-> IF last THEN "terminate" ELSE "remove",
                         datatype |-> rows[i].datatype, type |-> rows[i].type,
                         snap |-> Now, ref |-> rows[i].ref, id |-> i])
  /\ UNCHANGED <<types, rows, pipelines>>

Live(p) == pipelines[p] \notin {Null, Gone} /\ pipelines[p].state # "terminating"

Terminated(p) ==
  pipelines' = IF Live(p) THEN [pipelines EXCEPT ![p].state = "terminating"]
                          ELSE pipelines

\* The status of the answer is not looked at: a refused request goes on like an
\* accepted one.  An exception returns 400, whether or not OSM acted.
TerminatePipeline(w) ==
  /\ At(w, "terminate")
  /\ \/ Terminated(req[w].ref) /\ Goto(w, "remove", req[w].ref)
     \/ /\ "orchestrator" \in Faults
        /\ UNCHANGED pipelines /\ Goto(w, "remove", req[w].ref)
     \/ /\ "orchestrator" \in Faults
        /\ UNCHANGED pipelines \/ Terminated(req[w].ref)
        /\ Answer(w)
  /\ UNCHANGED <<types, rows>>

\* The snapshot still has the row, even if another request deleted it since: a
\* DELETE that matches no row is a warning, and the answer is 200.
RemoveInstance(w) ==
  /\ At(w, "remove")
  /\ \/ rows' = [rows EXCEPT ![req[w].id] = Gone] /\ Answer(w)
     \/ "database" \in Faults /\ UNCHANGED rows /\ Answer(w)
  /\ UNCHANGED <<types, pipelines>>

-----------------------------------------------------------------------------
(* types_controller: one transaction each.  Rows are keyed by type_name,   *)
(* which is unique; a request the constraints reject changes nothing.      *)

\* A row of the instance table refers to type t: InnoDB restricts its removal.
Referenced(t) == \E i \in InstanceIds : IsRow(rows[i]) /\ rows[i].type = t

PostType(t, demand) ==
  /\ types[t] = Null
  /\ types' = [types EXCEPT ![t] = demand]
  /\ UNCHANGED <<rows, pipelines, req>>

\* A patch may change the resources of a type and its name.
PatchType(t, new, demand) ==
  /\ types[t] # Null
  /\ new = t \/ (types[new] = Null /\ ~Referenced(t))
  /\ types' = [[types EXCEPT ![t] = Null] EXCEPT ![new] = demand]
  /\ UNCHANGED <<rows, pipelines, req>>

\* Variant: the instance table has no foreign key.
DeleteTypeUnchecked(t) ==
  /\ types[t] # Null
  /\ types' = [types EXCEPT ![t] = Null]
  /\ UNCHANGED <<rows, pipelines, req>>

DeleteType(t) ==
  /\ types[t] # Null /\ ~Referenced(t)
  /\ types' = [types EXCEPT ![t] = Null]
  /\ UNCHANGED <<rows, pipelines, req>>

-----------------------------------------------------------------------------
(* The orchestrator's own progress, and a restart of the API's pod.        *)

Instantiate(p) ==
  /\ p \in Listed /\ pipelines[p].state = "deploying"
  /\ pipelines' = [pipelines EXCEPT ![p].state = "running"]
  /\ UNCHANGED <<types, rows, req>>

Vanish(p) ==
  /\ p \in Listed /\ pipelines[p].state = "terminating"
  /\ pipelines' = [pipelines EXCEPT ![p] = Gone]
  /\ UNCHANGED <<types, rows, req>>

\* The requests in flight are lost; the tables and the orchestrator are not.
Restart ==
  /\ "restart" \in Faults
  /\ req' = [w \in Workers |-> Null]
  /\ UNCHANGED <<types, rows, pipelines>>

Init ==
  /\ types = [t \in TypeNames |-> Null]
  /\ rows = [i \in InstanceIds |-> Null]
  /\ pipelines = [p \in Refs |-> Null]
  /\ req = [w \in Workers |-> Null]

InstanceStep(w) ==
  \/ \E d \in Datatypes, t \in TypeNames : PostInstance(w, d, t)
  \/ ListPipelines(w)
  \/ CheckResources(w)
  \/ Orchestrate(w)
  \/ InsertInstance(w)
  \/ \E i \in InstanceIds : DeleteInstance(w, i)
  \/ TerminatePipeline(w)
  \/ RemoveInstance(w)

TypeStep ==
  \/ \E t \in TypeNames, demand \in Demands : PostType(t, demand)
  \/ \E t, new \in TypeNames, demand \in Demands : PatchType(t, new, demand)
  \/ \E t \in TypeNames : DeleteType(t)

Next ==
  \/ \E w \in Workers : InstanceStep(w)
  \/ TypeStep
  \/ \E p \in Refs : Instantiate(p) \/ Vanish(p)
  \/ Restart

Spec == Init /\ [][Next]_vars

-----------------------------------------------------------------------------
(* Properties.                                                             *)

\* Type correctness: the tables, the orchestrator's records and every
\* request's locals stay well formed; in particular a row always has a
\* reference that is an id of the orchestrator (post_instance, delete_instance).
TypeOK ==
  /\ types \in [TypeNames -> Demands \cup {Null}]
  /\ rows \in [InstanceIds -> Row \cup {Null, Gone}]
  /\ pipelines \in [Refs -> Pipeline \cup {Null, Gone}]
  /\ req \in [Workers -> Request \cup {Null}]

ForeignKeyHolds(tables) ==
  \A i \in InstanceIds :
    IsRow(tables.rows[i]) => tables.types[tables.rows[i].type] # Null

\* The .one() reads of post_instance (the requested type's resources, and those
\* of each type with a row) find their row whatever patches and deletions of
\* types the other threads commit meanwhile: adding up the reservations does
\* not end in "Invalid instance".
ReservationReadsTotal ==
  /\ ForeignKeyHolds(Now)
  /\ \A w \in Workers :
       req[w] # Null =>
         ForeignKeyHolds(req[w].snap) /\ req[w].snap.types[req[w].type] # Null

\* However requests interleave and whichever fail, no pipeline was ever handed
\* to the orchestrator that asks for more of a resource than the node has.
DeployedFits ==
  \A p \in Listed : \A r \in Resources : pipelines[p].demand[r] <= Allocatable[r]

\* Two services of the same name never stem from one thread: post_instance's
\* search of the listing limits the copies of a pipeline to one per thread.
OneDeploymentPerThread ==
  \A p, q \in Listed :
    pipelines[p].name = pipelines[q].name /\ pipelines[p].by = pipelines[q].by => p = q

\* There is at most one pipeline per datatype and instance type, as
\* post_instance means by checking whether it is already deployed.
UniquePipeline ==
  \A p, q \in Listed : pipelines[p].name = pipelines[q].name => p = q

\* delete_instance asks the orchestrator to terminate a pipeline only when the
\* row being deleted is, then, the only one of its datatype and instance type.
NoSharedTermination ==
  [][\A p \in Refs :
       Live(p) /\ ~Live(p)' =>
         \E w \in Workers :
           /\ At(w, "terminate") /\ req[w].ref = p
           /\ RowsOf(rows, req[w].datatype, req[w].type) \subseteq {req[w].id}]_vars

\* When the last row of a datatype and instance type leaves the table, the
\* pipeline it refers to has been asked to terminate.
LastRowTakesPipeline ==
  [][\A i \in InstanceIds, p \in Refs :
       /\ IsRow(rows[i]) /\ ~IsRow(rows'[i]) /\ rows[i].ref = p
       /\ RowsOf(rows', rows[i].datatype, rows[i].type) = {}
       => ~Live(p)']_vars
=============================================================================
