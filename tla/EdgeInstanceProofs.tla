-------------------------- MODULE EdgeInstanceProofs --------------------------
(***************************************************************************)
(* What holds of the Edge Instance API for every number of threads, types, *)
(* datatypes and resources.                                                *)
(***************************************************************************)
EXTENDS EdgeInstance, FiniteSetTheorems, WellFoundedInduction, TLAPS

-----------------------------------------------------------------------------
(* The inductive invariant.                                                *)

\* What a step of a request needs of its locals is there when it is reached.
LocalsReady ==
  \A w \in Workers :
    /\ At(w, "insert") => req[w].ref \in Refs
    /\ At(w, "terminate") \/ At(w, "remove")
         => req[w].ref \in Refs /\ req[w].id \in InstanceIds

\* Between searching the listing in vain and deploying, a thread is not the
\* creator of any listed service with the name it searched for: other threads
\* may have created one, this one was busy.
SearchedNameFree ==
  \A w \in Workers :
    At(w, "reserve") \/ At(w, "orchestrate")
      => \A p \in Listed : pipelines[p].by = w => pipelines[p].name # NameOf(req[w])

IInv ==
  /\ TypeOK
  /\ LocalsReady
  /\ ReservationReadsTotal
  /\ SearchedNameFree
  /\ OneDeploymentPerThread

LEMMA InitIInv == Init => IInv
BY SentinelsAssumption
DEF Init, IInv, TypeOK, LocalsReady, ReservationReadsTotal, ForeignKeyHolds, Now,
    IsRow, SearchedNameFree, OneDeploymentPerThread, Listed, At

-----------------------------------------------------------------------------
(* Facts used under several actions.                                       *)

LEMMA RequestFields ==
  ASSUME TypeOK, NEW w \in Workers, req[w] # Null
  PROVE  /\ req[w] \in Request
         /\ req[w].pc \in Steps /\ req[w].datatype \in Datatypes
         /\ req[w].type \in TypeNames /\ req[w].snap \in Tables
         /\ req[w].ref \in Refs \cup {Null} /\ req[w].id \in InstanceIds \cup {Null}
         /\ req[w].snap.types \in [TypeNames -> Demands \cup {Null}]
BY DEF TypeOK, Request, Tables

LEMMA RowFields ==
  ASSUME TypeOK, NEW i \in InstanceIds, IsRow(rows[i])
  PROVE  /\ rows[i] \in Row
         /\ rows[i].type \in TypeNames /\ rows[i].datatype \in Datatypes
         /\ rows[i].ref \in Refs
BY DEF TypeOK, IsRow, Row

LEMMA NowIsTables == TypeOK => Now \in Tables
BY DEF TypeOK, Now, Tables

-----------------------------------------------------------------------------
(* Every step preserves the invariant: first the steps that only move one  *)
(* thread's request.                                                       *)

\* A new request, its snapshot being the tables of now.
LEMMA BeginIInv ==
  ASSUME IInv, NEW w \in Workers, NEW q \in Request, req[w] = Null,
         UNCHANGED <<types, rows, pipelines>>, Begin(w, q),
         q.snap = Now, types[q.type] # Null,
         q.pc \in {"list", "terminate", "remove"},
         q.pc # "list" => q.ref \in Refs /\ q.id \in InstanceIds
  PROVE  IInv'
<1>1. TypeOK'
  BY DEF IInv, TypeOK, Begin
<1>2. LocalsReady'
  BY DEF IInv, TypeOK, LocalsReady, At, Begin
<1>3. ReservationReadsTotal'
  BY DEF IInv, TypeOK, ReservationReadsTotal, Begin, Now, ForeignKeyHolds
<1>4. SearchedNameFree'
  BY DEF IInv, TypeOK, SearchedNameFree, At, Begin, Listed, NameOf
<1>5. OneDeploymentPerThread'
  BY DEF IInv, OneDeploymentPerThread, Listed
<1> QED BY <1>1, <1>2, <1>3, <1>4, <1>5 DEF IInv

\* The end of a request.
LEMMA AnswerIInv ==
  ASSUME IInv, NEW w \in Workers, UNCHANGED <<types, rows, pipelines>>, Answer(w)
  PROVE  IInv'
<1>1. TypeOK'
  BY DEF IInv, TypeOK, Answer
<1>2. LocalsReady'
  BY DEF IInv, TypeOK, LocalsReady, At, Answer
<1>3. ReservationReadsTotal'
  BY DEF IInv, TypeOK, ReservationReadsTotal, Answer, Now, ForeignKeyHolds
<1>4. SearchedNameFree'
  BY DEF IInv, TypeOK, SearchedNameFree, At, Answer, Listed, NameOf
<1>5. OneDeploymentPerThread'
  BY DEF IInv, OneDeploymentPerThread, Listed
<1> QED BY <1>1, <1>2, <1>3, <1>4, <1>5 DEF IInv

\* A request that goes on to another step with the tables and the services as
\* they were.
LEMMA GotoIInv ==
  ASSUME IInv, NEW w \in Workers, req[w] # Null, NEW pc \in Steps,
         NEW ref \in Refs \cup {Null},
         UNCHANGED <<types, rows, pipelines>>, Goto(w, pc, ref),
         pc = "insert" => ref \in Refs,
         pc \in {"terminate", "remove"} => ref \in Refs /\ req[w].id \in InstanceIds,
         pc \in {"reserve", "orchestrate"} =>
           \A p \in Listed : pipelines[p].by = w => pipelines[p].name # NameOf(req[w])
  PROVE  IInv'
<1>0. /\ req' = [req EXCEPT ![w] = [req[w] EXCEPT !.pc = pc, !.ref = ref]]
      /\ req[w] \in Request
  BY RequestFields DEF IInv, Goto
<1>1. TypeOK'
  BY <1>0 DEF IInv, TypeOK, Request
<1>2. LocalsReady'
  BY <1>0 DEF IInv, TypeOK, LocalsReady, At, Request
<1>3. ReservationReadsTotal'
  BY <1>0 DEF IInv, TypeOK, ReservationReadsTotal, Request, Now, ForeignKeyHolds
<1>4. SearchedNameFree'
  BY <1>0 DEF IInv, TypeOK, SearchedNameFree, At, Request, Listed, NameOf
<1>5. OneDeploymentPerThread'
  BY DEF IInv, OneDeploymentPerThread, Listed
<1> QED BY <1>1, <1>2, <1>3, <1>4, <1>5 DEF IInv

-----------------------------------------------------------------------------
(* post_instance.                                                          *)

LEMMA PostInstanceIInv ==
  ASSUME IInv, NEW w \in Workers, NEW d \in Datatypes, NEW t \in TypeNames,
         PostInstance(w, d, t)
  PROVE  IInv'
<1>1. CASE types[t] = Null
  BY <1>1, AnswerIInv DEF PostInstance
<1>2. CASE types[t] # Null
  <2> DEFINE q == [pc |-> "list", datatype |-> d, type |-> t, snap |-> Now,
                   ref |-> Null, id |-> Null]
  <2>1. q \in Request
    BY NowIsTables DEF IInv, Request, Steps
  <2>2. Begin(w, q) /\ req[w] = Null /\ UNCHANGED <<types, rows, pipelines>>
    BY <1>2 DEF PostInstance
  <2> QED BY <1>2, <2>1, <2>2, BeginIInv
<1> QED BY <1>1, <1>2

LEMMA ListPipelinesIInv ==
  ASSUME IInv, NEW w \in Workers, ListPipelines(w)
  PROVE  IInv'
<1>1. req[w] # Null /\ UNCHANGED <<types, rows, pipelines>>
  BY DEF ListPipelines, At
<1>2. CASE Answer(w)
  BY <1>1, <1>2, AnswerIInv
<1>3. CASE ~AlreadyDeployed(req[w]) /\ Goto(w, "reserve", Null)
  BY <1>1, <1>3, GotoIInv DEF AlreadyDeployed, Steps
<1>4. CASE \E first \in Listed : Goto(w, "insert", first)
  BY <1>1, <1>4, GotoIInv DEF Listed, Steps
<1> QED BY <1>2, <1>3, <1>4 DEF ListPipelines

LEMMA CheckResourcesIInv ==
  ASSUME IInv, NEW w \in Workers, CheckResources(w)
  PROVE  IInv'
<1>1. req[w] # Null /\ UNCHANGED <<types, rows, pipelines>>
  BY DEF CheckResources, At
<1>2. \A p \in Listed : pipelines[p].by = w => pipelines[p].name # NameOf(req[w])
  BY DEF CheckResources, IInv, SearchedNameFree
<1>3. CASE Answer(w)
  BY <1>1, <1>3, AnswerIInv
<1>4. CASE Goto(w, "orchestrate", Null)
  BY <1>1, <1>2, <1>4, GotoIInv DEF Steps
<1> QED BY <1>3, <1>4 DEF CheckResources

\* A new service leaves every thread's search but its creator's as it was: the
\* creator is the thread that was at "orchestrate".
LEMMA CreateInv ==
  ASSUME IInv, NEW w \in Workers, NEW p \in Refs, At(w, "orchestrate"), Create(w, p)
  PROVE  /\ pipelines' \in [Refs -> Pipeline \cup {Null, Gone}]
         /\ Listed' = Listed \cup {p}
         /\ OneDeploymentPerThread'
         /\ \A v \in Workers \ {w} :
              \A r \in Listed' :
                pipelines'[r].by = v => r \in Listed /\ pipelines'[r] = pipelines[r]
<1> DEFINE new == [name |-> NameOf(req[w]), demand |-> req[w].snap.types[req[w].type],
                   by |-> w, state |-> "deploying"]
<1>1. new \in Pipeline
  <2>1. req[w].snap.types[req[w].type] \in Demands
    BY RequestFields DEF IInv, At, ReservationReadsTotal
  <2>2. NameOf(req[w]) \in NsNames
    BY RequestFields, ConstantsAssumption DEF IInv, At, NameOf
  <2> QED BY <2>1, <2>2 DEF Pipeline
<1>2. pipelines[p] = Null /\ pipelines' = [pipelines EXCEPT ![p] = new]
  BY DEF Create
<1>3. pipelines \in [Refs -> Pipeline \cup {Null, Gone}]
  BY DEF IInv, TypeOK
<1>4. pipelines' \in [Refs -> Pipeline \cup {Null, Gone}]
  BY <1>1, <1>2, <1>3
<1>5. new \notin {Null, Gone}
  BY <1>1, SentinelsAssumption
<1>6. Listed' = Listed \cup {p}
  BY <1>2, <1>3, <1>5 DEF Listed
<1>7. \A r \in Listed : r # p /\ pipelines'[r] = pipelines[r]
  BY <1>2, <1>3 DEF Listed
<1>8. pipelines'[p].by = w /\ pipelines'[p].name = NameOf(req[w])
  BY <1>2, <1>3
<1>9. OneDeploymentPerThread'
  BY <1>6, <1>7, <1>8 DEF IInv, OneDeploymentPerThread, SearchedNameFree
<1> QED BY <1>4, <1>6, <1>7, <1>8, <1>9

LEMMA OrchestrateIInv ==
  ASSUME IInv, NEW w \in Workers, Orchestrate(w)
  PROVE  IInv'
<1>1. At(w, "orchestrate") /\ req[w] # Null /\ UNCHANGED <<types, rows>>
  BY DEF Orchestrate, At
<1>2. CASE UNCHANGED pipelines /\ Answer(w)
  BY <1>1, <1>2, AnswerIInv
<1>3. ASSUME NEW p \in Refs, Create(w, p), Goto(w, "insert", p) \/ Answer(w)
      PROVE  IInv'
  <2>1. /\ pipelines' \in [Refs -> Pipeline \cup {Null, Gone}]
        /\ OneDeploymentPerThread'
        /\ \A v \in Workers \ {w} :
             \A r \in Listed' :
               pipelines'[r].by = v => r \in Listed /\ pipelines'[r] = pipelines[r]
    BY <1>1, <1>3, CreateInv
  <2>2. /\ \A v \in Workers \ {w} : req'[v] = req[v]
        /\ req' \in [Workers -> Request \cup {Null}]
        /\ req'[w] # Null => /\ req'[w].pc = "insert" /\ req'[w].ref = p
                            /\ req'[w].snap = req[w].snap /\ req'[w].type = req[w].type
    <3>1. CASE Answer(w)
      BY <3>1 DEF Answer, IInv, TypeOK
    <3>2. CASE Goto(w, "insert", p)
      <4>1. req' = [req EXCEPT ![w] = [req[w] EXCEPT !.pc = "insert", !.ref = p]]
        BY <3>2 DEF Goto
      <4>2. req[w] \in Request
        BY <1>1, RequestFields DEF IInv
      <4> QED BY <4>1, <4>2 DEF IInv, TypeOK, Request, Steps
    <3> QED BY <1>3, <3>1, <3>2
  <2>3. TypeOK'
    BY <1>1, <2>1, <2>2 DEF IInv, TypeOK
  <2>4. LocalsReady'
    BY <2>2 DEF IInv, LocalsReady, At
  <2>5. ReservationReadsTotal'
    <3>1. ForeignKeyHolds(Now)'
      BY <1>1 DEF IInv, ReservationReadsTotal, ForeignKeyHolds, Now
    <3>2. ASSUME NEW v \in Workers, req'[v] # Null
          PROVE  req[v] # Null /\ req'[v].snap = req[v].snap /\ req'[v].type = req[v].type
      BY <1>1, <2>2, <3>2
    <3> QED BY <3>1, <3>2 DEF IInv, ReservationReadsTotal, ForeignKeyHolds
  <2>6. SearchedNameFree'
    <3> SUFFICES ASSUME NEW v \in Workers, (At(v, "reserve") \/ At(v, "orchestrate"))',
                        NEW r \in Listed', pipelines'[r].by = v
                 PROVE  pipelines'[r].name # NameOf(req'[v])
      BY DEF SearchedNameFree, NameOf
    <3>1. v # w
      BY <2>2 DEF At
    <3>2. req'[v] = req[v] /\ r \in Listed /\ pipelines'[r] = pipelines[r]
      BY <2>1, <2>2, <3>1
    <3> QED BY <3>2 DEF IInv, SearchedNameFree, At
  <2> QED BY <2>1, <2>3, <2>4, <2>5, <2>6 DEF IInv
<1> QED BY <1>2, <1>3 DEF Orchestrate

\* The new row's type exists, by the foreign key, and its reference is an id.
LEMMA InsertInstanceIInv ==
  ASSUME IInv, NEW w \in Workers, InsertInstance(w)
  PROVE  IInv'
<1>1. At(w, "insert") /\ req[w] # Null /\ UNCHANGED <<types, pipelines>> /\ Answer(w)
  BY DEF InsertInstance, At
<1>2. CASE UNCHANGED rows
  BY <1>1, <1>2, AnswerIInv
<1>3. ASSUME types[req[w].type] # Null, NEW i \in InstanceIds, rows[i] = Null,
             rows' = [rows EXCEPT ![i] = [type |-> req[w].type,
                                          datatype |-> req[w].datatype,
                                          ref |-> req[w].ref]]
      PROVE  IInv'
  <2> DEFINE row == [type |-> req[w].type, datatype |-> req[w].datatype,
                     ref |-> req[w].ref]
  <2>1. row \in Row
    BY <1>1, RequestFields DEF IInv, LocalsReady, Row
  <2>2. TypeOK'
    BY <1>1, <1>3, <2>1 DEF IInv, TypeOK, Answer
  <2>3. LocalsReady'
    BY <1>1 DEF IInv, TypeOK, LocalsReady, At, Answer
  <2>4. ForeignKeyHolds(Now)'
    BY <1>1, <1>3 DEF IInv, TypeOK, ReservationReadsTotal, ForeignKeyHolds, Now
  <2>5. ReservationReadsTotal'
    BY <1>1, <2>4 DEF IInv, TypeOK, ReservationReadsTotal, Answer, ForeignKeyHolds
  <2>6. SearchedNameFree' /\ OneDeploymentPerThread'
    BY <1>1 DEF IInv, TypeOK, SearchedNameFree, OneDeploymentPerThread, At, Answer,
                Listed, NameOf
  <2> QED BY <2>2, <2>3, <2>5, <2>6 DEF IInv
<1> QED BY <1>2, <1>3 DEF InsertInstance

-----------------------------------------------------------------------------
(* delete_instance.                                                        *)

LEMMA DeleteInstanceIInv ==
  ASSUME IInv, NEW w \in Workers, NEW i \in InstanceIds, DeleteInstance(w, i)
  PROVE  IInv'
<1>1. CASE ~IsRow(rows[i])
  BY <1>1, AnswerIInv DEF DeleteInstance
<1>2. CASE IsRow(rows[i])
  <2>1. PICK pc \in {"terminate", "remove"} :
          Begin(w, [pc |-> pc, datatype |-> rows[i].datatype, type |-> rows[i].type,
                    snap |-> Now, ref |-> rows[i].ref, id |-> i])
    BY <1>2 DEF DeleteInstance
  <2> DEFINE q == [pc |-> pc, datatype |-> rows[i].datatype, type |-> rows[i].type,
                   snap |-> Now, ref |-> rows[i].ref, id |-> i]
  <2>2. q \in Request /\ q.ref \in Refs /\ q.id \in InstanceIds
    BY <1>2, NowIsTables, RowFields DEF IInv, Request, Steps
  <2>3. types[q.type] # Null
    BY <1>2 DEF IInv, ReservationReadsTotal, ForeignKeyHolds, Now
  <2>4. req[w] = Null /\ UNCHANGED <<types, rows, pipelines>>
    BY DEF DeleteInstance
  <2> QED BY <2>1, <2>2, <2>3, <2>4, BeginIInv
<1> QED BY <1>1, <1>2

\* The services listed after a step were listed before it, under the same name,
\* for the same demand and created by the same thread.
Fades ==
  /\ pipelines' \in [Refs -> Pipeline \cup {Null, Gone}]
  /\ \A p \in Listed' : /\ p \in Listed
                        /\ pipelines'[p].name = pipelines[p].name
                        /\ pipelines'[p].by = pipelines[p].by
                        /\ pipelines'[p].demand = pipelines[p].demand

\* No thread's step but to the last one of a deletion, or to the end.
OnlyEnds ==
  /\ req' \in [Workers -> Request \cup {Null}]
  /\ \A w \in Workers :
       \/ req'[w] = Null
       \/ req'[w] = req[w]
       \/ /\ req[w] # Null /\ req'[w].pc = "remove"
          /\ req'[w].ref \in Refs /\ req'[w].id \in InstanceIds
          /\ req'[w].snap = req[w].snap /\ req'[w].type = req[w].type

LEMMA FadesIInv ==
  ASSUME IInv, Fades, OnlyEnds, UNCHANGED <<types, rows>>
  PROVE  IInv'
<1>1. TypeOK'
  BY DEF IInv, TypeOK, Fades, OnlyEnds
<1>2. LocalsReady'
  BY DEF IInv, LocalsReady, At, OnlyEnds
<1>3. ReservationReadsTotal'
  <2>1. ForeignKeyHolds(Now)'
    BY DEF IInv, ReservationReadsTotal, ForeignKeyHolds, Now
  <2>2. \A w \in Workers :
          req'[w] # Null =>
            req[w] # Null /\ req'[w].snap = req[w].snap /\ req'[w].type = req[w].type
    BY DEF OnlyEnds
  <2> QED BY <2>1, <2>2 DEF IInv, ReservationReadsTotal, ForeignKeyHolds
<1>4. SearchedNameFree'
  BY DEF IInv, SearchedNameFree, At, Fades, OnlyEnds, NameOf
<1>5. OneDeploymentPerThread'
  BY DEF IInv, OneDeploymentPerThread, Fades
<1> QED BY <1>1, <1>2, <1>3, <1>4, <1>5 DEF IInv

LEMMA StateChangeFades ==
  ASSUME TypeOK, NEW p \in Listed, NEW s \in {"running", "terminating"},
         pipelines' = [pipelines EXCEPT ![p].state = s]
  PROVE  Fades
<1>1. pipelines' = [pipelines EXCEPT ![p] = [pipelines[p] EXCEPT !.state = s]]
  OBVIOUS
<1>2. pipelines[p] \in Pipeline /\ p \in Refs
  BY DEF TypeOK, Listed
<1>3. /\ [pipelines[p] EXCEPT !.state = s] \in Pipeline
      /\ [pipelines[p] EXCEPT !.state = s].name = pipelines[p].name
      /\ [pipelines[p] EXCEPT !.state = s].by = pipelines[p].by
      /\ [pipelines[p] EXCEPT !.state = s].demand = pipelines[p].demand
  BY <1>2 DEF Pipeline
<1> QED BY <1>1, <1>2, <1>3 DEF TypeOK, Fades, Listed

LEMMA TerminatedFades ==
  ASSUME TypeOK, NEW p \in Refs, Terminated(p)
  PROVE  Fades
<1>1. CASE Live(p)
  BY <1>1, StateChangeFades DEF Terminated, Live, Listed
<1>2. CASE ~Live(p)
  BY <1>2 DEF Terminated, Fades, Listed, TypeOK
<1> QED BY <1>1, <1>2

LEMMA TerminatePipelineIInv ==
  ASSUME IInv, NEW w \in Workers, TerminatePipeline(w)
  PROVE  IInv'
<1>1. req[w] # Null /\ req[w].ref \in Refs /\ req[w].id \in InstanceIds
      /\ UNCHANGED <<types, rows>> /\ req[w] \in Request
  BY RequestFields DEF TerminatePipeline, At, IInv, LocalsReady
<1>2. Fades
  <2>1. CASE UNCHANGED pipelines
    BY <2>1 DEF Fades, Listed, IInv, TypeOK
  <2>2. CASE Terminated(req[w].ref)
    BY <1>1, <2>2, TerminatedFades DEF IInv
  <2> QED BY <2>1, <2>2 DEF TerminatePipeline
<1>3. OnlyEnds
  <2>1. CASE Answer(w)
    BY <2>1 DEF Answer, OnlyEnds, IInv, TypeOK
  <2>2. CASE Goto(w, "remove", req[w].ref)
    <3>1. req' = [req EXCEPT ![w] = [req[w] EXCEPT !.pc = "remove", !.ref = req[w].ref]]
      BY <2>2 DEF Goto
    <3>2. [req[w] EXCEPT !.pc = "remove", !.ref = req[w].ref] \in Request
      BY <1>1 DEF Request, Steps
    <3>3. req' \in [Workers -> Request \cup {Null}]
      BY <3>1, <3>2 DEF IInv, TypeOK
    <3>4. /\ req'[w].pc = "remove" /\ req'[w].ref = req[w].ref
          /\ req'[w].id = req[w].id /\ req'[w].snap = req[w].snap
          /\ req'[w].type = req[w].type
      BY <1>1, <3>1 DEF IInv, TypeOK, Request
    <3> QED BY <1>1, <3>1, <3>3, <3>4 DEF OnlyEnds, IInv, TypeOK
  <2> QED BY <2>1, <2>2 DEF TerminatePipeline
<1> QED BY <1>1, <1>2, <1>3, FadesIInv

LEMMA RemoveInstanceIInv ==
  ASSUME IInv, NEW w \in Workers, RemoveInstance(w)
  PROVE  IInv'
<1>1. UNCHANGED <<types, pipelines>> /\ Answer(w)
  BY DEF RemoveInstance
<1>2. CASE UNCHANGED rows
  BY <1>1, <1>2, AnswerIInv
<1>3. CASE rows' = [rows EXCEPT ![req[w].id] = Gone]
  <2>1. TypeOK'
    BY <1>1, <1>3 DEF IInv, TypeOK, Answer
  <2>2. LocalsReady'
    BY <1>1 DEF IInv, TypeOK, LocalsReady, At, Answer
  <2>3. ForeignKeyHolds(Now)'
    BY <1>1, <1>3 DEF IInv, TypeOK, ReservationReadsTotal, ForeignKeyHolds, Now, IsRow
  <2>4. ReservationReadsTotal'
    BY <1>1, <2>3 DEF IInv, TypeOK, ReservationReadsTotal, Answer, ForeignKeyHolds
  <2>5. SearchedNameFree' /\ OneDeploymentPerThread'
    BY <1>1 DEF IInv, TypeOK, SearchedNameFree, OneDeploymentPerThread, At, Answer,
                Listed, NameOf
  <2> QED BY <2>1, <2>2, <2>4, <2>5 DEF IInv
<1> QED BY <1>2, <1>3 DEF RemoveInstance

-----------------------------------------------------------------------------
(* The instance types, the orchestrator and a restart.                     *)

\* A change of the types that keeps every type a row refers to.
LEMMA TypesIInv ==
  ASSUME IInv, types' \in [TypeNames -> Demands \cup {Null}],
         \A t \in TypeNames : Referenced(t) => types'[t] # Null,
         UNCHANGED <<rows, pipelines, req>>
  PROVE  IInv'
<1>1. TypeOK'
  BY DEF IInv, TypeOK
<1>2. ForeignKeyHolds(Now)'
  BY RowFields DEF IInv, ForeignKeyHolds, Now, Referenced
<1>3. ReservationReadsTotal'
  BY <1>2 DEF IInv, ReservationReadsTotal, ForeignKeyHolds
<1>4. LocalsReady' /\ SearchedNameFree' /\ OneDeploymentPerThread'
  BY DEF IInv, LocalsReady, SearchedNameFree, OneDeploymentPerThread, At, Listed, NameOf
<1> QED BY <1>1, <1>3, <1>4 DEF IInv

LEMMA TypeStepIInv ==
  ASSUME IInv, TypeStep
  PROVE  IInv'
<1>0. /\ types \in [TypeNames -> Demands \cup {Null}]
      /\ \A t \in TypeNames : Referenced(t) => types[t] # Null
  BY DEF IInv, TypeOK, ReservationReadsTotal, ForeignKeyHolds, Now, Referenced
<1>1. ASSUME NEW t \in TypeNames, NEW demand \in Demands, PostType(t, demand)
      PROVE  IInv'
  BY <1>0, <1>1, TypesIInv, SentinelsAssumption DEF PostType
<1>2. ASSUME NEW t \in TypeNames, NEW new \in TypeNames, NEW demand \in Demands,
             PatchType(t, new, demand)
      PROVE  IInv'
  BY <1>0, <1>2, TypesIInv, SentinelsAssumption DEF PatchType
<1>3. ASSUME NEW t \in TypeNames, DeleteType(t)
      PROVE  IInv'
  BY <1>0, <1>3, TypesIInv DEF DeleteType
<1> QED BY <1>1, <1>2, <1>3 DEF TypeStep

LEMMA OrchestratorIInv ==
  ASSUME IInv, NEW p \in Refs, Instantiate(p) \/ Vanish(p)
  PROVE  IInv'
<1>1. OnlyEnds /\ UNCHANGED <<types, rows>>
  BY DEF Instantiate, Vanish, OnlyEnds, IInv, TypeOK
<1>2. CASE Instantiate(p)
  BY <1>1, <1>2, StateChangeFades, FadesIInv DEF Instantiate, IInv
<1>3. CASE Vanish(p)
  <2>1. Fades
    BY <1>3 DEF Vanish, Fades, Listed, IInv, TypeOK
  <2> QED BY <1>1, <2>1, FadesIInv
<1> QED BY <1>2, <1>3

LEMMA RestartIInv == IInv /\ Restart => IInv'
<1> SUFFICES ASSUME IInv, Restart PROVE IInv'
  OBVIOUS
<1>1. OnlyEnds /\ UNCHANGED <<types, rows>>
  BY DEF Restart, OnlyEnds
<1>2. Fades
  BY DEF Restart, Fades, Listed, IInv, TypeOK
<1> QED BY <1>1, <1>2, FadesIInv

LEMMA NextIInv == IInv /\ [Next]_vars => IInv'
<1> SUFFICES ASSUME IInv, [Next]_vars PROVE IInv'
  OBVIOUS
<1>1. ASSUME NEW w \in Workers, InstanceStep(w)
      PROVE  IInv'
  BY <1>1, PostInstanceIInv, ListPipelinesIInv, CheckResourcesIInv, OrchestrateIInv,
     InsertInstanceIInv, DeleteInstanceIInv, TerminatePipelineIInv, RemoveInstanceIInv
  DEF InstanceStep
<1>2. CASE UNCHANGED vars
  <2>1. OnlyEnds /\ Fades /\ UNCHANGED <<types, rows>>
    BY <1>2 DEF vars, OnlyEnds, Fades, Listed, IInv, TypeOK
  <2> QED BY <2>1, FadesIInv
<1> QED BY <1>1, <1>2, TypeStepIInv, OrchestratorIInv, RestartIInv DEF Next

-----------------------------------------------------------------------------
(* The theorems.                                                           *)

\* The invariant, and with it each of its parts, holds in every state.
THEOREM Invariance == Spec => []IInv
BY InitIInv, NextIInv, PTL DEF Spec

\* The tables, the orchestrator's records and the requests are well formed
\* whatever the threads do and whichever faults occur.
THEOREM TypeCorrect == Spec => []TypeOK
<1>1. IInv => TypeOK
  BY DEF IInv
<1> QED BY <1>1, Invariance, PTL

\* The reads post_instance adds the reservations up from always find their
\* type, for every interleaving with changes of the types.
THEOREM ReadsTotal == Spec => []ReservationReadsTotal
<1>1. IInv => ReservationReadsTotal
  BY DEF IInv
<1> QED BY <1>1, Invariance, PTL

\* A thread never has two services of one name among those listed.
THEOREM OnePerThread == Spec => []OneDeploymentPerThread
<1>1. IInv => OneDeploymentPerThread
  BY DEF IInv
<1> QED BY <1>1, Invariance, PTL

\* A server with a single thread never deploys a pipeline twice, whatever
\* fails and however often it is restarted.
THEOREM SingleThreadUnique ==
  ASSUME \A v, w \in Workers : v = w
  PROVE  Spec => []UniquePipeline
<1>1. IInv => UniquePipeline
  <2> SUFFICES ASSUME IInv, NEW p \in Listed, NEW q \in Listed,
                      pipelines[p].name = pipelines[q].name
               PROVE  p = q
    BY DEF UniquePipeline
  <2>1. pipelines[p].by \in Workers /\ pipelines[q].by \in Workers
    BY DEF IInv, TypeOK, Listed, Pipeline
  <2> QED BY <2>1 DEF IInv, OneDeploymentPerThread
<1> QED BY <1>1, Invariance, PTL

-----------------------------------------------------------------------------
(* What is reserved is a natural number: induction on the naturals, stated *)
(* of sets, then sums over the subsets of a finite set.                    *)

LessThan == {p \in Nat \X Nat : p[1] < p[2]}

LEMMA LessThanWellFounded == IsWellFoundedOn(LessThan, Nat)
BY NatLessThanWellFounded DEF OpToRel, LessThan

LEMMA LeastNumber ==
  ASSUME NEW T \in SUBSET Nat, T # {}
  PROVE  \E n \in T : \A m \in T : ~(m < n)
<1>1. PICK n \in T : \A m \in T : ~(<<m, n>> \in LessThan)
  BY LessThanWellFounded, WFMin
<1> QED BY <1>1 DEF LessThan

LEMMA SetInduction ==
  ASSUME NEW T, 0 \in T, \A n \in Nat : n \in T => n + 1 \in T
  PROVE  Nat \subseteq T
<1> SUFFICES ASSUME Nat \ T # {} PROVE FALSE
  OBVIOUS
<1>1. PICK n \in Nat \ T : \A m \in Nat \ T : ~(m < n)
  BY LeastNumber
<1>2. n # 0 /\ n - 1 \in Nat /\ n - 1 < n
  BY <1>1
<1>3. n - 1 \in T
  BY <1>1, <1>2
<1>4. (n - 1) + 1 = n
  BY <1>1
<1> QED BY <1>1, <1>2, <1>3, <1>4

\* Adding up the amounts v of the elements of s, in the order c picks them.
Summed(v, c, g, s) == g[s] = IF s = {} THEN 0 ELSE v[c[s]] + g[s \ {c[s]}]

IsSums(S, v, c, g) ==
  g = [s \in SUBSET S |-> IF s = {} THEN 0 ELSE v[c[s]] + g[s \ {c[s]}]]

LEMMA SmallerSubset ==
  ASSUME NEW S, IsFiniteSet(S), NEW s \in SUBSET S, s # {}, NEW x \in s
  PROVE  /\ s \ {x} \in SUBSET S
         /\ Cardinality(s) \in Nat /\ Cardinality(s \ {x}) = Cardinality(s) - 1
         /\ Cardinality(s \ {x}) \in Nat
<1>1. IsFiniteSet(s)
  BY FS_Subset
<1> QED BY <1>1, FS_RemoveElement, FS_CardinalityType

LEMMA SumsExist ==
  ASSUME NEW S, IsFiniteSet(S), NEW v, NEW c, \A s \in SUBSET S : s # {} => c[s] \in s
  PROVE  \E g : IsSums(S, v, c, g)
<1> DEFINE T == {n \in Nat : \E g : \A s \in SUBSET S : Cardinality(s) <= n => Summed(v, c, g, s)}
<1>0. \A s \in SUBSET S : Cardinality(s) \in Nat /\ Cardinality(s) <= Cardinality(S)
  BY FS_Subset, FS_CardinalityType
<1>1. 0 \in T
  <2>1. PICK g : g = [s \in SUBSET S |-> 0]
    OBVIOUS
  <2>2. ASSUME NEW s \in SUBSET S, Cardinality(s) <= 0 PROVE Summed(v, c, g, s)
    <3>1. s = {}
      BY <1>0, <2>2, FS_Subset, FS_EmptySet
    <3> QED BY <2>1, <3>1 DEF Summed
  <2> QED BY <2>2
<1>2. ASSUME NEW n \in Nat, n \in T PROVE n + 1 \in T
  <2>1. PICK g : \A s \in SUBSET S : Cardinality(s) <= n => Summed(v, c, g, s)
    BY <1>2
  <2>2. PICK h : h = [s \in SUBSET S |-> IF Cardinality(s) <= n THEN g[s]
                                         ELSE v[c[s]] + g[s \ {c[s]}]]
    OBVIOUS
  <2>3. ASSUME NEW s \in SUBSET S, Cardinality(s) <= n + 1 PROVE Summed(v, c, h, s)
    <3>1. CASE s = {}
      <4>1. Cardinality(s) <= n
        BY <3>1, FS_EmptySet
      <4> QED BY <2>1, <2>2, <3>1, <4>1 DEF Summed
    <3>2. CASE s # {}
      <4>1. PICK x : x = c[s]
        OBVIOUS
      <4>2. /\ s \ {x} \in SUBSET S /\ Cardinality(s) \in Nat
            /\ Cardinality(s \ {x}) = Cardinality(s) - 1
        BY <3>2, <4>1, SmallerSubset
      <4>3. Cardinality(s \ {x}) <= n
        BY <2>3, <4>2
      <4>4. h[s \ {x}] = g[s \ {x}]
        BY <2>2, <4>2, <4>3
      <4>5. h[s] = v[x] + g[s \ {x}]
        <5>1. CASE Cardinality(s) <= n
          BY <2>1, <2>2, <3>2, <4>1, <5>1 DEF Summed
        <5>2. CASE ~(Cardinality(s) <= n)
          BY <2>2, <4>1, <5>2
        <5> QED BY <5>1, <5>2
      <4> QED BY <3>2, <4>1, <4>4, <4>5 DEF Summed
    <3> QED BY <3>1, <3>2
  <2> QED BY <2>3
<1>3. Nat \subseteq T
  <2> HIDE DEF T
  <2> QED BY <1>1, <1>2, SetInduction
<1>4. PICK g : \A s \in SUBSET S : Cardinality(s) <= Cardinality(S) => Summed(v, c, g, s)
  BY <1>0, <1>3
<1>5. PICK h : h = [s \in SUBSET S |-> g[s]]
  OBVIOUS
<1>6. ASSUME NEW s \in SUBSET S
      PROVE  h[s] = IF s = {} THEN 0 ELSE v[c[s]] + h[s \ {c[s]}]
  BY <1>0, <1>4, <1>5 DEF Summed
<1>7. h = [s \in SUBSET S |-> h[s]]
  BY <1>5
<1>8. h = [s \in SUBSET S |-> IF s = {} THEN 0 ELSE v[c[s]] + h[s \ {c[s]}]]
  BY <1>6, <1>7
<1> QED BY <1>8 DEF IsSums

LEMMA SumsNatural ==
  ASSUME NEW S, IsFiniteSet(S), NEW v, \A x \in S : v[x] \in Nat,
         NEW c, \A s \in SUBSET S : s # {} => c[s] \in s,
         NEW g, IsSums(S, v, c, g)
  PROVE  \A s \in SUBSET S : g[s] \in Nat
<1> DEFINE T == {n \in Nat : \A s \in SUBSET S : Cardinality(s) <= n => g[s] \in Nat}
<1>0. \A s \in SUBSET S : Cardinality(s) \in Nat /\ Cardinality(s) <= Cardinality(S)
  BY FS_Subset, FS_CardinalityType
<1>a. /\ g[{}] = 0
      /\ \A s \in SUBSET S : s # {} => g[s] = v[c[s]] + g[s \ {c[s]}]
  <2> DEFINE e(s) == IF s = {} THEN 0 ELSE v[c[s]] + g[s \ {c[s]}]
  <2>1. g = [s \in SUBSET S |-> e(s)]
    BY DEF IsSums
  <2>2. e({}) = 0 /\ \A s \in SUBSET S : s # {} => e(s) = v[c[s]] + g[s \ {c[s]}]
    OBVIOUS
  <2> HIDE DEF e
  <2>3. \A s \in SUBSET S : g[s] = e(s)
    BY <2>1
  <2>4. {} \in SUBSET S
    OBVIOUS
  <2> QED BY <2>2, <2>3, <2>4
<1>1. 0 \in T
  <2>1. ASSUME NEW s \in SUBSET S, Cardinality(s) <= 0 PROVE g[s] \in Nat
    <3>1. s = {}
      BY <1>0, <2>1, FS_Subset, FS_EmptySet
    <3> QED BY <1>a, <3>1
  <2> QED BY <2>1
<1>2. ASSUME NEW n \in Nat, n \in T PROVE n + 1 \in T
  <2>0. \A u \in SUBSET S : Cardinality(u) <= n => g[u] \in Nat
    BY <1>2
  <2>1. ASSUME NEW s \in SUBSET S, Cardinality(s) <= n + 1, s # {} PROVE g[s] \in Nat
    <3>0. PICK x \in s : x = c[s]
      BY <2>1
    <3>1. PICK u \in SUBSET S : u = s \ {x}
      OBVIOUS
    <3>2. Cardinality(s) \in Nat /\ Cardinality(u) = Cardinality(s) - 1
      BY <2>1, <3>1, SmallerSubset
    <3>3. Cardinality(u) <= n
      BY <2>1, <3>2
    <3>4. g[u] \in Nat
      BY <2>0, <3>3
    <3>5. g[s] = v[x] + g[u]
      BY <1>a, <2>1, <3>0, <3>1
    <3> QED BY <3>4, <3>5
  <2>2. g[{}] \in Nat
    BY <1>a
  <2>3. \A s \in SUBSET S : Cardinality(s) <= n + 1 => g[s] \in Nat
    BY <2>1, <2>2
  <2>4. n + 1 \in Nat
    OBVIOUS
  <2> QED BY <2>3, <2>4, Zenon
<1>3. Nat \subseteq T
  <2> HIDE DEF T
  <2> QED BY <1>1, <1>2, SetInduction
<1> QED BY <1>0, <1>3, FS_CardinalityType

LEMMA ReservedNatural ==
  ASSUME NEW tables \in Tables, ForeignKeyHolds(tables), NEW r \in Resources
  PROVE  Reserved(tables, r) \in Nat
<1> DEFINE deployed == {i \in InstanceIds : IsRow(tables.rows[i])}
           pairs == {<<tables.rows[i].datatype, tables.rows[i].type>> : i \in deployed}
<1>1. PICK S : S = pairs
  OBVIOUS
<1>2. IsFiniteSet(S)
  <2>1. IsFiniteSet(deployed)
    BY FS_Subset, ConstantsAssumption
  <2>2. PICK f : f = [i \in deployed |-> <<tables.rows[i].datatype, tables.rows[i].type>>]
    OBVIOUS
  <2>3. f \in Surjection(deployed, pairs)
    BY <2>2 DEF Surjection
  <2> QED BY <1>1, <2>1, <2>3, FS_Surjection
<1>3. ASSUME NEW x \in S PROVE tables.types[x[2]][r] \in Nat
  <2>1. PICK i \in InstanceIds : IsRow(tables.rows[i]) /\ x[2] = tables.rows[i].type
    BY <1>1
  <2>2. tables.types[x[2]] \in Demands
    BY <2>1 DEF Tables, IsRow, Row, ForeignKeyHolds
  <2> QED BY <2>2, ConstantsAssumption
<1>4. PICK v : v = [x \in S |-> tables.types[x[2]][r]]
  OBVIOUS
<1>5. PICK c : c = [s \in SUBSET S |-> CHOOSE x \in s : TRUE]
  OBVIOUS
<1>6. \A s \in SUBSET S : s # {} => c[s] \in s
  BY <1>5
<1>7. PICK g : g = CHOOSE h : h = [s \in SUBSET S |-> IF s = {} THEN 0 ELSE
                 tables.types[(CHOOSE x \in s : TRUE)[2]][r] + h[s \ {CHOOSE x \in s : TRUE}]]
  OBVIOUS
<1>8. ASSUME NEW h
      PROVE  [s \in SUBSET S |-> IF s = {} THEN 0 ELSE v[c[s]] + h[s \ {c[s]}]]
             = [s \in SUBSET S |-> IF s = {} THEN 0 ELSE
                 tables.types[(CHOOSE x \in s : TRUE)[2]][r] + h[s \ {CHOOSE x \in s : TRUE}]]
  <2>1. ASSUME NEW s \in SUBSET S, s # {}
        PROVE  /\ c[s] = CHOOSE x \in s : TRUE
               /\ v[c[s]] = tables.types[c[s][2]][r]
    BY <1>4, <1>5, <1>6, <2>1
  <2> QED BY <2>1
<1>9. IsSums(S, v, c, g)
  <2> DEFINE sums(h) == [s \in SUBSET S |-> IF s = {} THEN 0 ELSE
               tables.types[(CHOOSE x \in s : TRUE)[2]][r] + h[s \ {CHOOSE x \in s : TRUE}]]
  <2>1. PICK h : IsSums(S, v, c, h)
    BY <1>2, <1>6, SumsExist
  <2>2. h = sums(h) /\ g = CHOOSE k : k = sums(k)
    BY <1>7, <1>8, <2>1 DEF IsSums
  <2>3. g = sums(g)
    <3> HIDE DEF sums
    <3> QED BY <2>2
  <2> QED BY <1>8, <2>3 DEF IsSums
<1>10. g[S] \in Nat
  <2>1. \A x \in S : v[x] \in Nat
    BY <1>3, <1>4
  <2>2. \A s \in SUBSET S : g[s] \in Nat
    BY <1>2, <1>6, <1>9, <2>1, SumsNatural
  <2> QED BY <2>2
<1>11. Reserved(tables, r) = g[S]
  BY <1>1, <1>7 DEF Reserved, MapThenSumSet, MapThenFoldSet
<1> QED BY <1>10, <1>11

-----------------------------------------------------------------------------
(* Nothing is deployed that the node could not carry by itself.            *)

\* What a thread is about to deploy was compared with what the node has.
DemandChecked ==
  \A w \in Workers :
    At(w, "orchestrate") =>
      \A r \in Resources : req[w].snap.types[req[w].type][r] <= Allocatable[r]

FitInv == DemandChecked /\ DeployedFits

\* No thread comes to deploy that was not about to.
NoNewOrder ==
  \A w \in Workers :
    At(w, "orchestrate")' =>
      /\ At(w, "orchestrate")
      /\ req'[w].snap = req[w].snap /\ req'[w].type = req[w].type

LEMMA NoNewOrderFits ==
  ASSUME FitInv, NoNewOrder, Fades
  PROVE  FitInv'
<1>1. DemandChecked'
  BY DEF FitInv, DemandChecked, NoNewOrder
<1>2. DeployedFits'
  BY DEF FitInv, DeployedFits, Fades
<1> QED BY <1>1, <1>2 DEF FitInv

\* With no service touched there is nothing to fade.
LEMMA UnchangedFades == TypeOK /\ UNCHANGED pipelines => Fades
BY DEF Fades, TypeOK, Listed

LEMMA AnswerNoNewOrder ==
  ASSUME TypeOK, NEW w \in Workers, Answer(w)
  PROVE  NoNewOrder
BY DEF Answer, NoNewOrder, At, TypeOK

LEMMA GotoNoNewOrder ==
  ASSUME TypeOK, NEW w \in Workers, req[w] # Null, NEW pc, pc # "orchestrate",
         NEW ref, Goto(w, pc, ref)
  PROVE  NoNewOrder
<1>1. req[w] \in Request
  BY RequestFields
<1>2. PICK q : q = [req[w] EXCEPT !.pc = pc, !.ref = ref]
  OBVIOUS
<1>3. req' = [req EXCEPT ![w] = q]
  BY <1>2 DEF Goto
<1>4. q.pc = pc
  BY <1>1, <1>2 DEF Request
<1>5. req'[w].pc # "orchestrate" /\ \A v \in Workers \ {w} : req'[v] = req[v]
  BY <1>3, <1>4 DEF TypeOK
<1> QED BY <1>5 DEF NoNewOrder, At

LEMMA EnoughFits ==
  ASSUME IInv, NEW w \in Workers, req[w] # Null, EnoughResources(req[w]),
         NEW r \in Resources
  PROVE  req[w].snap.types[req[w].type][r] <= Allocatable[r]
<1>1. req[w].snap \in Tables /\ ForeignKeyHolds(req[w].snap)
  BY RequestFields DEF IInv, ReservationReadsTotal
<1>2. req[w].snap.types[req[w].type] \in Demands
  BY RequestFields DEF IInv, ReservationReadsTotal
<1>3. PICK n \in Nat : n = Reserved(req[w].snap, r)
  BY <1>1, ReservedNatural
<1>4. PICK d \in Nat : d = req[w].snap.types[req[w].type][r]
  BY <1>2, ConstantsAssumption
<1>5. Allocatable[r] \in Nat
  BY ConstantsAssumption
<1>6. Allocatable[r] - n - d >= 0
  BY <1>3, <1>4 DEF EnoughResources
<1> QED BY <1>4, <1>5, <1>6

LEMMA CheckResourcesFits ==
  ASSUME IInv, FitInv, NEW w \in Workers, CheckResources(w)
  PROVE  FitInv'
<1>1. req[w] # Null /\ req[w] \in Request /\ UNCHANGED pipelines
  BY RequestFields DEF IInv, CheckResources, At
<1>2. CASE Answer(w)
  <2>1. NoNewOrder
    BY <1>2, AnswerNoNewOrder DEF IInv
  <2> QED BY <1>1, <2>1, UnchangedFades, NoNewOrderFits DEF IInv
<1>3. CASE EnoughResources(req[w]) /\ Goto(w, "orchestrate", Null)
  <2>1. req' = [req EXCEPT ![w] = [req[w] EXCEPT !.pc = "orchestrate", !.ref = Null]]
    BY <1>3 DEF Goto
  <2>2. /\ req'[w].snap = req[w].snap /\ req'[w].type = req[w].type
        /\ \A v \in Workers \ {w} : req'[v] = req[v]
    BY <1>1, <2>1 DEF IInv, TypeOK, Request
  <2>3. DemandChecked'
    BY <1>1, <1>3, <2>2, EnoughFits DEF FitInv, DemandChecked, At
  <2>4. DeployedFits'
    BY <1>1 DEF FitInv, DeployedFits, Listed
  <2> QED BY <2>3, <2>4 DEF FitInv
<1> QED BY <1>2, <1>3 DEF CheckResources

LEMMA OrchestrateFits ==
  ASSUME IInv, FitInv, NEW w \in Workers, Orchestrate(w)
  PROVE  FitInv'
<1>1. At(w, "orchestrate") /\ req[w] # Null /\ req[w] \in Request
  BY RequestFields DEF Orchestrate, At, IInv
<1>2. NoNewOrder
  BY <1>1, AnswerNoNewOrder, GotoNoNewOrder DEF Orchestrate, IInv
<1>3. CASE UNCHANGED pipelines
  BY <1>2, <1>3, UnchangedFades, NoNewOrderFits DEF IInv
<1>4. ASSUME NEW p \in Refs, Create(w, p) PROVE FitInv'
  <2>1. DemandChecked'
    BY <1>2 DEF FitInv, DemandChecked, NoNewOrder
  <2>2. Listed' = Listed \cup {p}
    BY <1>1, <1>4, CreateInv
  <2>3. /\ pipelines'[p].demand = req[w].snap.types[req[w].type]
        /\ \A q \in Listed : pipelines'[q] = pipelines[q]
    BY <1>4 DEF Create, IInv, TypeOK, Listed
  <2>4. DeployedFits'
    BY <1>1, <2>2, <2>3 DEF FitInv, DeployedFits, DemandChecked
  <2> QED BY <2>1, <2>4 DEF FitInv
<1> QED BY <1>3, <1>4 DEF Orchestrate

LEMMA NextFits ==
  ASSUME IInv, FitInv, [Next]_vars
  PROVE  FitInv'
<1>0. TypeOK
  BY DEF IInv
<1>1. ASSUME NEW w \in Workers, InstanceStep(w)
      PROVE  FitInv'
  <2>1. ASSUME NEW d \in Datatypes, NEW t \in TypeNames, PostInstance(w, d, t)
        PROVE  NoNewOrder /\ UNCHANGED pipelines
    BY <1>0, <2>1 DEF PostInstance, Answer, Begin, NoNewOrder, At, TypeOK
  <2>2. CASE ListPipelines(w)
    <3>1. req[w] # Null /\ req[w] \in Request
      BY <2>2, RequestFields, <1>0 DEF ListPipelines, At
    <3>2. NoNewOrder
      BY <1>0, <2>2, <3>1, AnswerNoNewOrder, GotoNoNewOrder DEF ListPipelines
    <3> QED BY <1>0, <2>2, <3>2, UnchangedFades, NoNewOrderFits DEF ListPipelines
  <2>3. CASE InsertInstance(w)
    BY <1>0, <2>3, UnchangedFades, NoNewOrderFits
    DEF InsertInstance, Answer, NoNewOrder, At, TypeOK
  <2>4. ASSUME NEW i \in InstanceIds, DeleteInstance(w, i)
        PROVE  NoNewOrder /\ UNCHANGED pipelines
    BY <1>0, <2>4 DEF DeleteInstance, Answer, Begin, NoNewOrder, At, TypeOK
  <2>5. CASE TerminatePipeline(w)
    <3>1. req[w] # Null /\ req[w] \in Request /\ req[w].ref \in Refs
      BY <2>5, RequestFields DEF TerminatePipeline, At, IInv, LocalsReady
    <3>2. Fades
      BY <1>0, <2>5, <3>1, TerminatedFades, UnchangedFades DEF TerminatePipeline
    <3>3. NoNewOrder
      BY <1>0, <2>5, <3>1, AnswerNoNewOrder, GotoNoNewOrder DEF TerminatePipeline
    <3> QED BY <3>2, <3>3, NoNewOrderFits
  <2>6. CASE RemoveInstance(w)
    BY <1>0, <2>6, UnchangedFades, NoNewOrderFits
    DEF RemoveInstance, Answer, NoNewOrder, At, TypeOK
  <2> QED BY <1>0, <1>1, <2>1, <2>2, <2>3, <2>4, <2>5, <2>6, UnchangedFades,
             NoNewOrderFits, CheckResourcesFits, OrchestrateFits DEF InstanceStep
<1>2. CASE TypeStep
  BY <1>0, <1>2, UnchangedFades, NoNewOrderFits
  DEF TypeStep, PostType, PatchType, DeleteType, NoNewOrder, At
<1>3. ASSUME NEW p \in Refs, Instantiate(p) \/ Vanish(p) PROVE FitInv'
  <2>1. Fades
    <3>1. CASE Instantiate(p)
      BY <1>0, <3>1, StateChangeFades DEF Instantiate
    <3>2. CASE Vanish(p)
      BY <1>0, <3>2 DEF Vanish, Fades, TypeOK, Listed
    <3> QED BY <1>3, <3>1, <3>2
  <2>2. NoNewOrder
    BY <1>3 DEF Instantiate, Vanish, NoNewOrder, At
  <2> QED BY <2>1, <2>2, NoNewOrderFits
<1>4. CASE Restart
  BY <1>0, <1>4, UnchangedFades, NoNewOrderFits DEF Restart, NoNewOrder, At
<1>5. CASE UNCHANGED vars
  BY <1>0, <1>5, UnchangedFades, NoNewOrderFits DEF vars, NoNewOrder, At
<1> QED BY <1>1, <1>2, <1>3, <1>4, <1>5 DEF Next

\* No pipeline is handed to the orchestrator that asks for more of a resource
\* than the node has, however requests interleave, whatever fails and however
\* many types and instances the reservations are added up from.
THEOREM DeployedAlwaysFits == Spec => []DeployedFits
<1>1. Init => FitInv
  BY DEF Init, FitInv, DemandChecked, DeployedFits, Listed, At
<1>2. IInv /\ FitInv /\ [Next]_vars => FitInv'
  BY NextFits
<1>3. FitInv => DeployedFits
  BY DEF FitInv
<1> QED BY <1>1, <1>2, <1>3, Invariance, PTL DEF Spec

-----------------------------------------------------------------------------
(* Deletions on a server with a single thread: what the request read in    *)
(* its snapshot is still so in the tables when it acts on it.              *)

RowUnderDeletion(q) ==
  /\ IsRow(rows[q.id])
  /\ rows[q.id].datatype = q.datatype /\ rows[q.id].type = q.type
  /\ rows[q.id].ref = q.ref

OnlyRow(q) == RowsOf(rows, q.datatype, q.type) \subseteq {q.id}

SnapshotCurrent ==
  \A w \in Workers :
    /\ At(w, "terminate") \/ At(w, "remove") => RowUnderDeletion(req[w])
    /\ At(w, "terminate") => OnlyRow(req[w])
    /\ At(w, "remove") /\ "orchestrator" \notin Faults
         => (OnlyRow(req[w]) => ~Live(req[w].ref))

\* count() <= 1, for a set with i in it, says that i is all there is.
LEMMA CountAtMostOne ==
  ASSUME NEW S \in SUBSET InstanceIds, NEW i \in S
  PROVE  Cardinality(S) <= 1 <=> S \subseteq {i}
<1>1. IsFiniteSet(S)
  BY ConstantsAssumption, FS_Subset
<1>2. Cardinality(S) \in Nat /\ Cardinality(S) # 0
  BY <1>1, FS_CardinalityType, FS_EmptySet
<1>3. Cardinality(S) = 1 <=> \E x : S = {x}
  BY <1>1, FS_Singleton
<1> QED BY <1>2, <1>3

\* No step of the others, types, orchestrator or restart, disturbs a deletion.
LEMMA QuietSnapshotCurrent ==
  ASSUME SnapshotCurrent, UNCHANGED rows,
         \A w \in Workers : req'[w] = Null \/ req'[w] = req[w],
         \A p \in Refs : Live(p)' => Live(p), IInv
  PROVE  SnapshotCurrent'
<1> SUFFICES ASSUME NEW w \in Workers, req'[w] = req[w], req[w] # Null
             PROVE  /\ (At(w, "terminate") \/ At(w, "remove") => RowUnderDeletion(req[w]))'
                    /\ (At(w, "terminate") => OnlyRow(req[w]))'
                    /\ (At(w, "remove") /\ "orchestrator" \notin Faults
                          => (OnlyRow(req[w]) => ~Live(req[w].ref)))'
  BY DEF SnapshotCurrent, At
<1>1. /\ RowUnderDeletion(req[w])' = RowUnderDeletion(req[w])
      /\ OnlyRow(req[w])' = OnlyRow(req[w])
      /\ At(w, "terminate")' = At(w, "terminate") /\ At(w, "remove")' = At(w, "remove")
  BY DEF RowUnderDeletion, OnlyRow, At
<1>2. At(w, "remove") /\ ~Live(req[w].ref) => ~Live(req[w].ref)'
  BY DEF IInv, LocalsReady, Live
<1> QED BY <1>1, <1>2 DEF SnapshotCurrent

LEMMA DeleteInstanceSnapshotCurrent ==
  ASSUME IInv, \A v, w \in Workers : v = w,
         NEW w \in Workers, NEW i \in InstanceIds, DeleteInstance(w, i)
  PROVE  SnapshotCurrent'
<1>0. UNCHANGED <<rows, pipelines>>
  BY DEF DeleteInstance
<1>1. CASE ~IsRow(rows[i])
  BY <1>1 DEF DeleteInstance, Answer, SnapshotCurrent, At, IInv, TypeOK
<1>2. CASE IsRow(rows[i])
  <2> DEFINE S == RowsOf(rows, rows[i].datatype, rows[i].type)
             q == [pc |-> IF Cardinality(S) <= 1 THEN "terminate" ELSE "remove",
                   datatype |-> rows[i].datatype, type |-> rows[i].type,
                   snap |-> Now, ref |-> rows[i].ref, id |-> i]
  <2>1. Cardinality(S) <= 1 <=> S \subseteq {i}
    BY <1>2, CountAtMostOne DEF RowsOf
  <2>2. req'[w] = q
    BY <1>2 DEF DeleteInstance, Begin, IInv, TypeOK
  <2>3. /\ req'[w].id = i /\ req'[w].ref = rows[i].ref
        /\ req'[w].datatype = rows[i].datatype /\ req'[w].type = rows[i].type
        /\ req'[w].pc = "terminate" <=> S \subseteq {i}
        /\ req'[w].pc \in {"terminate", "remove"}
    BY <2>1, <2>2
  <2>4. RowUnderDeletion(req[w])'
    BY <1>0, <1>2, <2>3 DEF RowUnderDeletion
  <2>5. OnlyRow(req[w])' <=> S \subseteq {i}
    BY <1>0, <2>3 DEF OnlyRow
  <2> QED BY <2>3, <2>4, <2>5 DEF SnapshotCurrent, At
<1> QED BY <1>1, <1>2

LEMMA TerminateSnapshotCurrent ==
  ASSUME IInv, SnapshotCurrent, \A v, w \in Workers : v = w,
         NEW w \in Workers, TerminatePipeline(w)
  PROVE  SnapshotCurrent'
<1>1. /\ At(w, "terminate") /\ req[w] # Null /\ req[w] \in Request
      /\ req[w].ref \in Refs /\ UNCHANGED rows
  BY RequestFields DEF TerminatePipeline, At, IInv, LocalsReady
<1>2. CASE Answer(w)
  BY <1>2 DEF Answer, SnapshotCurrent, At, IInv, TypeOK
<1>3. CASE Goto(w, "remove", req[w].ref) /\ ~Answer(w)
  <2>1. req' = [req EXCEPT ![w] = [req[w] EXCEPT !.pc = "remove", !.ref = req[w].ref]]
    BY <1>3 DEF Goto
  <2>2. /\ req'[w].pc = "remove" /\ req'[w].ref = req[w].ref /\ req'[w].id = req[w].id
        /\ req'[w].datatype = req[w].datatype /\ req'[w].type = req[w].type
    BY <1>1, <2>1 DEF IInv, TypeOK, Request
  <2>3. RowUnderDeletion(req[w])'
    BY <1>1, <2>2 DEF SnapshotCurrent, RowUnderDeletion
  <2>4. "orchestrator" \notin Faults => ~Live(req[w].ref)'
    <3> SUFFICES ASSUME "orchestrator" \notin Faults PROVE ~Live(req[w].ref)'
      OBVIOUS
    <3>1. Terminated(req[w].ref)
      BY <1>3 DEF TerminatePipeline
    <3>2. CASE ~Live(req[w].ref)
      BY <2>2, <3>1, <3>2 DEF Terminated, Live
    <3>3. CASE Live(req[w].ref)
      <4>1. pipelines'[req[w].ref].state = "terminating"
        BY <1>1, <3>1, <3>3 DEF Terminated, Live, IInv, TypeOK, Pipeline
      <4> QED BY <2>2, <4>1 DEF Live
    <3> QED BY <3>2, <3>3
  <2> QED BY <2>2, <2>3, <2>4 DEF SnapshotCurrent, At
<1> QED BY <1>2, <1>3 DEF TerminatePipeline

LEMMA NextSnapshotCurrent ==
  ASSUME IInv, SnapshotCurrent, [Next]_vars, \A v, w \in Workers : v = w
  PROVE  SnapshotCurrent'
<1>1. ASSUME NEW w \in Workers,
             req'[w] = Null \/ req'[w].pc \notin {"terminate", "remove"}
      PROVE  SnapshotCurrent'
  BY <1>1 DEF SnapshotCurrent, At
<1>2. ASSUME NEW w \in Workers,
             Answer(w) \/ \E pc \in {"list", "reserve", "orchestrate", "insert"} :
                            \/ \E q \in Request : q.pc = pc /\ Begin(w, q)
                            \/ \E ref \in Refs \cup {Null} :
                                 req[w] # Null /\ Goto(w, pc, ref)
      PROVE  SnapshotCurrent'
  <2>1. CASE Answer(w)
    BY <1>1, <2>1 DEF Answer, IInv, TypeOK
  <2>2. ASSUME NEW pc \in {"list", "reserve", "orchestrate", "insert"}, NEW q \in Request,
               q.pc = pc, Begin(w, q)
        PROVE  SnapshotCurrent'
    BY <1>1, <2>2 DEF Begin, IInv, TypeOK
  <2>3. ASSUME NEW pc \in {"list", "reserve", "orchestrate", "insert"},
               NEW ref \in Refs \cup {Null}, req[w] # Null, Goto(w, pc, ref)
        PROVE  SnapshotCurrent'
    <3>1. req' = [req EXCEPT ![w] = [req[w] EXCEPT !.pc = pc, !.ref = ref]]
      BY <2>3 DEF Goto
    <3>2. req[w] \in Request
      BY <2>3, RequestFields DEF IInv
    <3>3. req'[w].pc = pc
      BY <3>1, <3>2 DEF IInv, TypeOK, Request
    <3> QED BY <1>1, <3>3
  <2> QED BY <1>2, <2>1, <2>2, <2>3
<1>3. ASSUME NEW w \in Workers, InstanceStep(w)
      PROVE  SnapshotCurrent'
  <2>1. ASSUME NEW d \in Datatypes, NEW t \in TypeNames, PostInstance(w, d, t)
        PROVE  SnapshotCurrent'
    <3>1. [pc |-> "list", datatype |-> d, type |-> t, snap |-> Now, ref |-> Null,
           id |-> Null] \in Request
      BY NowIsTables DEF IInv, Request, Steps
    <3> QED BY <1>2, <2>1, <3>1 DEF PostInstance
  <2>2. CASE ListPipelines(w)
    BY <1>2, <2>2 DEF ListPipelines, At, Listed
  <2>3. CASE CheckResources(w)
    BY <1>2, <2>3 DEF CheckResources, At
  <2>4. CASE Orchestrate(w)
    BY <1>2, <2>4 DEF Orchestrate, At
  <2>5. CASE InsertInstance(w) \/ RemoveInstance(w)
    BY <1>2, <2>5 DEF InsertInstance, RemoveInstance
  <2> QED BY <1>3, <2>1, <2>2, <2>3, <2>4, <2>5, DeleteInstanceSnapshotCurrent,
             TerminateSnapshotCurrent
          DEF InstanceStep
<1>4. CASE TypeStep
  <2>1. UNCHANGED <<rows, pipelines, req>>
    BY <1>4 DEF TypeStep, PostType, PatchType, DeleteType
  <2> QED BY <2>1, QuietSnapshotCurrent DEF Live
<1>5. ASSUME NEW p \in Refs, Instantiate(p) \/ Vanish(p)
      PROVE  SnapshotCurrent'
  <2>1. UNCHANGED <<rows, req>>
    BY <1>5 DEF Instantiate, Vanish
  <2>2. \A r \in Refs : Live(r)' => Live(r)
    BY <1>5, SentinelsAssumption DEF Instantiate, Vanish, Live, Listed, IInv, TypeOK, Pipeline
  <2> QED BY <2>1, <2>2, QuietSnapshotCurrent
<1>6. CASE Restart
  BY <1>6 DEF Restart, SnapshotCurrent, At
<1>7. CASE UNCHANGED vars
  BY <1>7, QuietSnapshotCurrent DEF vars, Live
<1> QED BY <1>3, <1>4, <1>5, <1>6, <1>7 DEF Next

LEMMA SnapshotCurrentInvariant ==
  ASSUME \A v, w \in Workers : v = w
  PROVE  Spec => [](IInv /\ SnapshotCurrent)
<1>1. Init => SnapshotCurrent
  BY DEF Init, SnapshotCurrent, At
<1>2. IInv /\ SnapshotCurrent /\ [Next]_vars => (IInv /\ SnapshotCurrent)'
  BY NextIInv, NextSnapshotCurrent
<1> QED BY <1>1, <1>2, InitIInv, PTL DEF Spec

\* The rows and the states of the services change in few actions only.
LEMMA OnlyTerminateEndsLife ==
  ASSUME IInv, [Next]_vars, NEW p \in Refs, Live(p), ~Live(p)'
  PROVE  \E w \in Workers : TerminatePipeline(w) /\ req[w].ref = p
<1>1. pipelines' # pipelines
  BY DEF Live
<1>2. ASSUME NEW w \in Workers, Orchestrate(w)
      PROVE  FALSE
  <2>1. PICK r \in Refs : Create(w, r)
    BY <1>1, <1>2 DEF Orchestrate
  <2>2. r # p
    BY <2>1 DEF Create, Live
  <2> QED BY <2>1, <2>2 DEF Create, Live
<1>3. ASSUME NEW r \in Refs, Instantiate(r)
      PROVE  FALSE
  <2>1. pipelines[p] \in Pipeline
    BY DEF Live, IInv, TypeOK
  <2>2. pipelines[p] # Null /\ pipelines[p] # Gone
    BY DEF Live
  <2>3. CASE r # p
    BY <1>3, <2>3 DEF Instantiate, Live
  <2>4. CASE r = p
    <3>1. pipelines'[p] = [pipelines[p] EXCEPT !.state = "running"]
      BY <1>3, <2>4 DEF Instantiate, IInv, TypeOK
    <3>2. pipelines'[p] \in Pipeline /\ pipelines'[p].state = "running"
      BY <2>1, <3>1 DEF Pipeline
    <3> QED BY <3>2, SentinelsAssumption DEF Live
  <2> QED BY <2>3, <2>4
<1>4. ASSUME NEW r \in Refs, Vanish(r)
      PROVE  FALSE
  BY <1>4 DEF Vanish, Live
<1>5. PICK w \in Workers : TerminatePipeline(w)
  BY <1>1, <1>2, <1>3, <1>4
  DEF Next, vars, InstanceStep, PostInstance, ListPipelines, CheckResources,
      InsertInstance, DeleteInstance, RemoveInstance, TypeStep, PostType, PatchType,
      DeleteType, Restart
<1>6. Terminated(req[w].ref)
  BY <1>1, <1>5 DEF TerminatePipeline
<1>7. req[w].ref = p
  BY <1>6 DEF Terminated, Live
<1> QED BY <1>5, <1>7

LEMMA OnlyRemoveEndsRows ==
  ASSUME IInv, [Next]_vars, NEW i \in InstanceIds, IsRow(rows[i]), ~IsRow(rows'[i])
  PROVE  \E w \in Workers :
           RemoveInstance(w) /\ req[w].id = i /\ rows' = [rows EXCEPT ![i] = Gone]
<1>1. rows' # rows
  OBVIOUS
<1>2. ASSUME NEW w \in Workers, InsertInstance(w)
      PROVE  FALSE
  <2>1. PICK j \in InstanceIds :
          /\ rows[j] = Null
          /\ rows' = [rows EXCEPT ![j] = [type |-> req[w].type,
                                          datatype |-> req[w].datatype,
                                          ref |-> req[w].ref]]
    BY <1>1, <1>2 DEF InsertInstance
  <2>2. j # i
    BY <2>1 DEF IsRow
  <2> QED BY <2>1, <2>2 DEF IsRow
<1>3. PICK w \in Workers : RemoveInstance(w)
  BY <1>1, <1>2
  DEF Next, vars, InstanceStep, PostInstance, ListPipelines, CheckResources, Orchestrate,
      DeleteInstance, TerminatePipeline, TypeStep, PostType, PatchType, DeleteType,
      Instantiate, Vanish, Restart
<1>4. rows' = [rows EXCEPT ![req[w].id] = Gone]
  BY <1>1, <1>3 DEF RemoveInstance
<1>5. req[w].id = i
  BY <1>4
<1> QED BY <1>3, <1>4, <1>5

\* On a server with a single thread a pipeline is only terminated for the row
\* that is, when OSM is asked, the only one of its datatype and instance type.
THEOREM SingleThreadTermination ==
  ASSUME \A v, w \in Workers : v = w
  PROVE  Spec => NoSharedTermination
<1>1. ASSUME IInv, SnapshotCurrent, [Next]_vars, NEW p \in Refs, Live(p), ~Live(p)'
      PROVE  \E w \in Workers :
               /\ At(w, "terminate") /\ req[w].ref = p
               /\ RowsOf(rows, req[w].datatype, req[w].type) \subseteq {req[w].id}
  BY <1>1, OnlyTerminateEndsLife DEF SnapshotCurrent, OnlyRow, TerminatePipeline
<1>2. IInv /\ SnapshotCurrent /\ [Next]_vars =>
        [\A p \in Refs :
           Live(p) /\ ~Live(p)' =>
             \E w \in Workers :
               /\ At(w, "terminate") /\ req[w].ref = p
               /\ RowsOf(rows, req[w].datatype, req[w].type) \subseteq {req[w].id}]_vars
  BY <1>1
<1> QED BY <1>2, SnapshotCurrentInvariant, PTL DEF Spec, NoSharedTermination

\* On a server with a single thread, while the orchestrator answers, the last
\* row of a datatype and instance type does not leave a live pipeline behind.
THEOREM SingleThreadLastRow ==
  ASSUME \A v, w \in Workers : v = w, "orchestrator" \notin Faults
  PROVE  Spec => LastRowTakesPipeline
<1>1. ASSUME IInv, SnapshotCurrent, [Next]_vars, NEW i \in InstanceIds, NEW p \in Refs,
             IsRow(rows[i]), ~IsRow(rows'[i]), rows[i].ref = p,
             RowsOf(rows', rows[i].datatype, rows[i].type) = {}
      PROVE  ~Live(p)'
  <2>1. PICK w \in Workers :
          RemoveInstance(w) /\ req[w].id = i /\ rows' = [rows EXCEPT ![i] = Gone]
    BY <1>1, OnlyRemoveEndsRows
  <2>2. RowUnderDeletion(req[w]) /\ (OnlyRow(req[w]) => ~Live(req[w].ref))
    BY <2>1 , <1>1 DEF SnapshotCurrent, RemoveInstance
  <2>3. OnlyRow(req[w])
    <3> SUFFICES ASSUME NEW j \in RowsOf(rows, req[w].datatype, req[w].type), j # i
                 PROVE  FALSE
      BY <2>1 DEF OnlyRow
    <3>1. j \in InstanceIds /\ rows'[j] = rows[j]
      BY <2>1 DEF RowsOf, IInv, TypeOK
    <3>2. j \in RowsOf(rows', rows[i].datatype, rows[i].type)
      BY <2>1, <2>2, <3>1 DEF RowsOf, RowUnderDeletion
    <3> QED BY <1>1, <3>2
  <2>4. UNCHANGED pipelines
    BY <2>1 DEF RemoveInstance
  <2> QED BY <1>1, <2>1, <2>2, <2>3, <2>4 DEF RowUnderDeletion, Live
<1>2. IInv /\ SnapshotCurrent /\ [Next]_vars =>
        [\A i \in InstanceIds, p \in Refs :
           /\ IsRow(rows[i]) /\ ~IsRow(rows'[i]) /\ rows[i].ref = p
           /\ RowsOf(rows', rows[i].datatype, rows[i].type) = {}
           => ~Live(p)']_vars
  BY <1>1
<1> QED BY <1>2, SnapshotCurrentInvariant, PTL DEF Spec, LastRowTakesPipeline
=============================================================================
