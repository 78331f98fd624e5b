------------------------- MODULE EdgeRegistryProofs -------------------------
(***************************************************************************)
(* The Edge Instance API served by a single thread implements the registry *)
(* of shared services, for every number of datatypes, types, instances and *)
(* services, and under every fault.                                        *)
(***************************************************************************)
EXTENDS EdgeRegistry, EdgeInstanceProofs

\* The state of the one service of a name, and of a name without one.
ListedStates ==
  /\ \A p \in Listed :
       ServiceState(pipelines[p].name) = IF Live(p) THEN "live" ELSE "ending"
  /\ \A n \in NsNames :
       (\A p \in Listed : pipelines[p].name # n) => ServiceState(n) = "absent"

LEMMA UniqueListedStates == UniquePipeline => ListedStates
<1> SUFFICES ASSUME UniquePipeline PROVE ListedStates
  OBVIOUS
<1>1. ASSUME NEW p \in Listed
      PROVE  ServiceState(pipelines[p].name) = IF Live(p) THEN "live" ELSE "ending"
  <2>1. NamedServices(pipelines[p].name) = {p}
    BY DEF NamedServices, UniquePipeline, Listed
  <2> QED BY <2>1 DEF ServiceState
<1>2. ASSUME NEW n \in NsNames, \A p \in Listed : pipelines[p].name # n
      PROVE  ServiceState(n) = "absent"
  BY <1>2 DEF ServiceState, NamedServices, Listed
<1> QED BY <1>1, <1>2 DEF ListedStates

LEMMA UniqueListedStatesNext == (UniquePipeline => ListedStates)'
BY UniqueListedStates, PTL

\* Services that look the same have the same state, by name.
LEMMA SameServices ==
  ASSUME \A p \in Refs :
           /\ (pipelines'[p] \in {Null, Gone}) <=> (pipelines[p] \in {Null, Gone})
           /\ pipelines[p] \notin {Null, Gone} =>
                pipelines'[p].name = pipelines[p].name /\ (Live(p)' <=> Live(p))
  PROVE  Services' = Services
<1>1. ASSUME NEW n \in NsNames
      PROVE  ServiceState(n)' = ServiceState(n)
  <2>1. NamedServices(n)' = NamedServices(n)
    BY DEF NamedServices
  <2>2. \A p \in NamedServices(n) : Live(p)' <=> Live(p)
    BY DEF NamedServices
  <2> QED BY <2>1, <2>2 DEF ServiceState
<1> QED BY <1>1 DEF Services

\* With one thread, at most one pair is about to be joined.
LEMMA OneAdmitted ==
  ASSUME \A v, w \in Workers : v = w, NEW w \in Workers
  PROVE  /\ Admitted = IF At(w, "insert") THEN {<<req[w].datatype, req[w].type>>} ELSE {}
         /\ Admitted' = IF At(w, "insert")' THEN {<<req'[w].datatype, req'[w].type>>} ELSE {}
<1>1. CASE At(w, "insert")
  BY <1>1 DEF Admitted
<1>2. CASE ~At(w, "insert")
  BY <1>2 DEF Admitted
<1>3. CASE At(w, "insert")'
  BY <1>3 DEF Admitted
<1>4. CASE ~At(w, "insert")'
  BY <1>4 DEF Admitted
<1> QED BY <1>1, <1>2, <1>3, <1>4

\* What Goto and Answer do to the locals that the registry is seen through.
LEMMA GotoLocals ==
  ASSUME IInv, NEW w \in Workers, req[w] # Null, NEW pc \in Steps,
         NEW ref \in Refs \cup {Null}, Goto(w, pc, ref)
  PROVE  /\ req'[w] # Null /\ req'[w].pc = pc
         /\ req'[w].datatype = req[w].datatype /\ req'[w].type = req[w].type
<1>1. req[w] \in Request
  BY RequestFields DEF IInv
<1>2. req'[w] = [req[w] EXCEPT !.pc = pc, !.ref = ref]
  BY DEF Goto, IInv, TypeOK
<1>3. req'[w] \in Request
  BY <1>1, <1>2 DEF Request
<1> QED BY <1>1, <1>2, <1>3, SentinelsAssumption DEF Request

LEMMA AnswerLocals ==
  ASSUME IInv, NEW w \in Workers, Answer(w)
  PROVE  req'[w] = Null
BY DEF Answer, IInv, TypeOK

-----------------------------------------------------------------------------
(* Each step of the API is a step of the registry, or changes nothing in   *)
(* it.  One thread: what w does is all that the requests do.               *)

RegistryStep == Registry!Next \/ UNCHANGED <<Services, Clients, Admitted>>

LEMMA ClientsUnchanged == UNCHANGED rows => UNCHANGED Clients
BY DEF Clients, ClientOf, IsRow

LEMMA PairOfRequest ==
  ASSUME IInv, NEW w \in Workers, req[w] # Null
  PROVE  /\ <<req[w].datatype, req[w].type>> \in Datatypes \X TypeNames
         /\ NameOf(req[w]) = NsName[<<req[w].datatype, req[w].type>>]
         /\ NameOf(req[w]) \in NsNames
BY RequestFields, ConstantsAssumption DEF IInv, NameOf

\* What post_instance does before the insert: it deploys nothing.
LEMMA ListStep ==
  ASSUME IInv, UniquePipeline, \A v, w \in Workers : v = w,
         NEW w \in Workers, ListPipelines(w)
  PROVE  RegistryStep
<1>1. At(w, "list") /\ req[w] # Null /\ UNCHANGED <<rows, pipelines>>
  BY DEF ListPipelines, At
<1>2. UNCHANGED <<Services, Clients>>
  BY <1>1, SameServices, ClientsUnchanged DEF Live
<1>3. Admitted = {}
  BY <1>1, OneAdmitted DEF At
<1>4. CASE Answer(w) \/ Goto(w, "reserve", Null)
  <2>1. ~At(w, "insert")'
    BY <1>1, <1>4, AnswerLocals, GotoLocals DEF At, Steps
  <2> QED BY <1>2, <1>3, <2>1, OneAdmitted DEF RegistryStep
<1>5. ASSUME AlreadyDeployed(req[w]), NEW first \in Listed, Goto(w, "insert", first)
      PROVE  RegistryStep
  <2> DEFINE pair == <<req[w].datatype, req[w].type>>
  <2>1. Admitted' = {pair}
    <3>1. /\ req'[w] # Null /\ req'[w].pc = "insert"
          /\ req'[w].datatype = req[w].datatype /\ req'[w].type = req[w].type
      BY <1>1, <1>5, GotoLocals DEF Listed, Steps
    <3> QED BY <3>1, OneAdmitted DEF At
  <2>2. pair \in Datatypes \X TypeNames /\ NsName[pair] \in NsNames
        /\ NsName[pair] = NameOf(req[w])
    BY <1>1, PairOfRequest
  <2>3. PICK p \in Listed : pipelines[p].name = NsName[pair]
    BY <1>5, <2>2 DEF AlreadyDeployed
  <2>4. Services[NsName[pair]] # "absent"
    BY <2>2, <2>3, UniqueListedStates DEF Services, ListedStates
  <2>5. Registry!Admit(pair)
    BY <1>2, <1>3, <2>1, <2>4 DEF Registry!Admit
  <2> QED BY <2>2, <2>5 DEF RegistryStep, Registry!Next
<1> QED BY <1>4, <1>5 DEF ListPipelines

LEMMA OrchestrateStep ==
  ASSUME IInv, UniquePipeline, UniquePipeline', IInv', \A v, w \in Workers : v = w,
         NEW w \in Workers, Orchestrate(w)
  PROVE  RegistryStep
<1> DEFINE pair == <<req[w].datatype, req[w].type>>
<1>1. At(w, "orchestrate") /\ req[w] # Null /\ UNCHANGED rows
  BY DEF Orchestrate, At
<1>2. UNCHANGED Clients
  BY <1>1, ClientsUnchanged
<1>3. Admitted = {}
  BY <1>1, OneAdmitted DEF At
<1>4. PICK name \in NsNames : /\ pair \in Datatypes \X TypeNames /\ name = NsName[pair]
                             /\ name = NameOf(req[w])
  BY <1>1, PairOfRequest
<1>5. CASE Answer(w) /\ UNCHANGED pipelines
  <2>1. Admitted' = {}
    BY <1>5, AnswerLocals, OneAdmitted DEF At
  <2>2. UNCHANGED Services
    BY <1>5, SameServices DEF Live
  <2> QED BY <1>2, <1>3, <2>1, <2>2 DEF RegistryStep
<1>6. ASSUME NEW p \in Refs, Create(w, p), Answer(w) \/ Goto(w, "insert", p)
      PROVE  RegistryStep
  <2> DEFINE new == [name |-> NameOf(req[w]), demand |-> req[w].snap.types[req[w].type],
                     by |-> w, state |-> "deploying"]
  <2>1. Admitted' \in {{}, {pair}}
    <3>1. CASE Answer(w)
      BY <3>1, AnswerLocals, OneAdmitted DEF At
    <3>2. CASE Goto(w, "insert", p)
      BY <1>1, <3>2, GotoLocals, OneAdmitted DEF At, Steps
    <3> QED BY <1>6, <3>1, <3>2
  <2>2. /\ pipelines[p] = Null /\ pipelines'[p] = new
        /\ \A q \in Refs : q # p => pipelines'[q] = pipelines[q]
    BY <1>6 DEF Create, IInv, TypeOK
  <2>3. p \in Listed' /\ p \notin Listed /\ Live(p)' /\ pipelines'[p].name = name
    <3>1. Listed' = Listed \cup {p}
      BY <1>1, <1>6, CreateInv
    <3>2. pipelines'[p] \notin {Null, Gone} /\ p \notin Listed
      BY <2>2, <3>1 DEF Listed
    <3> QED BY <1>4, <2>2, <3>1, <3>2 DEF Live
  <2>4. \A q \in Listed : pipelines[q].name # name
    <3> SUFFICES ASSUME NEW q \in Listed, pipelines[q].name = name PROVE FALSE
      OBVIOUS
    <3>1. q \in Refs /\ q # p
      BY <2>3 DEF Listed
    <3>2. pipelines'[q] = pipelines[q] /\ q \in Listed'
      BY <2>2, <3>1 DEF Listed
    <3>3. pipelines'[q].name = pipelines'[p].name
      BY <2>3, <3>2
    <3> QED BY <2>3, <3>1, <3>2, <3>3 DEF UniquePipeline
  <2>5. Services[name] = "absent"
    BY <1>4, <2>4, UniqueListedStates DEF Services, ListedStates
  <2>6. ServiceState(name)' = "live"
    BY <2>3, UniqueListedStatesNext DEF ListedStates
  <2>7. ASSUME NEW n \in NsNames, n # name
        PROVE  ServiceState(n)' = ServiceState(n)
    <3>1. NamedServices(n)' = NamedServices(n)
      BY <2>2, <2>3, <2>7 DEF NamedServices, Listed
    <3>2. \A q \in NamedServices(n) : Live(q)' <=> Live(q)
      BY <2>2, <2>3 DEF NamedServices, Listed, Live
    <3> QED BY <3>1, <3>2 DEF ServiceState
  <2>8. Services' = [Services EXCEPT ![name] = "live"]
    BY <1>4, <2>6, <2>7 DEF Services
  <2>9. Registry!Deploy(pair)
    BY <1>2, <1>3, <1>4, <2>1, <2>5, <2>8 DEF Registry!Deploy
  <2> QED BY <1>4, <2>9 DEF RegistryStep, Registry!Next
<1> QED BY <1>5, <1>6 DEF Orchestrate

LEMMA InsertStep ==
  ASSUME IInv, \A v, w \in Workers : v = w, NEW w \in Workers, InsertInstance(w), IInv'
  PROVE  RegistryStep
<1> DEFINE pair == <<req[w].datatype, req[w].type>>
<1>1. At(w, "insert") /\ req[w] # Null /\ UNCHANGED pipelines /\ Answer(w)
  BY DEF InsertInstance, At
<1>2. UNCHANGED Services
  BY <1>1, SameServices DEF Live
<1>3. Admitted = {pair} /\ Admitted' = {}
  BY <1>1, AnswerLocals, OneAdmitted DEF At
<1>4. pair \in Datatypes \X TypeNames
  BY <1>1, PairOfRequest
<1>5. CASE UNCHANGED rows
  <2>1. Registry!Dismiss(pair)
    BY <1>2, <1>3, <1>5, ClientsUnchanged DEF Registry!Dismiss
  <2> QED BY <1>4, <2>1 DEF RegistryStep, Registry!Next
<1>6. ASSUME NEW i \in InstanceIds, rows[i] = Null,
             rows' = [rows EXCEPT ![i] = [type |-> req[w].type, datatype |-> req[w].datatype,
                                          ref |-> req[w].ref]]
      PROVE  RegistryStep
  <2>1. Clients[i] = Null
    BY <1>6 DEF Clients, ClientOf, IsRow
  <2>2. ClientOf(i)' = pair
    <3>1. /\ rows'[i] = [type |-> req[w].type, datatype |-> req[w].datatype, ref |-> req[w].ref]
          /\ req[w].ref \in Refs
      BY <1>1, <1>6 DEF IInv, TypeOK, LocalsReady
    <3>2. rows'[i] \in Row
      BY <1>1, <3>1, RequestFields DEF IInv, Row
    <3> QED BY <3>1, <3>2, SentinelsAssumption DEF ClientOf, IsRow
  <2>3. \A j \in InstanceIds : j # i => ClientOf(j)' = ClientOf(j)
    BY <1>6 DEF ClientOf, IsRow, IInv, TypeOK
  <2>4. Clients' = [Clients EXCEPT ![i] = pair]
    BY <2>2, <2>3 DEF Clients
  <2>5. Registry!Join(pair, i)
    BY <1>2, <1>3, <2>1, <2>4 DEF Registry!Join
  <2> QED BY <1>4, <2>5 DEF RegistryStep, Registry!Next
<1> QED BY <1>5, <1>6 DEF InsertInstance

-----------------------------------------------------------------------------
(* What delete_instance does.                                              *)

\* A service that is asked to terminate is the only one of its name that ends.
LEMMA TerminateStep ==
  ASSUME IInv, SnapshotCurrent, UniquePipeline, UniquePipeline', \A v, w \in Workers : v = w,
         NEW w \in Workers, TerminatePipeline(w)
  PROVE  RegistryStep
<1> DEFINE p == req[w].ref
           i == req[w].id
<1>1. /\ At(w, "terminate") /\ req[w] # Null /\ UNCHANGED rows
      /\ i \in InstanceIds /\ req[w].ref \in Refs
      /\ Answer(w) \/ Goto(w, "remove", req[w].ref)
      /\ UNCHANGED pipelines \/ Terminated(req[w].ref)
  BY DEF TerminatePipeline, At, IInv, LocalsReady
<1>2. UNCHANGED <<Clients, Admitted>>
  <2>1. ~At(w, "insert")
    BY <1>1 DEF At
  <2>2. ~At(w, "insert")'
    BY <1>1, AnswerLocals, GotoLocals DEF At, Steps
  <2> QED BY <1>1, <2>1, <2>2, OneAdmitted, ClientsUnchanged
<1>3. CASE UNCHANGED pipelines
  BY <1>2, <1>3, SameServices DEF Live, RegistryStep
<1>4. CASE Terminated(req[w].ref) /\ Live(req[w].ref)
  <2>1. PICK q \in Refs : q = req[w].ref
    BY <1>1
  <2>2. /\ pipelines[q] \notin {Null, Gone} /\ pipelines[q] \in Pipeline /\ q \in Listed
        /\ pipelines' = [pipelines EXCEPT ![q].state = "terminating"] /\ Live(q)
    BY <1>4, <2>1 DEF Terminated, Live, IInv, TypeOK, Listed
  <2>3. PICK name \in NsNames : name = pipelines[q].name
    BY <2>2 DEF Pipeline
  <2>4. /\ pipelines'[q] = [pipelines[q] EXCEPT !.state = "terminating"]
        /\ \A r \in Refs : r # q => pipelines'[r] = pipelines[r]
    BY <2>2 DEF IInv, TypeOK
  <2>5. /\ pipelines'[q] \in Pipeline /\ pipelines'[q].name = name
        /\ pipelines'[q].state = "terminating"
    BY <2>2, <2>3, <2>4 DEF Pipeline
  <2>6. q \in Listed' /\ ~Live(q)'
    BY <2>5, SentinelsAssumption DEF Listed, Live
  <2>7. Services[name] = "live"
    BY <2>2, <2>3, UniqueListedStates DEF ListedStates, Services
  <2>8. ServiceState(name)' = "ending"
    BY <2>5, <2>6, UniqueListedStatesNext DEF ListedStates
  <2>9. ASSUME NEW n \in NsNames, n # name
        PROVE  ServiceState(n)' = ServiceState(n)
    <3>1. NamedServices(n)' = NamedServices(n)
      BY <2>3, <2>4, <2>5, <2>9 DEF NamedServices
    <3>2. \A r \in NamedServices(n) : Live(r)' <=> Live(r)
      BY <2>3, <2>4, <2>9 DEF NamedServices, Live
    <3> QED BY <3>1, <3>2 DEF ServiceState
  <2>10. Services' = [Services EXCEPT ![name] = "ending"]
    BY <2>8, <2>9 DEF Services
  <2>11. /\ Clients[i] \in Datatypes \X TypeNames
         /\ \A j \in InstanceIds : Clients[j] = Clients[i] => j = i
    <3>1. RowUnderDeletion(req[w]) /\ OnlyRow(req[w])
      BY <1>1 DEF SnapshotCurrent
    <3>2. Clients[i] = <<req[w].datatype, req[w].type>>
      BY <1>1, <3>1 DEF RowUnderDeletion, Clients, ClientOf
    <3>3. Clients[i] \in Datatypes \X TypeNames
      BY <1>1, <3>2, PairOfRequest
    <3>4. ASSUME NEW j \in InstanceIds, Clients[j] = Clients[i]
          PROVE  j = i
      <4>1. IsRow(rows[j])
        BY <3>3, <3>4, PairsAssumption DEF Clients, ClientOf, IsRow
      <4>2. rows[j].datatype = req[w].datatype /\ rows[j].type = req[w].type
        BY <3>2, <3>4, <4>1 DEF Clients, ClientOf
      <4> QED BY <3>1, <4>1, <4>2 DEF OnlyRow, RowsOf
    <3> QED BY <3>3, <3>4
  <2>12. Registry!Retire(i, name)
    BY <1>2, <2>7, <2>10, <2>11 DEF Registry!Retire
  <2> QED BY <1>1, <2>12 DEF RegistryStep, Registry!Next
<1> QED BY <1>1, <1>3, <1>4 DEF Terminated

LEMMA RemoveStep ==
  ASSUME IInv, SnapshotCurrent, \A v, w \in Workers : v = w,
         NEW w \in Workers, RemoveInstance(w)
  PROVE  RegistryStep
<1>1. /\ At(w, "remove") /\ req[w] # Null /\ UNCHANGED pipelines /\ Answer(w)
      /\ req[w].id \in InstanceIds /\ RowUnderDeletion(req[w])
  BY DEF RemoveInstance, At, IInv, LocalsReady, SnapshotCurrent
<1>2. UNCHANGED <<Services, Admitted>>
  <2>1. ~At(w, "insert")
    BY <1>1 DEF At
  <2>2. ~At(w, "insert")'
    BY <1>1, AnswerLocals DEF At
  <2>3. UNCHANGED Services
    BY <1>1, SameServices DEF Live
  <2> QED BY <2>1, <2>2, <2>3, OneAdmitted
<1>3. CASE UNCHANGED rows
  BY <1>2, <1>3, ClientsUnchanged DEF RegistryStep
<1>4. CASE rows' = [rows EXCEPT ![req[w].id] = Gone]
  <2>1. PICK i \in InstanceIds : i = req[w].id
    BY <1>1
  <2>2. Clients[i] \in Datatypes \X TypeNames
    BY <1>1, <2>1, PairOfRequest DEF Clients, ClientOf, RowUnderDeletion
  <2>3. ClientOf(i)' = Gone
    BY <1>4, <2>1 DEF ClientOf, IsRow, IInv, TypeOK
  <2>4. \A j \in InstanceIds : j # i => ClientOf(j)' = ClientOf(j)
    BY <1>4, <2>1 DEF ClientOf, IsRow, IInv, TypeOK
  <2>5. Clients' = [Clients EXCEPT ![i] = Gone]
    BY <2>3, <2>4 DEF Clients
  <2>6. Registry!Leave(i)
    BY <1>2, <2>2, <2>5 DEF Registry!Leave
  <2> QED BY <2>6 DEF RegistryStep, Registry!Next
<1> QED BY <1>3, <1>4 DEF RemoveInstance

-----------------------------------------------------------------------------
(* The steps that the registry does not see, and those of the orchestrator.*)

\* A request that changes neither table nor services and is at no insert.
LEMMA UnseenStep ==
  ASSUME UNCHANGED <<rows, pipelines>>, \A v, w \in Workers : v = w, NEW w \in Workers,
         ~At(w, "insert"), ~At(w, "insert")'
  PROVE  RegistryStep
<1>1. UNCHANGED Services
  BY SameServices DEF Live
<1> QED BY <1>1, OneAdmitted, ClientsUnchanged DEF RegistryStep

LEMMA CheckStep ==
  ASSUME IInv, \A v, w \in Workers : v = w, NEW w \in Workers, CheckResources(w)
  PROVE  RegistryStep
<1>1. /\ At(w, "reserve") /\ req[w] # Null /\ UNCHANGED <<rows, pipelines>>
      /\ Answer(w) \/ Goto(w, "orchestrate", Null)
  BY DEF CheckResources, At
<1>2. ~At(w, "insert") /\ ~At(w, "insert")'
  BY <1>1, AnswerLocals, GotoLocals DEF At, Steps
<1> QED BY <1>1, <1>2, UnseenStep

LEMMA BeginStep ==
  ASSUME IInv, \A v, w \in Workers : v = w, NEW w \in Workers,
         \/ \E d \in Datatypes, t \in TypeNames : PostInstance(w, d, t)
         \/ \E i \in InstanceIds : DeleteInstance(w, i)
  PROVE  RegistryStep
<1>1. req[w] = Null /\ UNCHANGED <<rows, pipelines>>
  BY DEF PostInstance, DeleteInstance
<1>2. req'[w] = Null \/ req'[w].pc # "insert"
  BY DEF PostInstance, DeleteInstance, Answer, Begin, IInv, TypeOK
<1> QED BY <1>1, <1>2, UnseenStep DEF At

\* The service of OSM that ends takes its name's state with it.
LEMMA VanishStep ==
  ASSUME IInv, UniquePipeline, UniquePipeline', NEW p \in Refs, Vanish(p)
  PROVE  RegistryStep
<1>1. /\ p \in Listed /\ ~Live(p) /\ pipelines[p] \in Pipeline
      /\ UNCHANGED <<rows, req>> /\ pipelines' = [pipelines EXCEPT ![p] = Gone]
  BY DEF Vanish, Live, Listed, IInv, TypeOK
<1>2. PICK name \in NsNames : name = pipelines[p].name
  BY <1>1 DEF Pipeline
<1>3. Services[name] = "ending"
  BY <1>1, <1>2, UniqueListedStates DEF ListedStates, Services
<1>4. ServiceState(name)' = "absent"
  <2>1. Listed' = Listed \ {p} /\ \A q \in Listed' : pipelines'[q] = pipelines[q]
    BY <1>1 DEF Listed, IInv, TypeOK
  <2>2. \A q \in Listed' : pipelines'[q].name # name
    BY <1>1, <1>2, <2>1 DEF UniquePipeline
  <2> QED BY <2>2, UniqueListedStatesNext DEF ListedStates
<1>5. ASSUME NEW n \in NsNames, n # name
      PROVE  ServiceState(n)' = ServiceState(n)
  <2>1. NamedServices(n)' = NamedServices(n)
    BY <1>1, <1>2, <1>5 DEF NamedServices, IInv, TypeOK
  <2>2. \A q \in NamedServices(n) : Live(q)' <=> Live(q)
    BY <1>1, <1>2, <1>5 DEF NamedServices, Live, IInv, TypeOK
  <2> QED BY <2>1, <2>2 DEF ServiceState
<1>6. Services' = [Services EXCEPT ![name] = "absent"]
  BY <1>4, <1>5 DEF Services
<1>7. UNCHANGED <<Clients, Admitted>>
  BY <1>1, ClientsUnchanged DEF Admitted, At
<1>8. Registry!Disappear(name)
  BY <1>3, <1>6, <1>7 DEF Registry!Disappear
<1> QED BY <1>8 DEF RegistryStep, Registry!Next

LEMMA InstantiateStep ==
  ASSUME IInv, NEW p \in Refs, Instantiate(p)
  PROVE  RegistryStep
<1>1. /\ pipelines[p] \in Pipeline /\ pipelines[p].state = "deploying"
      /\ pipelines' = [pipelines EXCEPT ![p].state = "running"] /\ UNCHANGED <<rows, req>>
  BY DEF Instantiate, Listed, IInv, TypeOK
<1>2. pipelines'[p] = [pipelines[p] EXCEPT !.state = "running"]
  BY <1>1 DEF IInv, TypeOK
<1>3. /\ pipelines'[p] \in Pipeline /\ pipelines'[p].name = pipelines[p].name
      /\ pipelines'[p].state = "running"
  BY <1>1, <1>2 DEF Pipeline
<1>4. \A q \in Refs : q # p => pipelines'[q] = pipelines[q]
  BY <1>1 DEF IInv, TypeOK
<1>5. UNCHANGED Services
  BY <1>1, <1>3, <1>4, SameServices, SentinelsAssumption DEF Live
<1> QED BY <1>1, <1>5, ClientsUnchanged DEF RegistryStep, Admitted, At

\* A request that is lost before its insert has nobody join.
LEMMA RestartStep ==
  ASSUME IInv, \A v, w \in Workers : v = w, Restart
  PROVE  RegistryStep
<1>1. UNCHANGED <<rows, pipelines>> /\ \A w \in Workers : req'[w] = Null
  BY DEF Restart
<1>2. UNCHANGED <<Services, Clients>>
  BY <1>1, SameServices, ClientsUnchanged DEF Live
<1>3. Admitted' = {}
  BY <1>1 DEF Admitted, At
<1>4. ASSUME NEW w \in Workers, At(w, "insert")
      PROVE  RegistryStep
  <2> DEFINE pair == <<req[w].datatype, req[w].type>>
  <2>1. Admitted = {pair} /\ pair \in Datatypes \X TypeNames
    BY <1>4, OneAdmitted, PairOfRequest DEF At
  <2>2. Registry!Dismiss(pair)
    BY <1>2, <1>3, <2>1 DEF Registry!Dismiss
  <2> QED BY <2>1, <2>2 DEF RegistryStep, Registry!Next
<1>5. CASE \A w \in Workers : ~At(w, "insert")
  <2>1. Admitted = {}
    BY <1>5 DEF Admitted
  <2> QED BY <1>2, <1>3, <2>1 DEF RegistryStep
<1> QED BY <1>4, <1>5

LEMMA NextStep ==
  ASSUME IInv, IInv', SnapshotCurrent, UniquePipeline, UniquePipeline',
         \A v, w \in Workers : v = w, [Next]_vars
  PROVE  RegistryStep
<1>1. ASSUME NEW w \in Workers, InstanceStep(w)
      PROVE  RegistryStep
  BY <1>1, BeginStep, ListStep, CheckStep, OrchestrateStep, InsertStep, TerminateStep,
     RemoveStep
  DEF InstanceStep
<1>2. CASE TypeStep \/ UNCHANGED vars
  <2>1. UNCHANGED <<rows, pipelines, req>>
    BY <1>2 DEF TypeStep, PostType, PatchType, DeleteType, vars
  <2>2. UNCHANGED Services
    BY <2>1, SameServices DEF Live
  <2> QED BY <2>1, <2>2, ClientsUnchanged DEF RegistryStep, Admitted, At
<1>3. ASSUME NEW p \in Refs, Instantiate(p) \/ Vanish(p)
      PROVE  RegistryStep
  BY <1>3, InstantiateStep, VanishStep
<1> QED BY <1>1, <1>2, <1>3, RestartStep DEF Next

LEMMA RegistryInit == Init => Registry!Init
<1> SUFFICES ASSUME Init PROVE Registry!Init
  OBVIOUS
<1>1. \A n \in NsNames : ServiceState(n) = "absent"
  BY DEF Init, ServiceState, NamedServices
<1>2. \A i \in InstanceIds : ClientOf(i) = Null
  BY DEF Init, ClientOf, IsRow
<1>3. Admitted = {}
  BY DEF Init, Admitted, At
<1> QED BY <1>1, <1>2, <1>3 DEF Registry!Init, Services, Clients

\* An API that serves one request at a time is a registry of shared services:
\* one service of a name at most, joined only where there is one and retired
\* only for the last of a pair.  Orchestrator and database may fail and the
\* API restart at any point.
THEOREM SingleThreadImplementsRegistry ==
  ASSUME \A v, w \in Workers : v = w
  PROVE  Spec => ImplementsRegistry
<1>1. IInv /\ IInv' /\ SnapshotCurrent /\ UniquePipeline /\ UniquePipeline' /\ [Next]_vars
        => [Registry!Next]_(Registry!vars)
  BY NextStep DEF RegistryStep, Registry!vars
<1>2. Spec => [](IInv /\ SnapshotCurrent) /\ []UniquePipeline
  BY SnapshotCurrentInvariant, SingleThreadUnique
<1> QED BY <1>1, <1>2, RegistryInit, PTL DEF Spec, ImplementsRegistry, Registry!Spec
=============================================================================
