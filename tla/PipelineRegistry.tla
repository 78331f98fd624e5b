-------------------------- MODULE PipelineRegistry --------------------------
(***************************************************************************)
(* What the Edge Instance API promises, without its tables, requests and   *)
(* orchestrator: a registry of shared services.  There is one service of a *)
(* name or none; clients join the pair they ask for once its service is    *)
(* there, and a service is retired on the departure of a pair's last one.  *)
(***************************************************************************)
CONSTANTS
  Names,      \* of services
  Pairs,      \* of a datatype and an instance type
  ServiceOf,  \* the name of the service of a pair
  Ids,        \* of clients
  None,       \* an id that is not given out yet
  Former      \* the id of a client that has left

VARIABLES
  service,  \* "absent", "live" or "ending", by name
  client,   \* the pair of each client, by id
  admitted  \* the pairs that somebody is about to join

vars == <<service, client, admitted>>

Init ==
  /\ service = [n \in Names |-> "absent"]
  /\ client = [i \in Ids |-> None]
  /\ admitted = {}

\* Whoever wants to join finds the service of the pair.
Admit(pair) ==
  /\ service[ServiceOf[pair]] # "absent"
  /\ admitted' = admitted \cup {pair}
  /\ UNCHANGED <<service, client>>

\* A service is deployed where there is none; whoever asked for it may never
\* hear of it.
Deploy(pair) ==
  /\ service[ServiceOf[pair]] = "absent"
  /\ service' = [service EXCEPT ![ServiceOf[pair]] = "live"]
  /\ admitted' \in {admitted, admitted \cup {pair}}
  /\ UNCHANGED client

\* Only who was admitted joins, under an id that nobody had before.
Join(pair, i) ==
  /\ pair \in admitted /\ client[i] = None
  /\ client' = [client EXCEPT ![i] = pair]
  /\ admitted' = admitted \ {pair}
  /\ UNCHANGED service

Dismiss(pair) ==
  /\ pair \in admitted
  /\ admitted' = admitted \ {pair}
  /\ UNCHANGED <<service, client>>

\* On behalf of client i, the last one of its pair, a service is retired.
Retire(i, n) ==
  /\ client[i] \in Pairs /\ \A j \in Ids : client[j] = client[i] => j = i
  /\ service[n] = "live"
  /\ service' = [service EXCEPT ![n] = "ending"]
  /\ UNCHANGED <<client, admitted>>

Leave(i) ==
  /\ client[i] \in Pairs
  /\ client' = [client EXCEPT ![i] = Former]
  /\ UNCHANGED <<service, admitted>>

Disappear(n) ==
  /\ service[n] = "ending"
  /\ service' = [service EXCEPT ![n] = "absent"]
  /\ UNCHANGED <<client, admitted>>

Next ==
  \/ \E pair \in Pairs : Admit(pair) \/ Deploy(pair) \/ Dismiss(pair)
  \/ \E pair \in Pairs, i \in Ids : Join(pair, i)
  \/ \E i \in Ids, n \in Names : Retire(i, n)
  \/ \E i \in Ids : Leave(i)
  \/ \E n \in Names : Disappear(n)

Spec == Init /\ [][Next]_vars
=============================================================================
