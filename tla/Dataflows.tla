------------------------------ MODULE Dataflows ------------------------------
(***************************************************************************)
(* The Registration API (registration_api_controller.py) and its clients,  *)
(* sensors and devices that run sender.py.  A sender registers a dataflow, *)
(* and a thread of it asks every 30 seconds whether anybody wants the      *)
(* data: that is whether the row's counter of topics is above zero.        *)
(*                                                                         *)
(* Every statement commits on its own (no transaction is begun), so a      *)
(* request is one action per statement.  Topics come and go from outside:  *)
(* whoever adds or removes one adjusts the counters of the rows it matches. *)
(*                                                                         *)
(* Bound: applyRules sets any column that a pipeline's rules name; here no *)
(* rules name the counter or a column that topics are matched with.        *)
(***************************************************************************)
EXTENDS Integers, FiniteSets

CONSTANTS
  Senders,    \* the processes that run sender.py, one run of each after another
  Workers,    \* the API's threads that serve POSTs
  Topics,     \* each is added at most once, and removed at most once
  MaxFlows,   \* bound: the rows ever inserted
  Matches,    \* the senders whose metadata a topic matches
  Null        \* absent

FlowIds == 1..MaxFlows

\* History: drifted, topics changed between the count that the row's counter comes
\* from and the statement that wrote it; expected, the sender still waited for the
\* answer when the row was inserted.
Row == [by : Senders, counter : Int, drifted : BOOLEAN, expected : BOOLEAN,
        present : BOOLEAN]

\* stale is history: a matching topic came or went since the request counted.
\* awaited: the sender waits for the answer; the API serves the POST regardless.
Post == [by : Senders, id : FlowIds \cup {Null}, counter : Int, stale : BOOLEAN,
         awaited : BOOLEAN]

Put == [id : FlowIds, counter : Int, stale : BOOLEAN]

ASSUME DataflowsAssumption ==
  /\ MaxFlows \in Nat
  /\ IsFiniteSet(Topics)
  /\ Matches \in [Topics -> SUBSET Senders]
  /\ Null \notin FlowIds \cup Row \cup Post \cup Put

VARIABLES
  topics,     \* the topics table
  flows,      \* the dataflows table by dataflowId; a deleted row is not present
  posts,      \* add_dataflow in each worker: what it has counted, its row
  puts,       \* update_dataflow serving each sender: what it has read
  client      \* the globals dataflowId and send of each sender, and its thread

vars == <<topics, flows, posts, puts, client>>

\* loop: the main thread sends.  keepalive: the other thread sleeps, waits for
\* its answer, or was ended by an exception.
Client == [loop : BOOLEAN, id : FlowIds \cup {Null}, send : BOOLEAN,
           keepalive : {"none", "asleep", "waiting", "dead"}]

Off == [loop |-> FALSE, id |-> Null, send |-> FALSE, keepalive |-> "none"]

\* The sender got an id and was not stopped since.
Runs(s) == client[s].id # Null

Present(i) == flows[i] # Null /\ flows[i].present

\* The topics that a registration of s counts.
Interest(s) == {t \in Topics : topics[t] = "live" /\ s \in Matches[t]}

Counted(s) == Cardinality(Interest(s))

-----------------------------------------------------------------------------
(* add_dataflow, and the start of a sender.                                *)

Registering(s) == \E w \in Workers : posts[w] # Null /\ posts[w].by = s /\ posts[w].awaited

\* The topics are read and counted.  The POST is one that its sender waits for, or
\* one that an earlier run of it sent before it ended.
CountTopics(w, s, awaited) ==
  /\ posts[w] = Null
  /\ awaited => ~Runs(s) /\ ~Registering(s)
  /\ posts' = [posts EXCEPT ![w] = [by |-> s, id |-> Null, counter |-> Counted(s),
                                    stale |-> FALSE, awaited |-> awaited]]
  /\ UNCHANGED <<topics, flows, puts, client>>

\* The row takes the next auto-increment id.  What a worker does after it matters
\* only to a sender that waits.
InsertDataflow(w) ==
  /\ posts[w] # Null /\ posts[w].id = Null
  /\ \E i \in FlowIds :
       /\ flows[i] = Null /\ \A j \in FlowIds : j < i => flows[j] # Null
       /\ flows' = [flows EXCEPT ![i] =
                      [by |-> posts[w].by, counter |-> posts[w].counter,
                       drifted |-> posts[w].stale, expected |-> posts[w].awaited,
                       present |-> TRUE]]
       /\ posts' = [posts EXCEPT ![w] = IF posts[w].awaited THEN [@ EXCEPT !.id = i] ELSE Null]
  /\ UNCHANGED <<topics, puts, client>>

\* Variant of InsertFails: the sender starts without an id.
InsertFailsUnnoticed(w) ==
  /\ posts[w] # Null /\ posts[w].id = Null
  /\ client' = IF posts[w].awaited
               THEN [client EXCEPT ![posts[w].by] = [Off EXCEPT !.loop = TRUE, !.keepalive = "asleep"]]
               ELSE client
  /\ posts' = [posts EXCEPT ![w] = Null]
  /\ UNCHANGED <<topics, flows, puts>>

\* A statement raises (405, or 500 before the insert): a sender that waits exits.
InsertFails(w) ==
  /\ posts[w] # Null /\ posts[w].id = Null
  /\ posts' = [posts EXCEPT ![w] = Null]
  /\ UNCHANGED <<topics, flows, puts, client>>

\* The sender, or its connection, is gone before the answer: it ends with nothing
\* set, and what has not been inserted yet still will be.
AbandonPost(w) ==
  /\ posts[w] # Null /\ posts[w].awaited
  /\ posts' = [posts EXCEPT ![w] = IF posts[w].id = Null THEN [@ EXCEPT !.awaited = FALSE]
                                                         ELSE Null]
  /\ UNCHANGED <<topics, flows, puts, client>>

\* Variant: the id of the last row of all, not of this connection's.
LastIdOfAll(w) == CHOOSE i \in FlowIds :
  flows[i] # Null /\ \A j \in FlowIds : flows[j] # Null => j <= i

\* LAST_INSERT_ID() of the request's own connection.
LastInsertId(w) == posts[w].id

\* The sender gets the answer, takes its fields and starts the thread.
AnswerPost(w) ==
  /\ posts[w] # Null /\ posts[w].id # Null
  /\ client' = [client EXCEPT ![posts[w].by] =
                  [loop |-> TRUE, id |-> LastInsertId(w), send |-> posts[w].counter > 0,
                   keepalive |-> "asleep"]]
  /\ posts' = [posts EXCEPT ![w] = Null]
  /\ UNCHANGED <<topics, flows, puts>>

\* An interrupt, or an exception of the broker's connection, ends the main
\* thread; the process lives on with the other one.
LoopEnds(s) ==
  /\ client[s].loop
  /\ client' = [client EXCEPT ![s].loop = FALSE]
  /\ UNCHANGED <<topics, flows, posts, puts>>

\* The process is gone.  A PUT that is being served is served to its end.
StopSender(s) ==
  /\ Runs(s)
  /\ client' = [client EXCEPT ![s] = Off]
  /\ UNCHANGED <<topics, flows, posts, puts>>

-----------------------------------------------------------------------------
(* sendKeepAlive and update_dataflow.                                      *)

\* r.json()['send'] or the request itself raises: the thread ends, and the main
\* thread goes on with the last value of send.
KeepAliveEnds(s, from) ==
  client' = [client EXCEPT ![s].keepalive = IF @ = from THEN "dead" ELSE @]

\* A PUT arrives and its row is read.  Bound: it finds the PUT of an earlier run
\* of the sender served; the thread sleeps 30 seconds before it asks.
ReadDataflow(s) ==
  LET i == client[s].id IN
    /\ client[s].keepalive = "asleep" /\ puts[s] = Null /\ Present(i)
    /\ puts' = [puts EXCEPT ![s] = [id |-> i, counter |-> flows[i].counter, stale |-> FALSE]]
    /\ client' = [client EXCEPT ![s].keepalive = "waiting"]
    /\ UNCHANGED <<topics, flows, posts>>

\* No such row: 404, and an answer without the key send.
NotFound(s) ==
  /\ client[s].keepalive = "asleep" /\ ~Present(client[s].id)
  /\ KeepAliveEnds(s, "asleep")
  /\ UNCHANGED <<topics, flows, posts, puts>>

\* Variant: the counter is not carried over.
WrittenCounter0(put) == 0

\* The counter that was read is written back.
WrittenCounter(put) == put.counter

\* The row as the UPDATE leaves it.
Written(put) ==
  [flows[put.id] EXCEPT !.counter = WrittenCounter(put), !.drifted = @ \/ put.stale]

\* Variant: a row that is gone is inserted again.
Upserted(put) == [flows EXCEPT ![put.id] = [Written(put) EXCEPT !.present = TRUE]]

\* An UPDATE of no row succeeds and changes nothing.
Updated(put) ==
  IF Present(put.id) THEN [flows EXCEPT ![put.id] = Written(put)] ELSE flows

\* Variant: the sender keeps the value that it registered with.
AnsweredFirst(s, put) == client[s].send

Answered(s, put) == put.counter > 0

\* The row is written, and the thread takes the answer if it still waits for it.
WriteDataflow(s) ==
  /\ puts[s] # Null
  /\ flows' = Updated(puts[s])
  /\ puts' = [puts EXCEPT ![s] = Null]
  /\ client' = IF client[s].keepalive = "waiting"
               THEN [client EXCEPT ![s].keepalive = "asleep",
                                   ![s].send = Answered(s, puts[s])]
               ELSE client
  /\ UNCHANGED <<topics, posts>>

\* The update raises (405, a string), or the answer of a good one is lost.
PutFails(s) ==
  /\ puts[s] # Null
  /\ flows' \in {flows, Updated(puts[s])}
  /\ puts' = [puts EXCEPT ![s] = Null]
  /\ KeepAliveEnds(s, "waiting")
  /\ UNCHANGED <<topics, posts>>

\* The API cannot be reached.
PutUnsent(s) ==
  /\ client[s].keepalive = "asleep"
  /\ KeepAliveEnds(s, "asleep")
  /\ UNCHANGED <<topics, flows, posts, puts>>

-----------------------------------------------------------------------------
(* delete_dataflow, called by anyone, and the changes of topics.           *)

DeleteDataflow(i) ==
  /\ Present(i)
  /\ flows' = [flows EXCEPT ![i].present = FALSE]
  /\ UNCHANGED <<topics, posts, puts, client>>

\* External: a topic comes or goes, and the counters of the rows follow.
TopicChanges(t, from, to, by) ==
  LET matched == Matches[t] IN
    /\ topics[t] = from
    /\ topics' = [topics EXCEPT ![t] = to]
    /\ flows' = [i \in FlowIds |->
                   IF Present(i) /\ flows[i].by \in matched
                   THEN [flows[i] EXCEPT !.counter = @ + by] ELSE flows[i]]
    /\ posts' = [w \in Workers |-> IF posts[w] # Null /\ posts[w].by \in matched
                                   THEN [posts[w] EXCEPT !.stale = TRUE] ELSE posts[w]]
    /\ puts' = [s \in Senders |-> IF s \in matched /\ puts[s] # Null
                                  THEN [puts[s] EXCEPT !.stale = TRUE] ELSE puts[s]]
    /\ UNCHANGED client

Subscribe(t) == TopicChanges(t, "unborn", "live", 1)

Unsubscribe(t) == TopicChanges(t, "live", "gone", -1)

Init ==
  /\ topics = [t \in Topics |-> "unborn"]
  /\ flows = [i \in FlowIds |-> Null]
  /\ posts = [w \in Workers |-> Null]
  /\ puts = [s \in Senders |-> Null]
  /\ client = [s \in Senders |-> Off]

Next ==
  \/ \E w \in Workers, s \in Senders, awaited \in BOOLEAN : CountTopics(w, s, awaited)
  \/ \E w \in Workers : InsertDataflow(w) \/ InsertFails(w) \/ AnswerPost(w) \/ AbandonPost(w)
  \/ \E s \in Senders : LoopEnds(s) \/ StopSender(s)
  \/ \E s \in Senders : ReadDataflow(s) \/ NotFound(s) \/ WriteDataflow(s)
                        \/ PutFails(s) \/ PutUnsent(s)
  \/ \E i \in FlowIds : DeleteDataflow(i)
  \/ \E t \in Topics : Subscribe(t) \/ Unsubscribe(t)

Spec == Init /\ [][Next]_vars

\* The thread loops for ever, and the API serves a request that it has taken.
FairSpec ==
  /\ Spec
  /\ \A s \in Senders : /\ WF_vars(ReadDataflow(s)) /\ WF_vars(NotFound(s))
                        /\ WF_vars(WriteDataflow(s))

-----------------------------------------------------------------------------
(* Properties.                                                             *)

\* Type correctness; a sender that has an id has a thread, alive or dead, and none
\* runs without an id.
TypeOK ==
  /\ topics \in [Topics -> {"unborn", "live", "gone"}]
  /\ flows \in [FlowIds -> Row \cup {Null}]
  /\ posts \in [Workers -> Post \cup {Null}]
  /\ puts \in [Senders -> Put \cup {Null}]
  /\ client \in [Senders -> Client]
  /\ \A s \in Senders : Runs(s) <=> client[s].keepalive # "none"

\* A running sender keeps alive the row that its own run registered, however
\* registrations interleave, fail and outlive their senders: no other sender's, none
\* that an earlier run of its left behind, and none that a POST of an earlier run
\* inserts late, which may well have a larger id (LAST_INSERT_ID).
OwnFlow ==
  \A s \in Senders : Runs(s) =>
    /\ flows[client[s].id] # Null /\ flows[client[s].id].by = s
    /\ flows[client[s].id].expected
    /\ \A i \in FlowIds :
         flows[i] # Null /\ flows[i].by = s /\ flows[i].expected => i <= client[s].id

\* A row's counter is the number of topics that match it, across keep-alives,
\* deletions and failures, unless a topic came or went between the count and
\* the statement that wrote it: nothing else makes it drift.
CounterRight ==
  \A i \in FlowIds :
    Present(i) /\ ~flows[i].drifted => flows[i].counter = Counted(flows[i].by)

\* A dataflow that was deleted stays deleted, also when the deletion falls between
\* the read and the write of a keep-alive.
DeletedForGood ==
  [][\A i \in FlowIds : flows[i] # Null /\ ~flows[i].present => ~flows'[i].present]_vars

\* From some time on, a sender whose keep-alive thread lives has a row that is not
\* deleted, and its flag send says what the row's counter says, drifted or not: what
\* a topic changed last reaches the sender.  That the counter in turn says whether
\* anybody wants the data is CounterRight, with its exception.
FollowsCounter ==
  \A s \in Senders :
    <>[](client[s].keepalive \in {"asleep", "waiting"} =>
           /\ Present(client[s].id)
           /\ client[s].send = (flows[client[s].id].counter > 0))
=============================================================================
