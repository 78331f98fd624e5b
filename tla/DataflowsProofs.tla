--------------------------- MODULE DataflowsProofs ---------------------------
(***************************************************************************)
(* What holds of the Registration API and its senders for every number of  *)
(* senders, workers, topics and rows.                                      *)
(***************************************************************************)
EXTENDS Dataflows, FiniteSetTheorems, TLAPS

-----------------------------------------------------------------------------
(* The inductive invariant.                                                *)

\* Ids are given out in order.
IdsInOrder ==
  \A i, j \in FlowIds : i < j /\ flows[j] # Null => flows[i] # Null

\* Row i was inserted for s while it waited, and none was after it.
Newest(i, s) ==
  /\ flows[i] # Null /\ flows[i].by = s /\ flows[i].expected
  /\ \A j \in FlowIds :
       flows[j] # Null /\ flows[j].by = s /\ flows[j].expected => j <= i

\* A sender that waits for an answer has no id, and waits for one only.
Waits(w) == posts[w] # Null /\ posts[w].awaited

WaitsOnce ==
  \A w \in Workers : Waits(w) =>
    /\ ~Runs(posts[w].by)
    /\ \A x \in Workers : Waits(x) /\ posts[x].by = posts[w].by => x = w

\* The id that a worker has is awaited, and the newest row of its sender.
PostsOwn ==
  \A w \in Workers : posts[w] # Null /\ posts[w].id # Null =>
    posts[w].awaited /\ Newest(posts[w].id, posts[w].by)

\* A sender that runs has its newest row.
ClientsOwn == \A s \in Senders : Runs(s) => Newest(client[s].id, s)

\* A keep-alive is about a row of its sender.
PutsOwn ==
  \A s \in Senders : puts[s] # Null =>
    /\ puts[s].id \in FlowIds /\ flows[puts[s].id] # Null
    /\ flows[puts[s].id].by = s

\* What a request has counted or read is still right unless a topic changed.
PostsRight ==
  \A w \in Workers : posts[w] # Null /\ ~posts[w].stale /\ posts[w].id = Null
                       => posts[w].counter = Counted(posts[w].by)

PutsRight ==
  \A s \in Senders :
    puts[s] # Null /\ ~puts[s].stale /\ ~flows[puts[s].id].drifted /\ Present(puts[s].id)
      => puts[s].counter = Counted(s)

IInv ==
  /\ TypeOK
  /\ IdsInOrder /\ WaitsOnce /\ PostsOwn /\ ClientsOwn /\ PutsOwn
  /\ PostsRight /\ PutsRight /\ CounterRight

LEMMA Sentinel == /\ Null \notin FlowIds /\ Null \notin Row /\ Null \notin Post
                  /\ Null \notin Put /\ FlowIds \subseteq Int
BY DataflowsAssumption DEF FlowIds

LEMMA MakePut ==
  ASSUME NEW i \in FlowIds, NEW n \in Int, NEW b \in BOOLEAN
  PROVE  /\ [id |-> i, counter |-> n, stale |-> b] \in Put
         /\ [id |-> i, counter |-> n, stale |-> b] # Null
<1>1. [id |-> i, counter |-> n, stale |-> b] \in Put
  BY DEF Put
<1>2. QED
  BY <1>1, Sentinel

LEMMA MakePost ==
  ASSUME NEW s \in Senders, NEW i \in FlowIds \cup {Null}, NEW n \in Int,
         NEW b \in BOOLEAN, NEW a \in BOOLEAN
  PROVE  /\ [by |-> s, id |-> i, counter |-> n, stale |-> b, awaited |-> a] \in Post
         /\ [by |-> s, id |-> i, counter |-> n, stale |-> b, awaited |-> a] # Null
<1>1. [by |-> s, id |-> i, counter |-> n, stale |-> b, awaited |-> a] \in Post
  BY DEF Post
<1>2. QED
  BY <1>1, Sentinel

LEMMA MakeRow ==
  ASSUME NEW s \in Senders, NEW n \in Int, NEW d \in BOOLEAN, NEW e \in BOOLEAN,
         NEW b \in BOOLEAN
  PROVE  /\ [by |-> s, counter |-> n, drifted |-> d, expected |-> e, present |-> b] \in Row
         /\ [by |-> s, counter |-> n, drifted |-> d, expected |-> e, present |-> b] # Null
<1>1. [by |-> s, counter |-> n, drifted |-> d, expected |-> e, present |-> b] \in Row
  BY DEF Row
<1>2. QED
  BY <1>1, Sentinel

LEMMA InitIInv == Init => IInv
<1> USE Sentinel
<1> SUFFICES ASSUME Init PROVE IInv
  OBVIOUS
<1>1. TypeOK
  BY DEF Init, TypeOK, Off, Client, Runs
<1>2. IdsInOrder /\ WaitsOnce /\ PostsOwn /\ ClientsOwn /\ PutsOwn
  BY DEF Init, IdsInOrder, WaitsOnce, Waits, PostsOwn, ClientsOwn, PutsOwn, Runs, Off
<1>3. PostsRight /\ PutsRight /\ CounterRight
  BY DEF Init, PostsRight, PutsRight, CounterRight, Present
<1>4. QED
  BY <1>1, <1>2, <1>3 DEF IInv

-----------------------------------------------------------------------------
(* Facts used under several actions.                                       *)

LEMMA CountedUnchanged ==
  ASSUME UNCHANGED topics
  PROVE  \A s \in Senders : Counted(s)' = Counted(s)
BY DEF Counted, Interest

LEMMA CountedIsInt == ASSUME NEW s \in Senders PROVE Counted(s) \in Int
<1>1. IsFiniteSet(Interest(s))
  BY DataflowsAssumption, FS_Subset DEF Interest
<1>2. QED
  BY <1>1, FS_CardinalityType DEF Counted

\* Every present row's fields, and those of requests.
LEMMA Fields ==
  ASSUME TypeOK
  PROVE  /\ \A i \in FlowIds : flows[i] # Null =>
              /\ flows[i] \in Row /\ flows[i].by \in Senders /\ flows[i].counter \in Int
              /\ flows[i].drifted \in BOOLEAN /\ flows[i].present \in BOOLEAN
         /\ \A i \in FlowIds : flows[i] # Null => flows[i].expected \in BOOLEAN
         /\ \A w \in Workers : posts[w] # Null =>
              /\ posts[w] \in Post /\ posts[w].by \in Senders /\ posts[w].counter \in Int
              /\ posts[w].id \in FlowIds \cup {Null}
              /\ posts[w].stale \in BOOLEAN /\ posts[w].awaited \in BOOLEAN
         /\ \A s \in Senders : puts[s] # Null =>
              /\ puts[s] \in Put /\ puts[s].counter \in Int
              /\ puts[s].id \in FlowIds /\ puts[s].stale \in BOOLEAN
BY DEF TypeOK, Row, Post, Put

-----------------------------------------------------------------------------
(* The steps of a registration.                                            *)

LEMMA CountTopicsIInv ==
  ASSUME IInv, NEW w \in Workers, NEW s \in Senders, NEW a \in BOOLEAN, CountTopics(w, s, a)
  PROVE  IInv'
<1> USE Sentinel
<1> DEFINE q == [by |-> s, id |-> Null, counter |-> Counted(s), stale |-> FALSE, awaited |-> a]
<1>1. q \in Post /\ q # Null
  BY CountedIsInt, MakePost
<1>2. /\ posts' = [posts EXCEPT ![w] = q] /\ UNCHANGED <<topics, flows, puts, client>>
      /\ a => ~Runs(s) /\ ~Registering(s)
  BY DEF CountTopics
<1>3. /\ posts' \in [Workers -> Post \cup {Null}] /\ posts'[w] = q
      /\ \A x \in Workers : x # w => posts'[x] = posts[x]
  BY <1>1, <1>2 DEF IInv, TypeOK
<1>4. TypeOK'
  BY <1>2, <1>3 DEF IInv, TypeOK, Runs
<1>5. IdsInOrder' /\ ClientsOwn' /\ PutsOwn'
  BY <1>2 DEF IInv, IdsInOrder, ClientsOwn, PutsOwn, Newest, Runs
<1>6. PostsOwn'
  BY <1>2, <1>3 DEF IInv, PostsOwn, Newest
<1>7. WaitsOnce'
  <2>1. \A x \in Workers : x # w /\ Waits(x)' => Waits(x) /\ posts'[x].by = posts[x].by
    BY <1>3 DEF Waits
  <2>2. a => \A x \in Workers : Waits(x) => posts[x].by # s
    BY <1>2 DEF Registering, Waits
  <2>3. q.by = s /\ (Waits(w)' => a)
    BY <1>3 DEF Waits
  <2> HIDE DEF q
  <2>4. QED
    BY <1>2, <1>3, <2>1, <2>2, <2>3 DEF IInv, WaitsOnce, Runs
<1>8. PostsRight'
  <2>1. \A u \in Senders : Counted(u)' = Counted(u)
    BY <1>2, CountedUnchanged
  <2> SUFFICES ASSUME NEW x \in Workers, posts'[x] # Null, ~posts'[x].stale, posts'[x].id = Null
               PROVE  posts'[x].counter = Counted(posts[x].by)'
    BY DEF PostsRight
  <2>2. CASE x = w
    <3>1. posts'[x].counter = Counted(s) /\ posts'[x].by = s
      BY <1>3, <2>2
    <3>2. QED
      BY <2>1, <3>1 DEF Counted, Interest
  <2>3. CASE x # w
    <3>1. posts'[x] = posts[x] /\ posts[x] # Null /\ posts[x].by \in Senders
      BY <1>3, <2>3, Fields DEF IInv
    <3>2. posts[x].counter = Counted(posts[x].by)
      BY <3>1 DEF IInv, PostsRight
    <3>3. QED
      BY <1>2, <3>1, <3>2 DEF Counted, Interest
  <2>4. QED
    BY <2>2, <2>3
<1>9. PutsRight' /\ CounterRight'
  BY <1>2 DEF IInv, PutsRight, CounterRight, Counted, Interest, Present
<1>10. QED
  BY <1>4, <1>5, <1>6, <1>7, <1>8, <1>9 DEF IInv

LEMMA InsertDataflowIInv ==
  ASSUME IInv, NEW w \in Workers, InsertDataflow(w) PROVE IInv'
<1> USE Sentinel
<1> DEFINE s == posts[w].by
           row == [by |-> s, counter |-> posts[w].counter, drifted |-> posts[w].stale,
                   expected |-> posts[w].awaited, present |-> TRUE]
           with(i) == [posts[w] EXCEPT !.id = i]
<1>1. PICK i \in FlowIds :
        /\ flows[i] = Null /\ \A j \in FlowIds : j < i => flows[j] # Null
        /\ flows' = [flows EXCEPT ![i] = row]
        /\ posts' = [posts EXCEPT ![w] = IF posts[w].awaited THEN [@ EXCEPT !.id = i] ELSE Null]
  BY DEF InsertDataflow
<1>2. posts[w] # Null /\ posts[w].id = Null /\ UNCHANGED <<topics, puts, client>>
  BY DEF InsertDataflow
<1>3. /\ posts[w] \in Post /\ s \in Senders /\ posts[w].counter \in Int
      /\ posts[w].stale \in BOOLEAN /\ posts[w].awaited \in BOOLEAN
  BY <1>2, Fields DEF IInv
<1>4. row \in Row /\ row # Null
  BY <1>3, MakeRow
<1>5. /\ with(i) \in Post /\ with(i).by = s /\ with(i).id = i /\ with(i) # Null
      /\ with(i).awaited = posts[w].awaited
  BY <1>3 DEF Post
<1>6. /\ row.by = s /\ row.counter = posts[w].counter /\ row.drifted = posts[w].stale
      /\ row.expected = posts[w].awaited /\ row.present
  OBVIOUS
<1>7. posts' = [posts EXCEPT ![w] = IF posts[w].awaited THEN with(i) ELSE Null]
  BY <1>1 DEF IInv, TypeOK
<1> HIDE DEF row, with
<1>8. /\ flows'[i] = row
      /\ \A j \in FlowIds : j # i => flows'[j] = flows[j]
      /\ posts'[w] = IF posts[w].awaited THEN with(i) ELSE Null
      /\ \A x \in Workers : x # w => posts'[x] = posts[x]
  BY <1>1, <1>7 DEF IInv, TypeOK
<1>9. TypeOK'
  <2>1. flows' \in [FlowIds -> Row \cup {Null}]
    BY <1>1, <1>4 DEF IInv, TypeOK
  <2>2. posts' \in [Workers -> Post \cup {Null}]
    BY <1>5, <1>7 DEF IInv, TypeOK
  <2>3. QED
    BY <1>2, <2>1, <2>2 DEF IInv, TypeOK, Runs
<1>10. \A j \in FlowIds : flows[j] # Null => j < i
  BY <1>1 DEF IInv, IdsInOrder
<1>11. IdsInOrder'
  BY <1>1, <1>4, <1>8, <1>10 DEF IInv, IdsInOrder
<1>12. ASSUME NEW j \in FlowIds, NEW u, Newest(j, u), posts[w].awaited => u # s
       PROVE  Newest(j, u)'
  BY <1>1, <1>6, <1>8, <1>12 DEF Newest
<1>13. ASSUME NEW u, u = s, posts[w].awaited PROVE Newest(i, u)'
  <2>1. \A j \in FlowIds : flows'[j] # Null => j <= i
    BY <1>8, <1>10
  <2>2. flows'[i] # Null /\ flows'[i].by = u /\ flows'[i].expected
    BY <1>4, <1>6, <1>8, <1>13
  <2>3. QED
    BY <2>1, <2>2 DEF Newest
<1>14. \A x \in Workers : /\ Waits(x)' => Waits(x)
                          /\ posts'[x] # Null => posts'[x].by = posts[x].by /\ posts[x] # Null
  BY <1>2, <1>5, <1>8 DEF Waits
<1>15. WaitsOnce'
  BY <1>2, <1>14 DEF IInv, WaitsOnce, Waits, Runs
<1>16. PostsOwn'
  <2> SUFFICES ASSUME NEW x \in Workers, posts'[x] # Null, posts'[x].id # Null
               PROVE  posts'[x].awaited /\ Newest(posts[x].id, posts[x].by)'
    BY DEF PostsOwn
  <2>1. CASE x = w
    <3>1. posts[w].awaited /\ posts'[x].id = i /\ posts'[x].by = s /\ posts'[x].awaited
      BY <1>5, <1>8, <2>1
    <3>2. PICK u : u = s
      OBVIOUS
    <3>3. Newest(i, u)'
      BY <1>13, <3>1, <3>2
    <3>4. QED
      BY <2>1, <3>1, <3>2, <3>3 DEF Newest
  <2>2. CASE x # w
    <3>1. posts'[x] = posts[x] /\ posts[x].id \in FlowIds
      BY <1>8, <2>2, Fields DEF IInv
    <3>2. posts[x].awaited /\ Newest(posts[x].id, posts[x].by)
      BY <3>1 DEF IInv, PostsOwn
    <3>3. posts[w].awaited => posts[x].by # s
      BY <1>2, <2>2, <3>1, <3>2 DEF IInv, WaitsOnce, Waits
    <3>4. PICK j \in FlowIds : j = posts[x].id
      BY <3>1
    <3>5. PICK u : u = posts[x].by
      OBVIOUS
    <3>6. Newest(j, u)'
      BY <1>12, <3>2, <3>3, <3>4, <3>5
    <3>7. QED
      BY <3>1, <3>2, <3>4, <3>5, <3>6 DEF Newest
  <2>3. QED
    BY <2>1, <2>2
<1>17. ClientsOwn'
  <2> SUFFICES ASSUME NEW u \in Senders, Runs(u)
               PROVE  Newest(client[u].id, u)'
    BY <1>2 DEF ClientsOwn, Runs
  <2>1. posts[w].awaited => u # s
    BY <1>2 DEF IInv, WaitsOnce, Waits
  <2>2. PICK j \in FlowIds : j = client[u].id
    BY DEF IInv, TypeOK, Client, Runs
  <2>3. Newest(j, u)
    BY <2>2 DEF IInv, ClientsOwn
  <2>4. Newest(j, u)'
    BY <1>12, <2>1, <2>3
  <2>5. QED
    BY <1>2, <2>2, <2>4 DEF Newest
<1>18. PutsOwn'
  BY <1>1, <1>2, <1>8 DEF IInv, PutsOwn
<1>19. \A u \in Senders : Counted(u)' = Counted(u)
  BY <1>2, CountedUnchanged
<1>20. PostsRight'
  <2> SUFFICES ASSUME NEW x \in Workers, posts'[x] # Null, ~posts'[x].stale, posts'[x].id = Null
               PROVE  posts'[x].counter = Counted(posts[x].by)'
    BY DEF PostsRight
  <2>1. x # w
    BY <1>5, <1>8
  <2>2. posts'[x] = posts[x]
    BY <1>8, <2>1
  <2>3. posts[x].counter = Counted(posts[x].by)
    BY <2>2 DEF IInv, PostsRight
  <2>4. QED
    BY <1>2, <2>2, <2>3 DEF Counted, Interest
<1>21. PutsRight'
  BY <1>1, <1>2, <1>8 DEF IInv, PutsRight, PutsOwn, Counted, Interest, Present
<1>22. CounterRight'
  <2> SUFFICES ASSUME NEW j \in FlowIds, Present(j)', ~flows'[j].drifted
               PROVE  flows'[j].counter = Counted(flows[j].by)'
    BY DEF CounterRight
  <2>1. CASE j = i
    <3>1. flows'[j].by = s /\ flows'[j].counter = posts[w].counter /\ ~posts[w].stale
      BY <1>6, <1>8, <2>1
    <3>2. posts[w].counter = Counted(s)
      BY <1>2, <3>1 DEF IInv, PostsRight
    <3>3. QED
      BY <1>2, <3>1, <3>2 DEF Counted, Interest
  <2>2. CASE j # i
    <3>1. flows'[j] = flows[j] /\ flows[j] # Null /\ flows[j].by \in Senders
      BY <1>8, <2>2, Fields DEF IInv, Present
    <3>2. flows[j].counter = Counted(flows[j].by)
      BY <3>1 DEF IInv, CounterRight, Present
    <3>3. QED
      BY <1>2, <3>1, <3>2 DEF Counted, Interest
  <2>3. QED
    BY <2>1, <2>2
<1>23. QED
  BY <1>9, <1>11, <1>15, <1>16, <1>17, <1>18, <1>20, <1>21, <1>22 DEF IInv

\* Requests that end, or go on with what they had counted.
LEMMA PostsRightKept ==
  ASSUME IInv, UNCHANGED topics,
         \A w \in Workers : posts'[w] # Null =>
           /\ posts[w] # Null /\ posts'[w].by = posts[w].by /\ posts'[w].id = posts[w].id
           /\ posts'[w].counter = posts[w].counter /\ posts'[w].stale = posts[w].stale
  PROVE  PostsRight'
<1> SUFFICES ASSUME NEW w \in Workers, posts'[w] # Null, ~posts'[w].stale, posts'[w].id = Null
             PROVE  posts'[w].counter = Counted(posts[w].by)'
  BY DEF PostsRight
<1>1. posts'[w].counter = Counted(posts[w].by)
  BY DEF IInv, PostsRight
<1>2. QED
  BY <1>1 DEF Counted, Interest

\* The steps that only end a registration or move a sender.
LEMMA ClientsIInv ==
  ASSUME IInv, UNCHANGED <<topics, flows, puts>>,
         posts' \in [Workers -> Post \cup {Null}],
         \A w \in Workers : posts'[w] # Null =>
           /\ posts[w] # Null /\ posts'[w].by = posts[w].by /\ posts'[w].id = posts[w].id
           /\ posts'[w].counter = posts[w].counter /\ posts'[w].stale = posts[w].stale
           /\ posts'[w].awaited => posts[w].awaited
           /\ posts'[w].id # Null /\ posts[w].awaited => posts'[w].awaited,
         client' \in [Senders -> Client],
         \A u \in Senders : Runs(u)' <=> client'[u].keepalive # "none",
         \A u \in Senders : Runs(u)' =>
           /\ \A w \in Workers : Waits(w)' => posts'[w].by # u
           /\ Newest(client[u].id, u)'
  PROVE  IInv'
<1>1. TypeOK'
  BY DEF IInv, TypeOK
<1>2. IdsInOrder' /\ PutsOwn' /\ ClientsOwn'
  BY DEF IInv, IdsInOrder, PutsOwn, ClientsOwn, Newest
<1>3. WaitsOnce'
  <2>1. \A w \in Workers : Waits(w)' => Waits(w) /\ posts'[w].by = posts[w].by
    BY DEF Waits
  <2>2. \A w \in Workers : Waits(w)' => posts'[w].by \in Senders
    BY Fields, <2>1 DEF IInv, Waits
  <2>3. \A w \in Workers : Waits(w)' => ~Runs(posts[w].by)'
    BY <2>2 DEF Runs
  <2>4. QED
    BY <2>1, <2>3 DEF IInv, WaitsOnce, Runs
<1>4. PostsOwn'
  BY DEF IInv, PostsOwn, Newest
<1>5. PostsRight'
  BY PostsRightKept
<1>6. PutsRight' /\ CounterRight'
  BY DEF IInv, PutsRight, CounterRight, Counted, Interest, Present
<1>7. QED
  BY <1>1, <1>2, <1>3, <1>4, <1>5, <1>6 DEF IInv

LEMMA AnswerPostIInv ==
  ASSUME IInv, NEW w \in Workers, AnswerPost(w) PROVE IInv'
<1> DEFINE s == posts[w].by
           c == [loop |-> TRUE, id |-> LastInsertId(w), send |-> posts[w].counter > 0,
                 keepalive |-> "asleep"]
<1>1. /\ posts[w] # Null /\ posts[w].id # Null
      /\ client' = [client EXCEPT ![s] = c] /\ posts' = [posts EXCEPT ![w] = Null]
      /\ UNCHANGED <<topics, flows, puts>>
  BY DEF AnswerPost
<1>2. /\ c.id = posts[w].id /\ posts[w].id \in FlowIds /\ s \in Senders
      /\ posts[w].awaited /\ Newest(posts[w].id, s)
  BY <1>1, Fields DEF IInv, PostsOwn, LastInsertId
<1>3. c \in Client /\ c.keepalive # "none"
  BY <1>1, <1>2, Fields DEF IInv, Client
<1> HIDE DEF c
<1>4. /\ client' \in [Senders -> Client] /\ posts' \in [Workers -> Post \cup {Null}]
      /\ client'[s] = c /\ posts'[w] = Null
      /\ \A u \in Senders : u # s => client'[u] = client[u]
      /\ \A x \in Workers : x # w => posts'[x] = posts[x]
  BY <1>1, <1>2, <1>3 DEF IInv, TypeOK
<1>5. \A u \in Senders : Runs(u)' <=> client'[u].keepalive # "none"
  BY <1>1, <1>2, <1>3, <1>4, Sentinel DEF IInv, TypeOK, Runs
<1>6. ASSUME NEW u \in Senders, Runs(u)'
      PROVE  /\ \A x \in Workers : Waits(x)' => posts'[x].by # u
             /\ Newest(client[u].id, u)'
  <2>1. \A x \in Workers : Waits(x)' => x # w /\ Waits(x) /\ posts'[x].by = posts[x].by
    BY <1>4 DEF Waits
  <2>2. CASE u = s
    <3>1. \A x \in Workers : x # w /\ Waits(x) => posts[x].by # s
      BY <1>1, <1>2 DEF IInv, WaitsOnce, Waits
    <3>2. client'[u].id = posts[w].id
      BY <1>2, <1>4, <2>2
    <3>3. Newest(client[u].id, u)'
      BY <1>1, <1>2, <2>2, <3>2 DEF Newest
    <3>4. QED
      BY <2>1, <2>2, <3>1, <3>3
  <2>3. CASE u # s
    <3>1. client'[u] = client[u] /\ Runs(u)
      BY <1>4, <1>6, <2>3 DEF Runs
    <3>2. \A x \in Workers : Waits(x) => posts[x].by # u
      BY <3>1 DEF IInv, WaitsOnce
    <3>3. Newest(client[u].id, u)'
      BY <1>1, <3>1 DEF IInv, ClientsOwn, Newest
    <3>4. QED
      BY <2>1, <3>2, <3>3
  <2>4. QED
    BY <2>2, <2>3
<1>7. QED
  BY <1>1, <1>4, <1>5, <1>6, ClientsIInv

\* A sender that waits does so no more, or the worker has ended.
LEMMA PostEndsIInv ==
  ASSUME IInv, NEW w \in Workers, InsertFails(w) \/ AbandonPost(w) PROVE IInv'
<1> DEFINE q == [posts[w] EXCEPT !.awaited = FALSE]
<1>1. /\ posts[w] # Null /\ UNCHANGED <<topics, flows, puts, client>>
      /\ \/ posts' = [posts EXCEPT ![w] = Null]
         \/ posts[w].id = Null /\ posts' = [posts EXCEPT ![w] = q]
  BY DEF InsertFails, AbandonPost, IInv, TypeOK
<1>2. /\ q \in Post /\ q.by = posts[w].by /\ q.id = posts[w].id
      /\ q.counter = posts[w].counter /\ q.stale = posts[w].stale /\ ~q.awaited
  BY <1>1, Fields DEF IInv, Post
<1> HIDE DEF q
<1>3. /\ posts' \in [Workers -> Post \cup {Null}]
      /\ posts'[w] \in {Null, q} /\ (posts'[w] # Null => posts[w].id = Null)
      /\ \A x \in Workers : x # w => posts'[x] = posts[x]
  BY <1>1, <1>2 DEF IInv, TypeOK
<1>4. /\ client' \in [Senders -> Client]
      /\ \A u \in Senders : Runs(u)' <=> client'[u].keepalive # "none"
  BY <1>1 DEF IInv, TypeOK, Runs
<1>5. \A x \in Workers : Waits(x)' => Waits(x) /\ posts'[x].by = posts[x].by
  BY <1>1, <1>2, <1>3 DEF Waits
<1>6. \A u \in Senders : Runs(u)' =>
        /\ \A x \in Workers : Waits(x)' => posts'[x].by # u
        /\ Newest(client[u].id, u)'
  BY <1>1, <1>5 DEF IInv, WaitsOnce, ClientsOwn, Newest, Runs
<1>7. \A x \in Workers : posts'[x] # Null =>
        /\ posts[x] # Null /\ posts'[x].by = posts[x].by /\ posts'[x].id = posts[x].id
        /\ posts'[x].counter = posts[x].counter /\ posts'[x].stale = posts[x].stale
        /\ posts'[x].awaited => posts[x].awaited
        /\ posts'[x].id # Null /\ posts[x].awaited => posts'[x].awaited
  BY <1>1, <1>2, <1>3
<1>8. QED
  BY <1>1, <1>3, <1>4, <1>6, <1>7, ClientsIInv

\* LoopEnds, StopSender, NotFound and PutUnsent: a running sender changes its
\* threads, or stops.
LEMMA SenderIInv ==
  ASSUME IInv, NEW s \in Senders, NEW c \in Client,
         client' = [client EXCEPT ![s] = c],
         c.id \in {client[s].id, Null}, c.id # Null <=> c.keepalive # "none",
         UNCHANGED <<topics, flows, posts, puts>>
  PROVE  IInv'
<1>1. /\ client' \in [Senders -> Client] /\ client'[s] = c
      /\ \A u \in Senders : u # s => client'[u] = client[u]
  BY DEF IInv, TypeOK
<1>2. \A u \in Senders : Runs(u)' <=> client'[u].keepalive # "none"
  BY <1>1 DEF IInv, TypeOK, Runs
<1>3. \A u \in Senders : Runs(u)' =>
        /\ \A w \in Workers : Waits(w)' => posts'[w].by # u
        /\ Newest(client[u].id, u)'
  BY <1>1 DEF IInv, Runs, WaitsOnce, Waits, ClientsOwn, Newest
<1>4. posts' \in [Workers -> Post \cup {Null}]
  BY DEF IInv, TypeOK
<1>5. QED
  BY <1>1, <1>2, <1>3, <1>4, ClientsIInv

\* A client record with one field changed.
LEMMA ClientFields ==
  ASSUME NEW c \in Client, NEW b \in BOOLEAN,
         NEW k \in {"none", "asleep", "waiting", "dead"}
  PROVE  /\ c.id \in FlowIds \cup {Null} /\ c.keepalive \in {"none", "asleep", "waiting", "dead"}
         /\ [c EXCEPT !.loop = b] \in Client
         /\ [c EXCEPT !.loop = b].id = c.id /\ [c EXCEPT !.loop = b].keepalive = c.keepalive
         /\ [c EXCEPT !.keepalive = k] \in Client
         /\ [c EXCEPT !.keepalive = k].id = c.id /\ [c EXCEPT !.keepalive = k].keepalive = k
         /\ [c EXCEPT !.keepalive = k, !.send = b] \in Client
         /\ [c EXCEPT !.keepalive = k, !.send = b].id = c.id
         /\ [c EXCEPT !.keepalive = k, !.send = b].keepalive = k
BY DEF Client

LEMMA LoopEndsIInv ==
  ASSUME IInv, NEW s \in Senders, LoopEnds(s) \/ StopSender(s) PROVE IInv'
<1>1. client[s] \in Client /\ (Runs(s) <=> client[s].keepalive # "none")
  BY DEF IInv, TypeOK
<1>2. CASE LoopEnds(s)
  <2> DEFINE c == [client[s] EXCEPT !.loop = FALSE]
  <2>1. c \in Client /\ c.id = client[s].id /\ c.keepalive = client[s].keepalive
    BY <1>1, ClientFields
  <2>2. client' = [client EXCEPT ![s] = c] /\ UNCHANGED <<topics, flows, posts, puts>>
    BY <1>2 DEF LoopEnds
  <2>3. QED
    BY <1>1, <2>1, <2>2, SenderIInv DEF Runs
<1>3. CASE StopSender(s)
  <2>1. Off \in Client /\ Off.id = Null /\ Off.keepalive = "none"
    BY DEF Off, Client
  <2>2. client' = [client EXCEPT ![s] = Off] /\ UNCHANGED <<topics, flows, posts, puts>>
    BY <1>3 DEF StopSender
  <2>3. QED
    BY <2>1, <2>2, SenderIInv
<1>4. QED
  BY <1>2, <1>3

LEMMA KeepAliveLostIInv ==
  ASSUME IInv, NEW s \in Senders, NotFound(s) \/ PutUnsent(s) PROVE IInv'
<1> DEFINE c == [client[s] EXCEPT !.keepalive = "dead"]
<1>1. /\ client[s] \in Client /\ client[s].keepalive = "asleep" /\ Runs(s)
      /\ client' = [client EXCEPT ![s] = c] /\ UNCHANGED <<topics, flows, posts, puts>>
  BY DEF IInv, TypeOK, NotFound, PutUnsent, KeepAliveEnds
<1>2. c \in Client /\ c.id = client[s].id /\ c.keepalive = "dead"
  BY <1>1, ClientFields
<1>3. QED
  BY <1>1, <1>2, SenderIInv DEF Runs

-----------------------------------------------------------------------------
(* The steps of keep-alives, deletions and topics.                         *)

\* Rows that neither come nor change hands keep the parts about ownership.
LEMMA OwnersKept ==
  ASSUME IInv,
         \A i \in FlowIds : /\ flows'[i] = Null <=> flows[i] = Null
                            /\ flows[i] # Null => /\ flows'[i].by = flows[i].by
                                                  /\ flows'[i].expected = flows[i].expected,
         \A w \in Workers : posts'[w] # Null =>
           /\ posts[w] # Null /\ posts'[w].by = posts[w].by /\ posts'[w].id = posts[w].id
           /\ posts'[w].awaited = posts[w].awaited,
         \A u \in Senders : client'[u].id = client[u].id,
         \A u \in Senders : puts'[u] # Null =>
           /\ puts'[u].id \in FlowIds /\ flows[puts'[u].id] # Null
           /\ flows[puts'[u].id].by = u
  PROVE  IdsInOrder' /\ WaitsOnce' /\ PostsOwn' /\ ClientsOwn' /\ PutsOwn'
<1>1. IdsInOrder'
  BY DEF IInv, IdsInOrder
<1>2. ASSUME NEW i \in FlowIds, NEW u, Newest(i, u) PROVE Newest(i, u)'
  BY <1>2 DEF Newest
<1>3. WaitsOnce'
  <2>1. \A w \in Workers : Waits(w)' => /\ Waits(w) /\ posts'[w].by = posts[w].by
                                        /\ posts[w].by \in Senders
    BY Fields DEF IInv, Waits
  <2>2. QED
    BY <2>1 DEF IInv, WaitsOnce, Runs
<1>4. ASSUME NEW w \in Workers, posts'[w] # Null, posts'[w].id # Null
      PROVE  posts'[w].awaited /\ Newest(posts[w].id, posts[w].by)'
  <2>1. PICK j \in FlowIds : j = posts[w].id
    BY <1>4, Fields DEF IInv
  <2>2. PICK u : u = posts[w].by
    OBVIOUS
  <2>3. posts[w].awaited /\ Newest(j, u)
    BY <1>4, <2>1, <2>2 DEF IInv, PostsOwn
  <2>4. Newest(j, u)'
    BY <1>2, <2>3
  <2>5. posts'[w].id = j /\ posts'[w].by = u /\ posts'[w].awaited
    BY <1>4, <2>1, <2>2, <2>3
  <2>6. QED
    BY <2>4, <2>5 DEF Newest
<1>5. ASSUME NEW u \in Senders, Runs(u)' PROVE Newest(client[u].id, u)'
  <2>1. PICK j \in FlowIds : j = client[u].id
    BY <1>5 DEF IInv, TypeOK, Client, Runs
  <2>2. Newest(j, u)
    BY <1>5, <2>1 DEF IInv, ClientsOwn, Runs
  <2>3. Newest(j, u)'
    BY <1>2, <2>2
  <2>4. QED
    BY <2>1, <2>3 DEF Newest
<1>6. PutsOwn'
  BY DEF PutsOwn
<1>7. QED
  BY <1>1, <1>3, <1>4, <1>5, <1>6 DEF PostsOwn, ClientsOwn

LEMMA ReadDataflowIInv ==
  ASSUME IInv, NEW s \in Senders, ReadDataflow(s) PROVE IInv'
<1> DEFINE i == client[s].id
           put == [id |-> i, counter |-> flows[i].counter, stale |-> FALSE]
           c == [client[s] EXCEPT !.keepalive = "waiting"]
<1>1. /\ client[s].keepalive = "asleep" /\ puts[s] = Null /\ Present(i)
      /\ puts' = [puts EXCEPT ![s] = put] /\ client' = [client EXCEPT ![s] = c]
      /\ UNCHANGED <<topics, flows, posts>>
  BY DEF ReadDataflow, IInv, TypeOK
<1>2. Runs(s) /\ client[s] \in Client /\ i \in FlowIds
  BY <1>1 DEF IInv, TypeOK, Runs, Client
<1>3. flows[i] # Null /\ flows[i].by = s /\ flows[i].counter \in Int
  BY <1>1, <1>2, Fields DEF IInv, ClientsOwn, Newest
<1>4. put \in Put /\ put # Null
  BY <1>2, <1>3, MakePut
<1>5. c \in Client /\ c.id = client[s].id /\ c.keepalive = "waiting"
  BY <1>2, ClientFields
<1>6. /\ puts' \in [Senders -> Put \cup {Null}] /\ client' \in [Senders -> Client]
      /\ puts'[s] = put /\ client'[s] = c
      /\ \A u \in Senders : u # s => puts'[u] = puts[u] /\ client'[u] = client[u]
  BY <1>1, <1>4, <1>5 DEF IInv, TypeOK
<1>7. TypeOK'
  BY <1>1, <1>2, <1>4, <1>5, <1>6, Sentinel DEF IInv, TypeOK, Runs
<1>8. IdsInOrder' /\ WaitsOnce' /\ PostsOwn' /\ ClientsOwn' /\ PutsOwn'
  <2>1. \A u \in Senders : client'[u].id = client[u].id
    BY <1>5, <1>6
  <2>2. \A u \in Senders : puts'[u] # Null =>
          puts'[u].id \in FlowIds /\ flows[puts'[u].id] # Null /\ flows[puts'[u].id].by = u
    BY <1>2, <1>3, <1>6 DEF IInv, PutsOwn
  <2>3. QED
    BY <1>1, <2>1, <2>2, OwnersKept
<1>9. PutsRight'
  <2>1. \A u \in Senders : Counted(u)' = Counted(u)
    BY <1>1, CountedUnchanged
  <2>2. ~flows[i].drifted => flows[i].counter = Counted(s)
    BY <1>1, <1>2, <1>3 DEF IInv, CounterRight
  <2>3. QED
    BY <1>1, <1>6, <2>1, <2>2 DEF IInv, PutsRight, Present
<1>10. PostsRight' /\ CounterRight'
  BY <1>1 DEF IInv, PostsRight, CounterRight, Counted, Interest, Present
<1>11. QED
  BY <1>7, <1>8, <1>9, <1>10 DEF IInv

\* WriteDataflow and PutFails: a PUT ends, its row is written or not.
LEMMA ServedIInv ==
  ASSUME IInv, NEW s \in Senders, NEW c \in Client, puts[s] # Null,
         flows' \in {flows, Updated(puts[s])}, puts' = [puts EXCEPT ![s] = Null],
         client' = [client EXCEPT ![s] = c],
         c.id = client[s].id, c.keepalive = "none" <=> client[s].keepalive = "none",
         UNCHANGED <<topics, posts>>
  PROVE  IInv'
<1> DEFINE i == puts[s].id
           row == Written(puts[s])
<1>1. /\ i \in FlowIds /\ flows[i] # Null /\ flows[i] \in Row /\ flows[i].by = s
      /\ puts[s].counter \in Int /\ puts[s].stale \in BOOLEAN
  BY Fields DEF IInv, PutsOwn
<1>2. /\ row \in Row /\ row.by = flows[i].by /\ row.present = flows[i].present
      /\ row.expected = flows[i].expected /\ row.counter = puts[s].counter
      /\ row.drifted = (flows[i].drifted \/ puts[s].stale)
  BY <1>1 DEF Row, Written, WrittenCounter
<1>3. /\ flows' \in [FlowIds -> Row \cup {Null}]
      /\ flows'[i] \in {flows[i], row} /\ \A j \in FlowIds : j # i => flows'[j] = flows[j]
  <2>1. flows \in [FlowIds -> Row \cup {Null}]
    BY DEF IInv, TypeOK
  <2>2. flows' \in {flows, [flows EXCEPT ![i] = row]}
    BY DEF Updated
  <2> HIDE DEF row
  <2>3. QED
    BY <1>1, <1>2, <2>1, <2>2
<1>4. /\ puts' \in [Senders -> Put \cup {Null}] /\ puts'[s] = Null
      /\ client' \in [Senders -> Client] /\ client'[s] = c
      /\ \A u \in Senders : u # s => puts'[u] = puts[u] /\ client'[u] = client[u]
  BY DEF IInv, TypeOK
<1>5. TypeOK'
  BY <1>3, <1>4 DEF IInv, TypeOK, Runs
<1>6. \A j \in FlowIds : /\ flows'[j] = Null <=> flows[j] = Null
                         /\ flows[j] # Null => /\ flows'[j].by = flows[j].by
                                               /\ flows'[j].expected = flows[j].expected
  <2> HIDE DEF row
  <2>1. QED
    BY <1>1, <1>2, <1>3, Sentinel
<1>7. IdsInOrder' /\ WaitsOnce' /\ PostsOwn' /\ ClientsOwn' /\ PutsOwn'
  <2>1. \A u \in Senders : client'[u].id = client[u].id
    BY <1>4
  <2>2. \A u \in Senders : puts'[u] # Null =>
          puts'[u].id \in FlowIds /\ flows[puts'[u].id] # Null /\ flows[puts'[u].id].by = u
    BY <1>4 DEF IInv, PutsOwn
  <2>3. QED
    BY <1>6, <2>1, <2>2, OwnersKept
<1>8. \A u \in Senders : Counted(u)' = Counted(u)
  BY CountedUnchanged
<1>9. PostsRight'
  BY PostsRightKept
<1>10. PutsRight'
  <2> SUFFICES ASSUME NEW u \in Senders, puts'[u] # Null, ~puts'[u].stale,
                      ~flows'[puts'[u].id].drifted, Present(puts[u].id)'
               PROVE  puts'[u].counter = Counted(u)'
    BY DEF PutsRight
  <2>1. u # s /\ puts'[u] = puts[u]
    BY <1>4
  <2>2. puts[u].id # i
    BY <1>1, <2>1 DEF IInv, PutsOwn
  <2>3. flows'[puts[u].id] = flows[puts[u].id]
    BY <1>3, <2>1, <2>2 DEF IInv, PutsOwn
  <2>4. QED
    BY <1>8, <2>1, <2>3 DEF IInv, PutsRight, Present
<1>11. CounterRight'
  <2> SUFFICES ASSUME NEW j \in FlowIds, Present(j)', ~flows'[j].drifted
               PROVE  flows'[j].counter = Counted(flows[j].by)'
    BY DEF CounterRight
  <2>1. flows[j] # Null /\ flows[j].by \in Senders /\ flows'[j].by = flows[j].by
    BY <1>6, Fields DEF IInv, Present
  <2>2. Counted(flows[j].by)' = Counted(flows[j].by)
    BY <2>1 DEF Counted, Interest
  <2>3. CASE flows'[j] = flows[j]
    BY <2>1, <2>2, <2>3 DEF IInv, CounterRight, Present
  <2>4. CASE j = i /\ flows'[j] = row
    BY <1>1, <1>2, <2>1, <2>2, <2>4 DEF IInv, PutsRight, Present
  <2>5. QED
    BY <1>3, <2>3, <2>4
<1>12. QED
  BY <1>5, <1>7, <1>9, <1>10, <1>11 DEF IInv

LEMMA PutEndsIInv ==
  ASSUME IInv, NEW s \in Senders, WriteDataflow(s) \/ PutFails(s) PROVE IInv'
<1>1. /\ puts[s] # Null /\ flows' \in {flows, Updated(puts[s])}
      /\ puts' = [puts EXCEPT ![s] = Null] /\ UNCHANGED <<topics, posts>>
  BY DEF WriteDataflow, PutFails
<1>2. PICK k \in {"asleep", "dead"}, b \in BOOLEAN :
        \/ client' = client
        \/ /\ client[s].keepalive = "waiting"
           /\ \/ client' = [client EXCEPT ![s].keepalive = k, ![s].send = b]
              \/ client' = [client EXCEPT ![s].keepalive = k]
  <2>1. Answered(s, puts[s]) \in BOOLEAN
    BY DEF Answered
  <2>2. CASE WriteDataflow(s)
    BY <2>1, <2>2 DEF WriteDataflow
  <2>3. CASE PutFails(s)
    <3>1. CASE client[s].keepalive = "waiting"
      BY <2>3, <3>1 DEF PutFails, KeepAliveEnds
    <3>2. CASE client[s].keepalive # "waiting"
      <4>1. client' = [client EXCEPT ![s].keepalive = client[s].keepalive]
        BY <2>3, <3>2 DEF PutFails, KeepAliveEnds
      <4>2. client[s] = [client[s] EXCEPT !.keepalive = client[s].keepalive]
        BY DEF IInv, TypeOK, Client
      <4>3. client' = client
        BY <4>1, <4>2 DEF IInv, TypeOK
      <4>4. QED
        BY <4>3
    <3>3. QED
      BY <3>1, <3>2
  <2>4. QED
    BY <2>2, <2>3
<1>3. client[s] \in Client /\ k \in {"none", "asleep", "waiting", "dead"}
  BY DEF IInv, TypeOK
<1>4. CASE client' = client
  <2>1. client' = [client EXCEPT ![s] = client[s]]
    BY <1>4 DEF IInv, TypeOK
  <2>2. QED
    BY <1>1, <1>3, <2>1, ServedIInv
<1>5. CASE /\ client[s].keepalive = "waiting"
           /\ client' = [client EXCEPT ![s].keepalive = k, ![s].send = b]
  <2> DEFINE c == [client[s] EXCEPT !.keepalive = k, !.send = b]
  <2>1. c \in Client /\ c.id = client[s].id /\ c.keepalive = k
    BY <1>3 DEF Client
  <2>2. client' = [client EXCEPT ![s] = c]
    BY <1>5 DEF IInv, TypeOK
  <2>3. QED
    BY <1>1, <1>5, <2>1, <2>2, ServedIInv
<1>6. CASE /\ client[s].keepalive = "waiting"
           /\ client' = [client EXCEPT ![s].keepalive = k]
  <2> DEFINE c == [client[s] EXCEPT !.keepalive = k]
  <2>1. c \in Client /\ c.id = client[s].id /\ c.keepalive = k
    BY <1>3 DEF Client
  <2>2. client' = [client EXCEPT ![s] = c]
    BY <1>6 DEF IInv, TypeOK
  <2>3. QED
    BY <1>1, <1>6, <2>1, <2>2, ServedIInv
<1>7. QED
  BY <1>2, <1>4, <1>5, <1>6

LEMMA DeleteDataflowIInv ==
  ASSUME IInv, NEW i \in FlowIds, DeleteDataflow(i) PROVE IInv'
<1> DEFINE row == [flows[i] EXCEPT !.present = FALSE]
<1>1. /\ flows[i] # Null /\ flows' = [flows EXCEPT ![i] = row]
      /\ UNCHANGED <<topics, posts, puts, client>>
  BY DEF DeleteDataflow, Present
<1>2. /\ row \in Row /\ row.by = flows[i].by /\ ~row.present
      /\ row.drifted = flows[i].drifted /\ row.expected = flows[i].expected
  BY <1>1, Fields DEF IInv, Row
<1>3. /\ flows' \in [FlowIds -> Row \cup {Null}] /\ flows'[i] = row
      /\ \A j \in FlowIds : j # i => flows'[j] = flows[j]
  BY <1>1, <1>2 DEF IInv, TypeOK
<1> HIDE DEF row
<1>4. TypeOK'
  BY <1>1, <1>3 DEF IInv, TypeOK, Runs
<1>5. \A j \in FlowIds : /\ flows'[j] = Null <=> flows[j] = Null
                         /\ flows[j] # Null => /\ flows'[j].by = flows[j].by
                                               /\ flows'[j].expected = flows[j].expected
  BY <1>1, <1>2, <1>3, Sentinel
<1>6. IdsInOrder' /\ WaitsOnce' /\ PostsOwn' /\ ClientsOwn' /\ PutsOwn'
  <2>1. \A u \in Senders : puts'[u] # Null =>
          puts'[u].id \in FlowIds /\ flows[puts'[u].id] # Null /\ flows[puts'[u].id].by = u
    BY <1>1 DEF IInv, PutsOwn
  <2>2. QED
    BY <1>1, <1>5, <2>1, OwnersKept
<1>7. \A u \in Senders : Counted(u)' = Counted(u)
  BY <1>1, CountedUnchanged
<1>8. PostsRight'
  BY <1>1, PostsRightKept
<1>9. PutsRight'
  <2> SUFFICES ASSUME NEW u \in Senders, puts[u] # Null, ~puts[u].stale,
                      ~flows'[puts[u].id].drifted, Present(puts[u].id)'
               PROVE  puts[u].counter = Counted(u)'
    BY <1>1 DEF PutsRight
  <2>1. flows'[puts[u].id] = flows[puts[u].id]
    BY <1>1, <1>2, <1>3 DEF IInv, PutsOwn, Present
  <2>2. QED
    BY <1>1, <1>7, <2>1 DEF IInv, PutsRight, Present
<1>10. CounterRight'
  <2> SUFFICES ASSUME NEW j \in FlowIds, Present(j)', ~flows'[j].drifted
               PROVE  flows'[j].counter = Counted(flows[j].by)'
    BY DEF CounterRight
  <2>1. flows'[j] = flows[j] /\ flows[j] # Null /\ flows[j].by \in Senders
    BY <1>2, <1>3, Fields DEF IInv, Present
  <2>2. Counted(flows[j].by)' = Counted(flows[j].by)
    BY <1>1, <2>1 DEF Counted, Interest
  <2>3. QED
    BY <2>1, <2>2 DEF IInv, CounterRight, Present
<1>11. QED
  BY <1>4, <1>6, <1>8, <1>9, <1>10 DEF IInv

\* A topic that comes or goes counts for the senders it matches, and only them.
LEMMA CountedFollows ==
  ASSUME topics \in [Topics -> {"unborn", "live", "gone"}],
         NEW t \in Topics, NEW s \in Senders
  PROVE  /\ TopicChanges(t, "unborn", "live", 1)
              => Counted(s)' = IF s \in Matches[t] THEN Counted(s) + 1 ELSE Counted(s)
         /\ TopicChanges(t, "live", "gone", -1)
              => Counted(s)' = IF s \in Matches[t] THEN Counted(s) + (-1) ELSE Counted(s)
<1>1. IsFiniteSet(Interest(s)) /\ Counted(s) \in Int
  BY DataflowsAssumption, FS_Subset, CountedIsInt DEF Interest
<1>2. ASSUME TopicChanges(t, "unborn", "live", 1)
      PROVE  Counted(s)' = IF s \in Matches[t] THEN Counted(s) + 1 ELSE Counted(s)
  <2>1. topics[t] = "unborn" /\ topics' = [topics EXCEPT ![t] = "live"]
    BY <1>2 DEF TopicChanges
  <2>2. /\ t \notin Interest(s)
        /\ Interest(s)' = IF s \in Matches[t] THEN Interest(s) \cup {t} ELSE Interest(s)
    BY <2>1 DEF Interest
  <2>3. QED
    BY <1>1, <2>2, FS_AddElement DEF Counted
<1>3. ASSUME TopicChanges(t, "live", "gone", -1)
      PROVE  Counted(s)' = IF s \in Matches[t] THEN Counted(s) + (-1) ELSE Counted(s)
  <2>1. topics[t] = "live" /\ topics' = [topics EXCEPT ![t] = "gone"]
    BY <1>3 DEF TopicChanges
  <2>2. /\ s \in Matches[t] => t \in Interest(s)
        /\ Interest(s)' = IF s \in Matches[t] THEN Interest(s) \ {t} ELSE Interest(s)
    BY <2>1 DEF Interest
  <2>3. QED
    BY <1>1, <2>2, FS_RemoveElement DEF Counted
<1>4. QED
  BY <1>2, <1>3

LEMMA TopicIInv ==
  ASSUME IInv, NEW t \in Topics, Subscribe(t) \/ Unsubscribe(t) PROVE IInv'
<1>1. PICK from \in {"unborn", "live"}, to \in {"live", "gone"}, by \in {1, -1} :
        /\ TopicChanges(t, from, to, by)
        /\ \A u \in Senders :
             Counted(u)' = IF u \in Matches[t] THEN Counted(u) + by ELSE Counted(u)
  BY CountedFollows DEF Subscribe, Unsubscribe, IInv, TypeOK
<1>2. /\ topics' = [topics EXCEPT ![t] = to] /\ UNCHANGED client
      /\ flows' = [i \in FlowIds |->
                     IF Present(i) /\ flows[i].by \in Matches[t]
                     THEN [flows[i] EXCEPT !.counter = @ + by] ELSE flows[i]]
      /\ posts' = [w \in Workers |-> IF posts[w] # Null /\ posts[w].by \in Matches[t]
                                     THEN [posts[w] EXCEPT !.stale = TRUE] ELSE posts[w]]
      /\ puts' = [s \in Senders |-> IF s \in Matches[t] /\ puts[s] # Null
                                    THEN [puts[s] EXCEPT !.stale = TRUE] ELSE puts[s]]
  BY <1>1 DEF TopicChanges
<1>3. ASSUME NEW i \in FlowIds, flows[i] # Null
      PROVE  /\ flows'[i] \in Row /\ flows'[i].by = flows[i].by
             /\ flows'[i].expected = flows[i].expected
             /\ flows'[i].drifted = flows[i].drifted /\ flows'[i].present = flows[i].present
             /\ flows[i].present => flows'[i].counter =
                  IF flows[i].by \in Matches[t] THEN flows[i].counter + by ELSE flows[i].counter
  BY <1>2, <1>3, Fields DEF IInv, Row, Present
<1>4. \A i \in FlowIds : flows[i] = Null => flows'[i] = Null
  BY <1>2 DEF Present
<1>5. ASSUME NEW w \in Workers, posts[w] # Null
      PROVE  /\ posts'[w] \in Post /\ posts'[w].id = posts[w].id
             /\ posts'[w].by = posts[w].by /\ posts'[w].awaited = posts[w].awaited
             /\ posts'[w].counter = posts[w].counter
             /\ ~posts'[w].stale => posts[w].by \notin Matches[t] /\ ~posts[w].stale
  BY <1>2, <1>5, Fields DEF IInv, Post
<1>6. ASSUME NEW s \in Senders, puts[s] # Null
      PROVE  /\ puts'[s] \in Put /\ puts'[s].id = puts[s].id
             /\ puts'[s].counter = puts[s].counter
             /\ ~puts'[s].stale => s \notin Matches[t] /\ ~puts[s].stale
  BY <1>2, <1>6, Fields DEF IInv, Put
<1>7. /\ \A w \in Workers : posts[w] = Null => posts'[w] = Null
      /\ \A s \in Senders : puts[s] = Null => puts'[s] = Null
  BY <1>2
<1>8. TypeOK'
  <2>1. topics' \in [Topics -> {"unborn", "live", "gone"}]
    BY <1>2 DEF IInv, TypeOK
  <2>2. flows' \in [FlowIds -> Row \cup {Null}]
    BY <1>2, <1>3, <1>4
  <2>3. posts' \in [Workers -> Post \cup {Null}] /\ puts' \in [Senders -> Put \cup {Null}]
    BY <1>2, <1>5, <1>6, <1>7
  <2>4. QED
    BY <1>2, <1>6, <1>7, <2>1, <2>2, <2>3 DEF IInv, TypeOK, Runs
<1>9. \A i \in FlowIds : /\ flows'[i] = Null <=> flows[i] = Null
                         /\ flows[i] # Null => /\ flows'[i].by = flows[i].by
                                               /\ flows'[i].expected = flows[i].expected
  BY <1>3, <1>4, Sentinel
<1>10. IdsInOrder' /\ WaitsOnce' /\ PostsOwn' /\ ClientsOwn' /\ PutsOwn'
  <2>1. \A w \in Workers : posts'[w] # Null =>
          /\ posts[w] # Null /\ posts'[w].by = posts[w].by /\ posts'[w].id = posts[w].id
          /\ posts'[w].awaited = posts[w].awaited
    BY <1>5, <1>7
  <2>2. \A u \in Senders : puts'[u] # Null =>
          puts'[u].id \in FlowIds /\ flows[puts'[u].id] # Null /\ flows[puts'[u].id].by = u
    BY <1>6, <1>7 DEF IInv, PutsOwn
  <2>3. QED
    BY <1>2, <1>9, <2>1, <2>2, OwnersKept
<1>11. PostsRight'
  <2> SUFFICES ASSUME NEW w \in Workers, posts'[w] # Null, ~posts'[w].stale, posts'[w].id = Null
               PROVE  posts'[w].counter = Counted(posts[w].by)'
    BY DEF PostsRight
  <2>1. /\ posts[w] # Null /\ ~posts[w].stale /\ posts[w].id = Null
        /\ posts'[w].counter = posts[w].counter
    BY <1>5, <1>7
  <2>2. PICK u \in Senders : u = posts[w].by /\ u = posts'[w].by /\ u \notin Matches[t]
    BY <1>5, <2>1, Fields DEF IInv
  <2>3. posts'[w].counter = Counted(u)'
    BY <1>1, <2>1, <2>2 DEF IInv, PostsRight
  <2>4. QED
    BY <2>2, <2>3 DEF Counted, Interest
<1>12. PutsRight'
  <2> SUFFICES ASSUME NEW u \in Senders, puts'[u] # Null, ~puts'[u].stale,
                      ~flows'[puts'[u].id].drifted, Present(puts[u].id)'
               PROVE  puts'[u].counter = Counted(u)'
    BY DEF PutsRight
  <2>1. /\ puts[u] # Null /\ puts'[u].id = puts[u].id /\ puts'[u].counter = puts[u].counter
        /\ u \notin Matches[t] /\ ~puts[u].stale
    BY <1>6, <1>7
  <2>2. puts[u].id \in FlowIds /\ flows[puts[u].id] # Null
    BY <2>1 DEF IInv, PutsOwn
  <2>3. ~flows[puts[u].id].drifted /\ flows[puts[u].id].present
    BY <1>3, <2>1, <2>2 DEF Present
  <2>4. QED
    BY <1>1, <2>1, <2>2, <2>3 DEF IInv, PutsRight, Present
<1>13. CounterRight'
  <2> SUFFICES ASSUME NEW i \in FlowIds, Present(i)', ~flows'[i].drifted
               PROVE  flows'[i].counter = Counted(flows[i].by)'
    BY DEF CounterRight
  <2>1. /\ flows[i] # Null /\ flows[i].by \in Senders /\ flows[i].present
        /\ ~flows[i].drifted
    BY <1>3, <1>4, Fields DEF IInv, Present
  <2>2. PICK u \in Senders : u = flows[i].by
    BY <2>1
  <2>3. flows[i].counter = Counted(u)
    BY <2>1, <2>2 DEF IInv, CounterRight, Present
  <2>4. flows'[i].counter = Counted(u)'
    BY <1>1, <1>3, <2>1, <2>2, <2>3
  <2>5. flows'[i].by = u
    BY <1>3, <2>1, <2>2
  <2>6. QED
    BY <2>4, <2>5 DEF Counted, Interest
<1>14. QED
  BY <1>8, <1>10, <1>11, <1>12, <1>13 DEF IInv

-----------------------------------------------------------------------------
(* The theorems.                                                           *)

LEMMA StepIInv == IInv /\ [Next]_vars => IInv'
<1> SUFFICES ASSUME IInv, [Next]_vars PROVE IInv'
  OBVIOUS
<1>1. /\ \A w \in Workers, s \in Senders, a \in BOOLEAN : CountTopics(w, s, a) => IInv'
      /\ \A w \in Workers :
           InsertDataflow(w) \/ InsertFails(w) \/ AnswerPost(w) \/ AbandonPost(w) => IInv'
  BY CountTopicsIInv, InsertDataflowIInv, AnswerPostIInv, PostEndsIInv
<1>2. ASSUME NEW s \in Senders, LoopEnds(s) \/ StopSender(s) PROVE IInv'
  BY <1>2, LoopEndsIInv
<1>3. ASSUME NEW s \in Senders,
             ReadDataflow(s) \/ NotFound(s) \/ WriteDataflow(s) \/ PutFails(s) \/ PutUnsent(s)
      PROVE  IInv'
  BY <1>3, ReadDataflowIInv, KeepAliveLostIInv, PutEndsIInv
<1>4. ASSUME NEW i \in FlowIds, DeleteDataflow(i) PROVE IInv'
  BY <1>4, DeleteDataflowIInv
<1>5. ASSUME NEW t \in Topics, Subscribe(t) \/ Unsubscribe(t) PROVE IInv'
  BY <1>5, TopicIInv
<1>6. CASE UNCHANGED vars
  BY <1>6 DEF vars, IInv, TypeOK, IdsInOrder, WaitsOnce, Waits, PostsOwn, ClientsOwn,
              PutsOwn, PostsRight, PutsRight, CounterRight, Newest, Runs, Present, Counted, Interest
<1>7. QED
  BY <1>1, <1>2, <1>3, <1>4, <1>5, <1>6 DEF Next

LEMMA IInvHolds == Spec => []IInv
BY InitIInv, StepIInv, PTL DEF Spec

\* Type correctness: the tables, the requests being served and the senders'
\* globals are well formed, whatever fails.
THEOREM TypeCorrect == Spec => []TypeOK
<1>1. IInv => TypeOK
  BY DEF IInv
<1>2. QED
  BY <1>1, IInvHolds, PTL

\* A sender that runs keeps alive the last row that was inserted while it waited,
\* for any number of senders and workers, also when its earlier runs left POSTs
\* behind whose rows are inserted after that (add_dataflow's LAST_INSERT_ID, the
\* global dataflowId of sender.py).
THEOREM OwnRow == Spec => []OwnFlow
<1>1. IInv => OwnFlow
  BY DEF IInv, ClientsOwn, Newest, OwnFlow
<1>2. QED
  BY <1>1, IInvHolds, PTL

\* A counter is wrong only of a row that was written after a topic had come or
\* gone since the count: the lost update of update_dataflow and the late insert
\* of add_dataflow are the only ways, for any number of requests.
THEOREM CountersRight == Spec => []CounterRight
<1>1. IInv => CounterRight
  BY DEF IInv
<1>2. QED
  BY <1>1, IInvHolds, PTL

\* No step brings a deleted row back, not a keep-alive that had read it either
\* (delete_dataflow, and the UPDATE of update_dataflow).
THEOREM DeletionsLast == Spec => DeletedForGood
<1> DEFINE Stays == \A i \in FlowIds :
                      flows[i] # Null /\ ~flows[i].present => ~flows'[i].present
<1>1. ASSUME IInv, [Next]_vars PROVE [Stays]_vars
  <2> SUFFICES ASSUME NEW i \in FlowIds, flows[i] # Null, ~flows[i].present, Next
               PROVE  flows'[i] = flows[i]
    BY <1>1
  <2>1. flows \in [FlowIds -> Row \cup {Null}]
    BY <1>1 DEF IInv, TypeOK
  <2>2. ASSUME NEW w \in Workers, InsertDataflow(w) PROVE flows'[i] = flows[i]
    BY <2>1, <2>2 DEF InsertDataflow
  <2>3. ASSUME NEW s \in Senders, WriteDataflow(s) \/ PutFails(s) PROVE flows'[i] = flows[i]
    BY <2>1, <2>3 DEF WriteDataflow, PutFails, Updated, Present
  <2>4. ASSUME NEW j \in FlowIds, DeleteDataflow(j) PROVE flows'[i] = flows[i]
    BY <2>1, <2>4 DEF DeleteDataflow, Present
  <2>5. ASSUME NEW t \in Topics, Subscribe(t) \/ Unsubscribe(t) PROVE flows'[i] = flows[i]
    BY <2>5 DEF Subscribe, Unsubscribe, TopicChanges, Present
  <2>6. QED
    BY <2>2, <2>3, <2>4, <2>5
       DEF Next, CountTopics, InsertFails, AnswerPost, AbandonPost, LoopEnds, StopSender, ReadDataflow,
           NotFound, PutUnsent
<1>2. QED
  BY <1>1, IInvHolds, PTL DEF Spec, DeletedForGood
=============================================================================
