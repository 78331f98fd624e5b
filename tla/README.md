# Formal verification of mec-platform

This directory holds TLA+ models of the MEC platform's own programs, the TLC
configurations that check them on small instances, and TLAPS proofs of what
holds for every instance. Everything is translated from the source; documents
were read to learn what the code is meant to do, never as the definition of it.
`PROJECT.json` maps every definition to the lines it models and lists runs,
hazards, findings and theorems.

    tlc -workers 2 -config edge_core.cfg MCEdgeInstance    # any run, see below
    tlapm EdgeInstanceProofs.tla      # and EdgeRegistryProofs, VideoStreamsProofs,
                                      # SignallingProofs, DataflowsProofs,
                                      # IceStreamProofs, PredictorsProofs,
                                      # MessageQualityProofs;
                                      # one to three minutes each

## 1. The system and its parts

Vehicles, cameras and roadside units send data flows to a Mobile Edge Computing
site; services ask the site for *pipelines*, network services that an
orchestrator (Open Source MANO, OSM) runs near them.

| Part | Source | State it keeps | Operations | Talks to |
|---|---|---|---|---|
| Edge Instance API | `apiserver/.../instances_controller.py`, `types_controller.py`, `models/` | MySQL tables `type` and `instance` | post, get, delete an instance; post, get, patch, delete a type | OSM over HTTP, the node through `introspection.sh`, MySQL |
| Registration API | `registration_api_controller.py` | table `dataflow`: senders, counters, keep-alive times | register, update, keep-alive, delete, query | MySQL, the AMQP broker's topics, senders |
| Sensor and device sender | `sender/sender.py` | its flow's id, "send" flag | keep-alive thread, sending loop | Registration API, AMQP |
| Video stream manager | `video-broker/amqp_manager.py`, `udpvideo2amqp.py` | five parallel global lists, one parser thread and one `webrtcRX` process per stream | a stream appears, a stream is to stop | AMQP topics, GStreamer |
| Frame relay | `udpvideo2amqp.py` (`on_buffer`), `content.py` | the global `content.message` | a frame becomes a message | AMQP |
| WebRTC signalling server | `video-broker/simple_server.py` | `peers`, `sessions`, `rooms` | HELLO, SESSION, ROOM, relays, disconnection | websockets of the peers |
| ICE stream | `video-broker/icestream.c` | gathering flags, port range | gather, restrict ports | libnice |
| C-ITS message quality | `cits-message-quality/src` | a detector and a batch of four messages per station | a CAM arrives, a quality is published | AMQP, the dataflow table |
| Positions and predictors | `its.cpp`, `its_utils.cpp`, `predictor.cpp` | per station a ring of positions; reference position, factor graph, number of iterations | update, predict, rebuild | GTSAM |
| Latency consumers | `llccam/consumer.py`, `ccam/consumer.py` | a window of ten latencies | a message arrives | AMQP |
| Node introspection | `introspection.sh` | none | allocatable and schedulable cpu, memory, gpu | kubectl |

What makes them hard:

* **Edge Instance API** - requests run in threads; each makes several calls to
  OSM and to the node between its first SELECT and its commit, under a
  REPEATABLE READ snapshot. OSM is asynchronous, may refuse or lose an answer,
  and the pod may restart in between. Correct means: one pipeline per datatype
  and instance type, no reservation beyond the node, a pipeline terminated with
  the last row that needs it and not before.
* **Video stream manager** - two threads update five lists with no lock and
  sleep in the middle. Correct means: the lists stay parallel, the stream that is
  stopped is the one that was asked for, and it does stop.
* **Frame relay** - each pipeline has a streaming thread, and all of them pass the
  message they make through one global. Correct means: a message is whole, and a
  thread sends the frame it was called with.
* **ICE stream** - the agent's thread signals to every stream's handler while the
  peer connection's thread asks for candidates, and nothing is locked. Correct
  means: ports are limited before anything is gathered, and every transport
  learns that its gathering is over.
* **Predictors** - a graph kept over many messages beside a ring that loses the
  oldest positions, brought up to date in three ways. Correct means: keys, values,
  factors and counter agree, and the time a prediction covers is the time that passed.
* **Signalling server** - one event loop, coroutines that hold state read before
  an await and use it after it. Correct means: every entry of `peers` belongs to
  a live connection and goes away with it, the partners of a session have each other.
* **Registration API and sender** - read-modify-write of counters across
  requests, requests that outlive their senders, keep-alives against deletions, a
  reply without the key the sender reads. Correct means: a sender keeps its own row alive, the counter of a row is
  the number of topics that want it, and senders follow it.
* **Message quality** - state kept from a station's first message, a database
  exception that ends the process, time stamps that wrap at 65536 ms. Correct
  means: a flow's quality is the mean of one batch of one station, and the flow that
  a station began with has one after enough messages.

Hazards are listed one by one, at their lines, in `PROJECT.json`.

## 2. Modules

| Module | Models |
|---|---|
| `EdgeInstance` | Edge Instance API with its tables, OSM and the node |
| `MCEdgeInstance` | its instances for TLC |
| `EdgeInstanceProofs` | its theorems |
| `PipelineRegistry` | the abstract specification: a registry of shared services |
| `EdgeRegistry`, `EdgeRegistryProofs` | the refinement mapping from `EdgeInstance`, its proof |
| `VideoStreams` | both consumer threads of the stream manager, the lists, the parsers |
| `MCVideoStreams` | its instance |
| `FrameRelay` | the relay of frames, composed with `VideoStreams` |
| `MCFrameRelay` | the instance of the composition |
| `VideoStreamsProofs` | the theorems of `VideoStreams` and of the composition |
| `Signalling` | the signalling server |
| `MCSignalling`, `SignallingProofs` | its instances, its theorems |
| `Dataflows` | the Registration API composed with the senders |
| `MCDataflows`, `DataflowsProofs` | its instance, its theorems |
| `MessageQuality` | the message handler, the detector's maps, the batches |
| `MCMessageQuality`, `MessageQualityProofs` | its instance, its theorems |
| `Predictors` | a station's positions and the bookkeeping of its predictor |
| `MCPredictors`, `PredictorsProofs` | its instance, its theorems |
| `IceStream` | the streams of one ICE agent, both threads |
| `MCIceStream`, `IceStreamProofs` | its instance, its theorems |

A definition whose comment starts with "Variant" is not part of the model: it is
what the definition after it would be with a plausible mistake in the code, and
PROJECT.json pairs it with a property that it breaks.

### EdgeInstance

`types` and `rows` are the two tables, keyed by `type_name` (unique in the
schema) and `instance_id`; `pipelines` is what OSM holds; `req[w]` is the request
thread `w` is serving. A request is cut at each access to something shared:

| Code | Action |
|---|---|
| `post_instance`, query of the type | `PostInstance` |
| GET `ns_instances`, search by name | `ListPipelines` |
| sum of the reservations, introspection, comparison | `CheckResources` |
| descriptor look-up, POST `ns_instances_content` | `Orchestrate` |
| insert and commit | `InsertInstance` |
| `delete_instance`, its queries and the count of rows | `DeleteInstance` |
| POST `terminate` | `TerminatePipeline` |
| delete and commit | `RemoveInstance` |
| `types_controller` | `PostType`, `PatchType`, `DeleteType` |
| OSM finishing an instantiation or a termination | `Instantiate`, `Vanish` |
| the pod restarting | `Restart` |

* The session of a request reads the snapshot its first SELECT opened
  (InnoDB's default isolation): field `snap`. Unique and foreign keys are
  enforced on the current tables when it commits, so a type deleted meanwhile
  makes the insert fail although the snapshot still has it.
* `Schedulable` is the node's allocatable amount less what the deployed services
  request. A service that is still "deploying" has no pods and is not counted,
  which is exactly why the code also counts reservations. Pods that are not
  pipelines are left out: they only shrink `Allocatable`.
* `Faults` names the faults that may happen: "orchestrator" (OSM refuses, is
  unreachable, or its answer is lost), "database" (a commit fails), "restart".
* The order of OSM's listing is OSM's own: the reference of "element 0" is any
  listed service.
* The get operations answer from one query and change nothing.

### PipelineRegistry and EdgeRegistry

What the API promises without its tables, requests and orchestrator: services that
are absent, live or ending, clients that have joined a pair, pairs somebody has been
admitted to. One service of a name or none; only who was admitted joins; a service
is retired for a pair's last client. `EdgeRegistry` maps `pipelines`, `rows` and the
requests about to insert to these; two pipelines of one name map to a state the
registry does not have, so that a duplicate deployment is no step of it.
`ImplementsRegistry` is the registry's specification under that mapping: it says of
each step what the invariants say of states, and in which order deployments,
admissions, joins and retirements may come.

### VideoStreams

Each append or deletion of one list is an action, since only single list
operations are atomic under the interpreter's lock; `AppendRank` and `DeleteRank`
are the orders in which the code touches the lists. `time.sleep` is no guarantee
of order and no guard. `Popen` may raise, `ids.index` and `del` may raise, and an
exception leaves the thread dead. A message that lacks a property which `on_message`
reads raises before any list is touched: the thread is gone and the lists are as they
were, as in the behaviours in which it takes no further message, so there is no action
for it. A parser thread watches its GStreamer bus;
the first state change of the pipeline runs into an undefined name, after which
the pipeline plays on with nobody watching ("adrift"). `registry` is a history
variable: the streams that were registered and not retired, in order. Its only
use is to say what the lists should contain.

### FrameRelay

`RelayNext` is a step of `VideoStreams` or one of a streaming thread; both keep the
other's variables. A pipeline relays while its parser is "running" or "adrift":
`on_buffer` makes the message and assigns the global (`OnBuffer`), reads the global
again (`TakeMessage`), and ends, the message accepted or lost (`SendEnds`).
`Message(...)` is built before the assignment, which is one step of the
interpreter. A parser that frees its pipeline waits for the streaming thread
(`EndsBetweenFrames`, GStreamer's `set_state`). `overtaken` is history.

### Predictors

| Code | Definition |
|---|---|
| a station's first CAM: `ITS::ITS`, its predictor | `FirstMessage`, `NewPredictor` |
| `on_CAMReceived`: `detect`, then `update` or `updateWithPrediction` | `Message`, `Update` |
| `positions_.push_back` of the ring | `Pushed` |
| `FactorGraphPredictor`: build, update, reset, project and resize | `BuildFullFactorGraph`, `UpdateFactorGraph`, `Reset`, `ProjectedAndRemoved`, `FactorPredict` |
| `SimplePredictor`, `UKFPredictor`, the factory | `SimplePredict`, `UKFPredict`, `Predicted` |
| `Predictor::project`, the interval T | `Interval` |

A position is the message it is from and its time; a pose in the graph is a position
and the reference of its conversion; a factor is the pair of keys it ties. What the
optimiser, the Kalman filter and the conversions compute is left out: none of it
decides control, but for the score, which is any score. The platform only uses the
simple predictor (`its.cpp:54`) and a threshold of 0; the others are
what the factory offers, and are modelled because the class's users may select them.
`interval` is recorded for the property.

### IceStream

Each access of the two threads to shared memory is an action: a transport is made
(`FindTransport`), a call reads `gathered` (`GatherCandidates`), tells each transport
(`Announce`), limits the ports (`LimitPorts`) and asks the agent, which may refuse
(`StartAgent`); the agent's thread signals a stream's end, which every stream's
handler gets and one takes (`GatheringDone`), and each transport is told
(`Complete`). The transports are in a list that only grows at its front, so that the
loops see those that were there when they began. `late` and `overtaken` are history.

### Signalling

An action is what a coroutine does from one await to the next; every await may
suspend. `task[c]` is where the coroutine of connection `c` waits with the locals
it will use. `Leave` is `cleanup_session` followed by `remove_peer`, up to its
first await; all exception paths end there, as they do in the code's `finally`.
Messages queued on a socket that has closed may still be delivered. A connection
that has ended is reused for a new client once nothing refers to its socket, which
keeps the model finite without bounding the number of clients. A SESSION or ROOM
command without its argument and a message of bytes raise in the dispatch and end the
handler with the socket still open (`Malformed`; in a room, `RoomPeerList`). ERROR answers and
unknown messages change nothing and are stuttering steps.
`crossed` is history: the names whose session another call came across, whose status was
set while they had a partner (by a room they enter, or by a registration), or that were
called while a coroutine of the name was on its way out.
The certificate check that restarts the server is left out (the platform runs it
without certificates).

### Dataflows

| Code | Action |
|---|---|
| `add_dataflow`: SELECT of the topics and the count; INSERT | `CountTopics`; `InsertDataflow` |
| `LAST_INSERT_ID()`, the answer, the start of the keep-alive thread | `AnswerPost` |
| a statement raising; the sender or its connection gone before the answer | `InsertFails`; `AbandonPost` |
| PUT of `sendKeepAlive`, SELECT of `update_dataflow`; its 404 | `ReadDataflow`; `NotFound` |
| UPDATE, the answer, `send = r.json()['send']` | `WriteDataflow`, `PutFails` |
| `requests.put` raising | `PutUnsent` |
| `delete_dataflow` | `DeleteDataflow` |
| the sending loop ending, the process ending | `LoopEnds`, `StopSender` |

Each `execute` commits on its own, at READ UNCOMMITTED, hence the cut at each
statement. The API never writes topics, nor counters other than those it has
just read: since it hands `send = counter > 0` to senders that registered with
0, somebody outside adjusts the counters when topics change. `Subscribe` and
`Unsubscribe` stand for that (external), topic and counters in one step, which is
the best an outside writer can do. An interrupted main thread
leaves the other one running, since it is no daemon thread. `drifted` and `stale`
are history: they mark what was written, or will be, from a count that topics have
overtaken; `expected` marks a row whose sender still waited when it was inserted.
`Workers` are the API's threads that serve POSTs. A request outlives the process that
sent it: after `AbandonPost` the worker goes on to its INSERT, and a worker may take a
POST nobody waits for any more (`CountTopics` with `awaited` false) while a later run of
the sender registers or has registered. A PUT of a stopped sender is written too.

### MessageQuality

The broker's thread runs `on_CAMReceived` to its end before the next message, so
a message is one action (`NewStation`, `Message`); the thread that
`std::async` starts is joined before `detect` returns. An exception or a failed
assertion ends the process (`Unreadable`, the last disjunct of `Message`), and it starts
again with empty maps (`Start`); the database keeps the qualities. Positions are
abstracted to the score of their distance from the prediction, any score once there
are two positions and the best one before. A station's messages may carry any of
several flows (`FlowsOf`), which is what registering again does, and stations may share
one. `heard`, `batch` and `last` are history.

## 3. Runs

| Run | Shows | States |
|---|---|---|
| `edge_core` | two threads, every fault: rows and references well formed, no pipeline larger than the node is ever deployed, at most one copy of a pipeline per thread, the reservation's reads never fail | 256,734 |
| `edge_sequential` | one thread, restarts, database failures, two pairs that share a service name: never two pipelines of one name; termination only for the only row; the last row takes its pipeline; the API implements `PipelineRegistry` | 94,888 |
| `video_lists` | three streams, two of one source, with the frames of one stream of each source: lists parallel when idle, the parser stopped belongs to the source asked for, deletions take only its elements; a message for a registered stream never ends the retiring thread, unless its registration is under way; messages are whole, and of the own stream unless overtaken | 257,622 |
| `sig_sessions` | three connections, two of one client and one that may present the same name: every entry belongs to a live coroutine of its name, and a closed connection disappears from `peers` | 114,317 |
| `sig_rooms` | three clients, sessions and a room: partners have each other, both in a session, until another call, a change of status or a departure under way comes across; whoever takes room commands is a member | 1,013,207 |
| `predictor_track` | each predictor over nine messages, a ring of five, rebuilds from four on: the graph is a chain along the last messages about one reference, the interval is the time elapsed | 28,672 |
| `ice_gathering` | two streams of two components: ports limited before gathering, transports complete when their own stream is and (but for two races) always then; each is told | 25,133 |
| `dataflow_keepalive` | two senders, two workers, a topic about one sender's data, two rows ever, fairness: a sender keeps alive the row of its own run, POSTs served late included; a counter is wrong only if a topic overtook the count; the deleted stay deleted; the sender's flag comes to say what the counter says | 421,775 |
| `quality_batches` | two stations, one that changes to the other's flow: a quality is the mean of one whole batch across crashes; the flow of a station's first message is evaluated when the station has sent enough, and none before | 306,106 |

Runs that TLC must find violated, each for a statement of the repository that the
code contradicts:

| Run | Statement | What the code does |
|---|---|---|
| `edge_duplicate` | "There is no pipeline deployed for the selected datatype and instance type" (`instances_controller.py:54`) | two posts both find nothing listed and both deploy |
| `video_still_sending` | "Existing video stream to stop sending" (`amqp_manager.py:79`) | the event set by `kill()` is read nowhere |
| `sig_bidirectional` | "Bidirectional mapping between the two peers" (`simple_server.py:32`) | SESSION checks the caller's status, before it suspends, and never the callee's: a call completes over another one's session, and two names then have one partner |

Other behaviour the models have and no run is spent on: two posts for different pairs
both find room before either has its row, and together reserve more than the node has;
a deletion counts one row, a post adds another for the same pipeline, and the pipeline
is terminated (`edge_core`'s instance has this one, the first needs a descriptor for
either pair); two deletions of the last two rows both count two and leave the pipeline
running; a post right after a deletion confirms a pipeline OSM is still terminating;
the reference stored for a pipeline found deployed is the id of element 0 of the
listing, whichever service was found (`:207`; the comment at `:211` says "Use osm
instance id as pipeline instance id"); a terminate message for an unknown source ends
the retiring thread; a retired stream's `webrtcRX` process stays (the call is
commented out at `amqp_manager.py:94`); a room member drawn into a session can stay in
the room's set after it has been removed; with rooms, an exception while a departure
is announced leaves an entry in `peers`; the counter of a dataflow can be lowered
below zero for good by the lost update of `update_dataflow`; two stations that share a
flow each need a batch of their own; a station that registers again is evaluated under
the flow of its first message (`main.cpp:79`), and the new one's quality stays 0
however much it publishes, where `cits-message-quality/README.md:6` says that a
quality of 0 means that "the dataflow has not published enough messages"; a peer that
is called away by a third one leaves its partner in a session with somebody who has
gone, or is back with no status, and the next relay to it fails at
`self.peers[other_id]` or the `assert` after it (`simple_server.py:131-132`); a POST
that is served late leaves a row nobody keeps alive; a thread whose message was
overtaken sends another stream's frame, and that frame is sent twice where
`amqp_manager.py:58` says "1 message per frame"; a gathering call that passed its
check before the agent's signal leaves complete transports "gathering"; a prediction
across the wrap of the stamps has a negative interval; the comment at
`predictor.cpp:297` speaks of a rebuild every 64 iterations, and the code rebuilds at
every prediction once the counter has reached MAX_ITERATIONS, 8, because a rebuild
sets it to the number of positions; the end of a sender's keep-alive thread leaves it
sending, or silent, on the last answer.

### Bounds

* EdgeInstance: two threads are what every race here needs (all are between a
  check of one request and an action of another). `InstanceIds` and `Refs` bound
  the instances and deployments *ever* made, since neither uuids nor OSM ids are
  reused; two of each let one pair be deployed, deleted and deployed again, and
  three in the sequential run let two pairs share a service that is replaced. One
  resource: the comparison treats each alike. Demands are one, which fits twice,
  and three, which never does.
* VideoStreams: two streams of one source make "first match" matter; a third of
  another source makes positions shift. Each stream registers once.
* FrameRelay: two relayed streams race for the global; more would only queue.
* Predictors: nine messages overflow a ring of 5, with MAX_ITERATIONS 4, so that the
  graph is built, extended, rebuilt with a partly full ring and rebuilt with one that
  has lost positions, in the order they come with 16 and 8. Stamps wrap at 4 with gaps
  of 1 and 3: equal, growing and wrapped stamps all occur. The threshold of 2 lets both
  branches of the update run.
* IceStream: two streams tell the own signal from another's, two components a loop
  that is interrupted from one that is not.
* Signalling: three peers are needed for a callee to be taken over; with one room
  a peer in two rooms cannot occur, which the code excludes too (a ROOM command is
  accepted with no status only).
* Dataflows: two senders race for ids, and two workers are what it takes for a late POST
  to overlap a registration; two rows let both senders register, or one twice, or a late
  row follow. The topic is about the data of one sender only, whose counter is zero or
  one and drifts either way. The PUT of a stopped sender is served before its next run's first PUT is read (30 seconds apart). In every
  instance, and in the theorems, the rules that `applyRules` applies name neither
  the counter nor a column that topics are matched with: with such rules the API would
  answer from one value and store another, and who matches whom would be the rules' affair.
* MessageQuality: the code's batch size, four; the scores 4 and 7, whose sums over
  four give four different means after rounding. One station's messages carry two flows,
  one of which is the other's only one. Counts of messages stop at one more than a batch.
* VideoStreams: messages carry the properties that `on_message` reads (section 2).
* Symmetry is used only in runs without liveness, over sets whose elements the
  definitions do not tell apart: in `sig_rooms` and
  `sig_bidirectional` connections and their names are permuted together.
* Deadlock is checked except for VideoStreams and FrameRelay, whose threads may die and
  whose streams are finitely many, Predictors, whose messages are, and IceStream,
  which is at rest when every transport is made and every stream has gathered.

### Fairness

* `VideoStreams!FairSpec`: the two threads take the steps they can, and a bus
  reports the pipeline's change of state (GStreamer always posts one when it starts
  playing).
* `Signalling!FairSpec`: a suspended coroutine is resumed (weak fairness of
  `Resume`: the event loop's queue is first in, first out and sends end when the
  socket closes at the latest); strong fairness of `Closed`, because a
  closed socket has only finitely many queued messages (16 at most) before recv
  raises. Clients owe nothing: they may stay silent for ever.
* `IceStream!FairSpec`: the agent finishes what it gathers and its handlers run to their
  end (libnice ends a gathering by time-out at the latest). Nothing is assumed of the
  peer connection, which may never call again.
* `Dataflows!FairSpec`: weak fairness of the keep-alive thread's PUTs (it loops for
  ever) and of the API's completing a PUT it has begun. Nothing is assumed of topics,
  of registrations, or of a lost answer being repeated.

## 4. Proofs

**EdgeInstanceProofs.** The inductive invariant is `TypeOK`, plus: a thread that
inserts has a reference, one that terminates or removes has an id (`LocalsReady`);
the foreign keys hold now and in every snapshot (`ReservationReadsTotal`, which is
inductive because a snapshot is the tables of an earlier moment); a thread about to
deploy has no service of that name of its own in the listing (`SearchedNameFree`);
`OneDeploymentPerThread` follows since a thread's services are created only by
itself and a restart forgets its request. Hence, for any number of threads, types
and instances and under all faults: `TypeCorrect`, `ReadsTotal`, `OnePerThread`.
`DeployedAlwaysFits` needs that what a thread is about to deploy was found to fit
(`DemandChecked`), and that in turn that what is reserved is a natural number
(`ReservedNatural`): were it negative, or undefined because a type is missing, the
comparison would let anything pass. The sum goes over all pairs in the tables, so
this is an induction, see below.
With a single thread copies per thread are copies at all (`SingleThreadUnique`); a
further invariant, that the snapshot of a deletion is the present table, gives
`SingleThreadTermination`, and for an orchestrator that does not refuse
`SingleThreadLastRow`. These are the precise sense in which the code is right
when requests do not overlap. With two threads they fail: `edge_duplicate` shows it of
the first, and section 3 tells of the others.

**VideoStreamsProofs.** `AlignedWhenIdle` is far from inductive: in the middle of
both loops every list has a different length. The invariant `IInv` describes each
list as a function of `registry` and of how far each thread has come (`Views`):
the registry, without its last element if the registering thread has not reached
that list, without the victim's position if the retiring thread has. `VictimInPlace`
says the victim is at its index of the registry. Removal at an index and
appending at the end commute, which a few lemmas on sequences establish. This
yields `ListsAligned`, `RightVictim` and `OnlyVictimDeleted` for any number of
streams and sources, exceptions included. That a list lacks at most the stream being
registered (`BeyondBase`) gives `RegisteredRetired`: which messages end the retiring
thread.

**EdgeRegistryProofs.** The mapping of every action, one lemma each, under the
invariant of `EdgeInstanceProofs` and with one thread: a request's deployment is the
registry's `Deploy` because, by `UniquePipeline` before and after the step, no
service of the name can have been listed, a deletion's termination is `Retire`
because the row it counted is still the only one, a commit is `Join` because the id
is new and the pair admitted; failures and restarts are `Dismiss` or a stutter. Hence
`SingleThreadImplementsRegistry`, for any sets of types, names and ids and under every
fault.

**The relay, in VideoStreamsProofs.** While a thread stands between making its message and taking it, the
global holds a whole message of a relayed stream, its own unless it was overtaken. That
gives `MessagesWhole` and `OwnFrames`; a step of the composition is a step of
`VideoStreams` or leaves it alone (`RelayImplementsStreams`), so that the theorems
about the lists hold of it.

**SignallingProofs.** First the types of the maps and of every coroutine's locals at
each await (`TypeInv`, with `Locals` for what is set where): `TypeCorrect`. Then every
action is shown to be one of seven kinds of step, which say what became of the entry of
the connection's name and of everybody else's (`Quiet`, `Register`, `Paired`, `Entered`,
`Left`, `Removed`, `AnnouncedLeft`; `Removes` and `Departs` are what the clean-up does),
so that each further invariant has seven cases and not twenty actions.

* `SessionsPaired`, for names shared by connections and rooms as well. The invariant
  `PairsInv` is about the names that nothing came across: such a name and its partner have
  each other and nobody else, both are registered with status 'session' and neither is
  on its way out (`Whole`); a name with that status and no partner has a coroutine that waits for
  its last partner's socket to close (`Outlived`).
  A departure takes both entries of `sessions`, and the partner's of `peers`, in one step
  (`Departs`), so that no half of a pair remains. It is not inductive without `crossed`:
  a second call takes half of a pair, which is what `sig_bidirectional` shows.
* `NoGhosts` (every entry of `peers` is served by a live coroutine, `EntriesServed`) is
  stated for a server on which no room is used. With rooms it is false: an exception
  while a departure is announced skips the rest of `remove_peer` and leaves the entry,
  see section 3.
* `MembersInRooms` assumes that no two clients give the same name (`OwnNames`). Without
  that, the clean-up of one takes the other, of the same name, out of the room. It
  needs that a coroutine past HELLO bears a name of its connection (`NameIsOwn`), and
  that the membership lasts from the ROOM_OK to the clean-up, through every await in
  between (`MemberWhileStaying`).

**IceStreamProofs.** `PortsLimited` needs that the stream of a call past its `LimitPorts`
step, and any marked as started, is in `range` (`RangeFirst`); `CompleteWhenGathered` that
who is yet to be told is of a stream that is done (`SignalOfDone`), and
`DoneMeansComplete` that those not told yet are in `signal` (`ToldOrComplete`) and that the
flag a call reads is what the agent has done (`FlagIsAgents`).

**PredictorsProofs.** The invariant `Along` says what a predictor of factor graphs looks
like after its first prediction: a chain of `n_iterations_` keys whose values are the
successive last messages about the present reference. Each of the three ways in
`FactorPredict` is shown to lead from `Along` for n messages to `Along` for one more
(`FactorPredictAlong`), with lemmas for building, extending and cutting a chain;
`PushedRing` keeps the ring's positions consecutive. Hence `TypeCorrect`, `AlwaysChain`,
`AlwaysOnTrack`, `AlwaysOneReference` for any capacity of three or more, any number of
iterations and of messages. `AlwaysElapsed`, the interval of every kind of predictor,
needs that nothing is predicted before the third message (`IntervalInv`): only then does
the reference stand for the first of two positions, as `project` takes it to. The rest is
arithmetic of quotients and remainders by any modulus (`StampDifference`).

**MessageQualityProofs.** `TypeCorrect` and `MeansOfBatches` hold without hypotheses: a
station's metric and iteration are the sum and the length of the batch so far, and a
batch that was published has the full length. So do
`EnoughAlwaysEvaluated` and `OnlyEvaluatedWhenEnough`, which are about the flow that a
station began with, whatever flows its messages carry and whoever shares them: the entry
of a station counts what it sent since its last publication, all but the first message of
all, and before the first publication that is all it sent (`HeardOK`). They do not say
that a *flow* with enough messages is evaluated: it need not be (section 3).
That the mean is not 0 comes from every score being at least 1 (`MeanBounds`).

**DataflowsProofs.** `OwnFlow` needs that ids are given out in order (`IdsInOrder`), that a
sender waits for one worker at most and only while it does not run (`WaitsOnce`), and that
the row of such a worker is the newest of those its sender waited for (`PostsOwn`); a row
inserted for a sender that has ended may be newer than these and is not among them.
`CounterRight` needs that what a request has counted or read, and no topic has
overtaken, is still the number of topics (`PostsRight`, `PutsRight`), and that a
keep-alive is about a row of its sender (`PutsOwn`). That a topic changes the count of
the senders it matches by one, and of no other, is `CountedFollows`, from the
library's facts on cardinalities. Hence `OwnRow`, `CountersRight`, `DeletionsLast` for
any number of senders, workers, topics and rows.

Assumptions: those named in the modules; TLC evaluates them
on every run. `SingleThread...` theorems assume one thread, and the last one that
"orchestrator" is not among the faults; the theorems say so themselves.

**Induction.** The library's induction theorems have an operator for a parameter, which
the provers here cannot instantiate. The proofs use sets instead: `SetInduction` says that
a set with 0 and the successor of each of its members holds all natural numbers, and
follows from the least-number principle (`LeastNumber`), the library's `WFMin` for the
order of the naturals. With it, that a recursively defined function exists and obeys its
equation, and what its values are, is proved for sums over sequences (`TotalsExist`,
`TotalsAgree`) and for the fold of the community modules over finite sets, by the sets'
cardinality (`SumsExist`, `SumsNatural`). `TotalScore` is a recursive function for that
reason; `Reserved` is the fold.

Only model-checked: the liveness properties `ClosedIsForgotten`, `ToldOfTheEnd` and
`FollowsCounter`. Proofs from fairness need to know when an action is enabled, and the
provers have no rules for that. Every safety property that a passing run checks is
proved, with the hypotheses named above.

## 5. Plan

In order of what matters for the platform:

1. An abstract specification of the stream manager, an ordered registry of streams that
   are registered and retired in one step, and the proof that the five unlocked lists
   implement it; `IInv` of `VideoStreamsProofs` is the invariant it needs.
2. The safety behind the liveness properties: of each, what must never happen for it to
   hold (a closed connection's coroutine without a step to take, a gathering transport
   that nobody will tell, a keep-alive about a row that is not the sender's).
3. A registry that allows one service per thread, as an abstract specification of the
   Edge Instance API with any number of threads.
4. The ring of `Predictors` composed with `MessageQuality`, in place of its flag for
   stations that have two positions.

## 6. Not modelled

* What the filters of `predictor.cpp` and the conversions of `its_utils.cpp` compute, and
  the distances that the scores stand for: real arithmetic and library code.
* `gst_webrtc_ice_stream_finalize` and the GObject boilerplate of `icestream.c`: when a
  stream is released is GStreamer's affair, outside this repository.
* UDP ports of the parsers (`sourceId % 1000 + 5000`): sources congruent modulo 1000
  share one, and what GStreamer then delivers to whom is not decided by this code.
* The latency consumers: one thread, one message at a time, a gauge. Their window starts
  with ten zeros, so that the first nine means are too low; nothing reads them back.
* `webrtc_proxy.py` (start-up only), the location-tile and token helpers, Helm charts and
  playbooks: configuration and single calls without state.
* Vendored headers (rapidjson, proton, kalman) and generated classes, which are most of
  the repository's lines of C, C++ and Python: third parties' code, of which the
  models take what the platform's calls rely on. The share of *all* lines the map covers is
  therefore small, and cannot be otherwise.
* Message formats, wherever no property depends on them.
