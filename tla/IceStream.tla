------------------------------ MODULE IceStream ------------------------------
(***************************************************************************)
(* The ICE streams of a WebRTC peer, icestream.c: the program's variant of *)
(* GStreamer's, with the RTP ports limited.  All streams share one libnice *)
(* agent, whose thread signals the end of a gathering, while the thread of *)
(* the peer connection adds transports and asks for candidates.  Nothing   *)
(* locks what the two share, so that every access is a step.               *)
(***************************************************************************)
EXTENDS FiniteSets

CONSTANTS
  Streams,     \* the streams of the agent, by stream-id
  Components,  \* the components a stream may have transports for
  Null         \* absent

VARIABLES
  gathered,   \* priv->gathered
  started,    \* priv->gathering_started
  transport,  \* the state of each of priv->transports, "absent" for no transport
  call,       \* the gather_candidates call the peer connection is in, or Null
  signal,     \* transports the agent's thread has yet to tell of a gathering done
  agent,      \* what the agent does for each stream
  range,      \* the streams whose RTP ports are limited to 55000..55099
  late,       \* history: transports added when the gathering was over
  overtaken   \* history: transports announced after the gathering was over

vars == <<gathered, started, transport, call, signal, agent, range, late, overtaken>>

Transports == Streams \X Components

Call == [stream : Streams, pc : {"announce", "limit", "start"}, todo : SUBSET Components]

ASSUME IceAssumption == Null \notin Call

Present(s) == {c \in Components : transport[<<s, c>>] # "absent"}

-----------------------------------------------------------------------------
(* The peer connection's thread.                                           *)

\* A component's transport is made when it is first asked for.
FindTransport(s, c) ==
  /\ call = Null /\ c \notin Present(s)
  /\ transport' = [transport EXCEPT ![<<s, c>>] = "new"]
  /\ late' = IF agent[s] = "done" THEN late \cup {<<s, c>>} ELSE late
  /\ UNCHANGED <<gathered, started, call, signal, agent, range, overtaken>>

\* A call for a stream that has gathered returns at once.
GatherCandidates(s) ==
  /\ call = Null /\ ~gathered[s]
  /\ call' = [stream |-> s, pc |-> "announce", todo |-> Present(s)]
  /\ UNCHANGED <<gathered, started, transport, signal, agent, range, late, overtaken>>

\* The next transport is told that gathering begins.
Announce(c) ==
  /\ call # Null /\ call.pc = "announce" /\ c \in call.todo
  /\ transport' = [transport EXCEPT ![<<call.stream, c>>] = "gathering"]
  /\ overtaken' = IF gathered[call.stream] THEN overtaken \cup {<<call.stream, c>>}
                                           ELSE overtaken
  /\ call' = [call EXCEPT !.todo = @ \ {c}]
  /\ UNCHANGED <<gathered, started, signal, agent, range, late>>

\* Variant: the ports are limited by a stream's second call, not by its first.
LimitPortsAgain ==
  /\ call # Null /\ call.pc = "announce" /\ call.todo = {}
  /\ range' = IF started[call.stream] THEN range \cup {call.stream} ELSE range
  /\ started' = [started EXCEPT ![call.stream] = TRUE]
  /\ call' = [call EXCEPT !.pc = "start"]
  /\ UNCHANGED <<gathered, transport, signal, agent, late, overtaken>>

\* The first call of a stream, and no other, sets its port range.
LimitPorts ==
  /\ call # Null /\ call.pc = "announce" /\ call.todo = {}
  /\ range' = IF started[call.stream] THEN range ELSE range \cup {call.stream}
  /\ started' = [started EXCEPT ![call.stream] = TRUE]
  /\ call' = [call EXCEPT !.pc = "start"]
  /\ UNCHANGED <<gathered, transport, signal, agent, late, overtaken>>

\* nice_agent_gather_candidates begins unless it has begun before, or fails.
StartAgent ==
  /\ call # Null /\ call.pc = "start"
  /\ \/ agent[call.stream] = "idle" /\ agent' = [agent EXCEPT ![call.stream] = "gathering"]
     \/ UNCHANGED agent
  /\ call' = Null
  /\ UNCHANGED <<gathered, started, transport, signal, range, late, overtaken>>

-----------------------------------------------------------------------------
(* The agent's thread.                                                     *)

\* Variant: every stream takes the signal for its own.
ConcernedAll(s) == Streams

\* The handlers of all streams are connected to the one signal.
Concerned(s) == {h \in Streams : h = s}

\* Variants: every component is told, or only one transport of a stream.
ToldAll(s) == {t \in Transports : t[1] \in Concerned(s)}
ToldOne(s) == {t \in Transports : /\ t[1] \in Concerned(s) /\ transport[t] # "absent"
                                  /\ t[2] = CHOOSE c \in Present(t[1]) : TRUE}

Told(s) == {t \in Transports : t[1] \in Concerned(s) /\ transport[t] # "absent"}

\* The agent has gathered stream s: its flag is set, its transports read.
GatheringDone(s) ==
  /\ agent[s] = "gathering" /\ signal = {}
  /\ agent' = [agent EXCEPT ![s] = "done"]
  /\ gathered' = [h \in Streams |-> gathered[h] \/ h \in Concerned(s)]
  /\ signal' = Told(s)
  /\ UNCHANGED <<started, transport, call, range, late, overtaken>>

\* Each of them is told.
Complete(t) ==
  /\ t \in signal
  /\ transport' = [transport EXCEPT ![t] = "complete"]
  /\ signal' = signal \ {t}
  /\ UNCHANGED <<gathered, started, call, agent, range, late, overtaken>>

Init ==
  /\ gathered = [s \in Streams |-> FALSE]
  /\ started = [s \in Streams |-> FALSE]
  /\ transport = [t \in Transports |-> "absent"]
  /\ call = Null
  /\ signal = {}
  /\ agent = [s \in Streams |-> "idle"]
  /\ range = {}
  /\ late = {} /\ overtaken = {}

AgentStep == (\E s \in Streams : GatheringDone(s)) \/ (\E t \in Transports : Complete(t))

Next ==
  \/ \E s \in Streams, c \in Components : FindTransport(s, c)
  \/ \E s \in Streams : GatherCandidates(s)
  \/ \E c \in Components : Announce(c)
  \/ LimitPorts
  \/ StartAgent
  \/ AgentStep

Spec == Init /\ [][Next]_vars

\* The agent finishes what it gathers.  Nothing is assumed of the peer connection.
FairSpec == Spec /\ \A s \in Streams : WF_vars(GatheringDone(s))
                 /\ \A t \in Transports : WF_vars(Complete(t))

-----------------------------------------------------------------------------
(* Properties.                                                             *)

\* Type correctness of the flags, the transports and both threads' locals, which
\* are about transports that exist.
TypeOK ==
  /\ gathered \in [Streams -> BOOLEAN] /\ started \in [Streams -> BOOLEAN]
  /\ transport \in [Transports -> {"absent", "new", "gathering", "complete"}]
  /\ call \in Call \cup {Null}
  /\ call # Null => call.todo \subseteq Present(call.stream)
  /\ signal \subseteq {t \in Transports : transport[t] # "absent"}
  /\ agent \in [Streams -> {"idle", "gathering", "done"}]
  /\ range \subseteq Streams
  /\ late \subseteq Transports /\ overtaken \subseteq Transports

\* "Limit RTP ports": no stream gathers candidates from other ports, whichever
\* of its calls the agent fails and whatever other streams do.
PortsLimited ==
  \A s \in Streams : agent[s] # "idle" => s \in range

\* A transport is complete only after the agent has gathered its own stream,
\* though the handlers of all the streams get every signal.
CompleteWhenGathered ==
  \A t \in Transports : transport[t] = "complete" => agent[t[1]] = "done"

\* When a stream has gathered and the signal is handled, each of its transports
\* is complete, but for two races that the code leaves open: one made after the
\* signal stays as it is, and a call that found the flag unset and goes on after
\* it puts back to "gathering" what was complete.
DoneMeansComplete ==
  \A t \in Transports :
    agent[t[1]] = "done" /\ signal = {} =>
      transport[t] \in {"absent", "complete"} \/ t \in late \cup overtaken

\* A transport that is there when the agent gathers is told of its end, and a
\* call under way meanwhile does not prevent it.
ToldOfTheEnd ==
  \A t \in Transports :
    agent[t[1]] = "gathering" /\ transport[t] # "absent" ~> transport[t] = "complete"
=============================================================================
