--------------------------- MODULE IceStreamProofs ---------------------------
(***************************************************************************)
(* The safety of the ICE streams for every number of streams and           *)
(* components.  The flag of a stream is what the agent has done for it;    *)
(* the transports of a finished gathering are told or still to be told.    *)
(***************************************************************************)
EXTENDS IceStream, TLAPS

\* A port range is set with the flag that keeps it from being set again, and
\* always before the agent is asked.
RangeFirst ==
  /\ \A s \in Streams : started[s] => s \in range
  /\ call # Null /\ call.pc = "start" => call.stream \in range

FlagIsAgents == \A s \in Streams : gathered[s] <=> agent[s] = "done"

SignalOfDone == \A t \in signal : agent[t[1]] = "done"

\* DoneMeansComplete while the signal is being handled.
ToldOrComplete ==
  \A t \in Transports :
    agent[t[1]] = "done" =>
      transport[t] \in {"absent", "complete"} \/ t \in late \cup overtaken \cup signal

IInv ==
  /\ TypeOK
  /\ RangeFirst /\ PortsLimited
  /\ FlagIsAgents /\ SignalOfDone
  /\ CompleteWhenGathered /\ ToldOrComplete

LEMMA InitIInv == Init => IInv
BY DEF Init, IInv, TypeOK, RangeFirst, PortsLimited, FlagIsAgents, SignalOfDone,
       CompleteWhenGathered, ToldOrComplete, Transports

LEMMA CallFields ==
  ASSUME TypeOK, call # Null
  PROVE  /\ call \in Call /\ call.stream \in Streams
         /\ call.pc \in {"announce", "limit", "start"} /\ call.todo \subseteq Components
         /\ call.todo \subseteq Present(call.stream)
BY DEF TypeOK, Call

LEMMA FindTransportIInv ==
  ASSUME IInv, NEW s \in Streams, NEW c \in Components, FindTransport(s, c)
  PROVE  IInv'
<1> DEFINE t == <<s, c>>
<1>1. t \in Transports /\ transport[t] = "absent" /\ call = Null
  BY DEF FindTransport, Present, Transports
<1>2. /\ transport' = [transport EXCEPT ![t] = "new"]
      /\ late' = IF agent[s] = "done" THEN late \cup {t} ELSE late
      /\ UNCHANGED <<gathered, started, call, signal, agent, range, overtaken>>
  BY DEF FindTransport
<1>3. TypeOK'
  BY <1>1, <1>2 DEF IInv, TypeOK
<1>4. RangeFirst' /\ PortsLimited' /\ FlagIsAgents' /\ SignalOfDone'
  BY <1>2 DEF IInv, RangeFirst, PortsLimited, FlagIsAgents, SignalOfDone
<1>5. CompleteWhenGathered'
  BY <1>1, <1>2 DEF IInv, TypeOK, CompleteWhenGathered
<1>6. ToldOrComplete'
  BY <1>1, <1>2 DEF IInv, TypeOK, ToldOrComplete
<1> QED BY <1>3, <1>4, <1>5, <1>6 DEF IInv

LEMMA GatherCandidatesIInv ==
  ASSUME IInv, NEW s \in Streams, GatherCandidates(s)
  PROVE  IInv'
<1>1. /\ call' = [stream |-> s, pc |-> "announce", todo |-> Present(s)] /\ call' \in Call
      /\ UNCHANGED <<gathered, started, transport, signal, agent, range, late, overtaken>>
  BY DEF GatherCandidates, Call, Present
<1>2. TypeOK'
  BY <1>1 DEF IInv, TypeOK, Present
<1> QED BY <1>1, <1>2 DEF IInv, RangeFirst, PortsLimited, FlagIsAgents, SignalOfDone,
                          CompleteWhenGathered, ToldOrComplete

LEMMA AnnounceIInv ==
  ASSUME IInv, NEW c \in Components, Announce(c)
  PROVE  IInv'
<1> DEFINE t == <<call.stream, c>>
<1>1. /\ call # Null /\ call \in Call /\ call.stream \in Streams /\ call.pc = "announce"
      /\ c \in call.todo /\ t \in Transports
      /\ call.todo \subseteq Present(call.stream)
  BY CallFields DEF Announce, IInv, Transports
<1>2. /\ transport' = [transport EXCEPT ![t] = "gathering"]
      /\ overtaken' = IF gathered[call.stream] THEN overtaken \cup {t} ELSE overtaken
      /\ call' = [call EXCEPT !.todo = @ \ {c}]
      /\ UNCHANGED <<gathered, started, signal, agent, range, late>>
  BY DEF Announce
<1>3. /\ call' \in Call /\ call'.stream = call.stream /\ call'.pc = "announce"
      /\ call'.todo \subseteq call.todo
  BY <1>1, <1>2 DEF Call
<1>4. \A u \in Transports : transport[u] # "absent" => transport'[u] # "absent"
  BY <1>1, <1>2 DEF IInv, TypeOK
<1>5. TypeOK'
  <2>1. (call.todo \subseteq Present(call.stream))'
    BY <1>1, <1>3, <1>4 DEF Present, Transports
  <2>2. signal' \subseteq {u \in Transports : transport'[u] # "absent"}
    BY <1>2, <1>4 DEF IInv, TypeOK
  <2>3. overtaken' \subseteq Transports
    BY <1>1, <1>2 DEF IInv, TypeOK
  <2>4. transport' \in [Transports -> {"absent", "new", "gathering", "complete"}]
    BY <1>1, <1>2 DEF IInv, TypeOK
  <2> QED BY <1>2, <1>3, <2>1, <2>2, <2>3, <2>4 DEF IInv, TypeOK
<1>6. RangeFirst' /\ PortsLimited' /\ FlagIsAgents' /\ SignalOfDone'
  BY <1>1, <1>2, <1>3 DEF IInv, RangeFirst, PortsLimited, FlagIsAgents, SignalOfDone
<1>7. CompleteWhenGathered'
  BY <1>1, <1>2 DEF IInv, TypeOK, CompleteWhenGathered
<1>8. ToldOrComplete'
  BY <1>1, <1>2 DEF IInv, TypeOK, ToldOrComplete, FlagIsAgents
<1> QED BY <1>5, <1>6, <1>7, <1>8 DEF IInv

\* The first call sets the range with the flag; to a later one both are set.
LEMMA LimitPortsIInv == IInv /\ LimitPorts => IInv'
<1> SUFFICES ASSUME IInv, LimitPorts PROVE IInv'
  OBVIOUS
<1>1. /\ call # Null /\ call \in Call /\ call.stream \in Streams /\ call.todo = {}
  BY CallFields DEF LimitPorts, IInv
<1>2. /\ range' = IF started[call.stream] THEN range ELSE range \cup {call.stream}
      /\ started' = [started EXCEPT ![call.stream] = TRUE]
      /\ call' = [call EXCEPT !.pc = "start"]
      /\ UNCHANGED <<gathered, transport, signal, agent, late, overtaken>>
  BY DEF LimitPorts
<1>3. call' \in Call /\ call'.stream = call.stream /\ call'.todo = {}
  BY <1>1, <1>2 DEF Call
<1>4. TypeOK'
  BY <1>1, <1>2, <1>3 DEF IInv, TypeOK
<1>5. call.stream \in range' /\ range \subseteq range'
  BY <1>1, <1>2 DEF IInv, RangeFirst
<1>6. RangeFirst' /\ PortsLimited'
  BY <1>1, <1>2, <1>3, <1>5 DEF IInv, TypeOK, RangeFirst, PortsLimited
<1>7. FlagIsAgents' /\ SignalOfDone' /\ CompleteWhenGathered' /\ ToldOrComplete'
  BY <1>2 DEF IInv, FlagIsAgents, SignalOfDone, CompleteWhenGathered, ToldOrComplete
<1> QED BY <1>4, <1>6, <1>7 DEF IInv

LEMMA StartAgentIInv == IInv /\ StartAgent => IInv'
<1> SUFFICES ASSUME IInv, StartAgent PROVE IInv'
  OBVIOUS
<1>1. /\ call # Null /\ call.stream \in Streams /\ call.stream \in range
      /\ call' = Null
      /\ \/ agent[call.stream] = "idle" /\ agent' = [agent EXCEPT ![call.stream] = "gathering"]
         \/ UNCHANGED agent
      /\ UNCHANGED <<gathered, started, transport, signal, range, late, overtaken>>
  BY CallFields DEF StartAgent, IInv, RangeFirst
<1>2. \A s \in Streams : agent'[s] = "done" <=> agent[s] = "done"
  BY <1>1 DEF IInv, TypeOK
<1>3. TypeOK'
  BY <1>1 DEF IInv, TypeOK
<1>4. RangeFirst' /\ PortsLimited'
  BY <1>1 DEF IInv, TypeOK, RangeFirst, PortsLimited
<1>5. FlagIsAgents' /\ SignalOfDone' /\ CompleteWhenGathered' /\ ToldOrComplete'
  BY <1>1, <1>2 DEF IInv, TypeOK, FlagIsAgents, SignalOfDone, CompleteWhenGathered,
                    ToldOrComplete, Transports
<1> QED BY <1>3, <1>4, <1>5 DEF IInv

\* The transports told are those there are; the others stay absent.
LEMMA GatheringDoneIInv ==
  ASSUME IInv, NEW s \in Streams, GatheringDone(s)
  PROVE  IInv'
<1>1. /\ agent[s] = "gathering" /\ signal = {}
      /\ agent' = [agent EXCEPT ![s] = "done"]
      /\ gathered' = [h \in Streams |-> gathered[h] \/ h = s]
      /\ signal' = {t \in Transports : t[1] = s /\ transport[t] # "absent"}
      /\ UNCHANGED <<started, transport, call, range, late, overtaken>>
  BY DEF GatheringDone, Concerned, Told, Transports
<1>2. TypeOK'
  BY <1>1 DEF IInv, TypeOK, Present
<1>3. RangeFirst' /\ PortsLimited'
  BY <1>1 DEF IInv, TypeOK, RangeFirst, PortsLimited
<1>4. FlagIsAgents' /\ SignalOfDone'
  BY <1>1 DEF IInv, TypeOK, FlagIsAgents, SignalOfDone
<1>5. CompleteWhenGathered' /\ ToldOrComplete'
  BY <1>1 DEF IInv, TypeOK, CompleteWhenGathered, ToldOrComplete, Transports
<1> QED BY <1>2, <1>3, <1>4, <1>5 DEF IInv

LEMMA CompleteIInv ==
  ASSUME IInv, NEW t \in Transports, Complete(t)
  PROVE  IInv'
<1>1. /\ t \in signal
      /\ transport' = [transport EXCEPT ![t] = "complete"]
      /\ signal' = signal \ {t}
      /\ UNCHANGED <<gathered, started, call, agent, range, late, overtaken>>
  BY DEF Complete
<1>2. \A u \in Transports : transport[u] # "absent" => transport'[u] # "absent"
  BY <1>1 DEF IInv, TypeOK
<1>3. TypeOK'
  <2>1. call # Null => call.todo \subseteq Present(call.stream)'
    BY <1>1, <1>2, CallFields DEF IInv, Present, Transports
  <2>2. signal' \subseteq {u \in Transports : transport'[u] # "absent"}
    BY <1>1, <1>2 DEF IInv, TypeOK
  <2> QED BY <1>1, <2>1, <2>2 DEF IInv, TypeOK, Present
<1>4. RangeFirst' /\ PortsLimited' /\ FlagIsAgents' /\ SignalOfDone'
  BY <1>1 DEF IInv, RangeFirst, PortsLimited, FlagIsAgents, SignalOfDone
<1>5. CompleteWhenGathered' /\ ToldOrComplete'
  BY <1>1 DEF IInv, TypeOK, SignalOfDone, CompleteWhenGathered, ToldOrComplete
<1> QED BY <1>3, <1>4, <1>5 DEF IInv

LEMMA NextIInv == IInv /\ [Next]_vars => IInv'
<1>1. IInv /\ UNCHANGED vars => IInv'
  BY DEF vars, IInv, TypeOK, Present, RangeFirst, PortsLimited, FlagIsAgents,
         SignalOfDone, CompleteWhenGathered, ToldOrComplete
<1> QED
  BY <1>1, FindTransportIInv, GatherCandidatesIInv, AnnounceIInv, LimitPortsIInv,
     StartAgentIInv, GatheringDoneIInv, CompleteIInv
  DEF Next, AgentStep

THEOREM Invariance == Spec => []IInv
BY InitIInv, NextIInv, PTL DEF Spec

\* The flags, transports and locals of both threads are well formed, and what is
\* announced or told is a transport that exists.
THEOREM TypeCorrect == Spec => []TypeOK
<1>1. IInv => TypeOK
  BY DEF IInv
<1> QED BY <1>1, Invariance, PTL

\* No stream ever gathers from ports outside the range, however its calls and
\* those of the other streams interleave with the agent and fail.
THEOREM PortsAlwaysLimited == Spec => []PortsLimited
<1>1. IInv => PortsLimited
  BY DEF IInv
<1> QED BY <1>1, Invariance, PTL

\* A signal completes the transports of the stream it is about only.
THEOREM OwnSignalOnly == Spec => []CompleteWhenGathered
<1>1. IInv => CompleteWhenGathered
  BY DEF IInv
<1> QED BY <1>1, Invariance, PTL

\* Once the signal is handled, all transports of a gathered stream are complete,
\* but for those made later and those that a call under way put back.
THEOREM GatheredIsComplete == Spec => []DoneMeansComplete
<1>1. IInv => DoneMeansComplete
  BY DEF IInv, ToldOrComplete, DoneMeansComplete
<1> QED BY <1>1, Invariance, PTL
=============================================================================
