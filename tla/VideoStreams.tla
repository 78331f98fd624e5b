---------------------------- MODULE VideoStreams ----------------------------
(***************************************************************************)
(* The video stream manager, amqp_manager.py and udpvideo2amqp.py: one     *)
(* thread consumes the newdataflow topic and registers streams, another    *)
(* consumes terminatedataflow and retires them.  They share five parallel  *)
(* lists without a lock; each list operation is one action.                *)
(*                                                                         *)
(* A stream stands for one "new" message and for all that is made from it: *)
(* its source id, port, frame rate, parser object and WebRTC process.      *)
(*                                                                         *)
(* Messages carry the properties that on_message reads.  An exception over *)
(* a missing one comes before the first append or the search, leaves the   *)
(* lists as they are and ends the thread: what follows are the behaviours  *)
(* in which the thread takes no further message, which Spec contains.      *)
(***************************************************************************)
EXTENDS Integers, Sequences, SequencesExt

CONSTANTS
  Streams,    \* the "new" messages, each consumed once
  Sources,    \* values of the property sourceId
  SourceOf,   \* the sourceId of each "new" message
  Null

\* The lists, in the order on_message appends to them and deletes from them.
Lists == {"parsers", "ids", "ports", "prxs", "framerates"}
AppendRank == [parsers |-> 1, ids |-> 2, ports |-> 3, prxs |-> 4, framerates |-> 5]
DeleteRank == [parsers |-> 1, ids |-> 2, prxs |-> 3, ports |-> 4, framerates |-> 5]

VARIABLES
  list,       \* the five lists: each element written as the stream it is made from
  new,        \* the message the newdataflow thread is handling, or Null
  term,       \* the message the terminatedataflow thread is handling, or Null
  parser,     \* each stream's UDP2AMQP thread
  killed,     \* the streams whose parser has its _kill event set
  receivers,  \* the streams with a webrtcRX process
  registry    \* history: the streams registered and not retired, in order

vars == <<list, new, term, parser, killed, receivers, registry>>

\* "adrift": the Python thread is gone, its GStreamer pipeline is still playing.
ParserStates == {"none", "created", "running", "adrift", "ended"}

NewRecord == [pc : {"append", "start", "dead"}, stream : Streams, done : 1..5]

TermRecord == [pc : {"kill", "delete", "dead"}, wanted : Sources, index : Nat \ {0},
               victim : Streams \cup {Null}, done : 0..4]

NewAt(pc) == new # Null /\ new.pc = pc
TermAt(pc) == term # Null /\ term.pc = pc

ASSUME StreamsAssumption ==
  /\ SourceOf \in [Streams -> Sources]
  /\ Null \notin Streams /\ Null \notin NewRecord /\ Null \notin TermRecord

-----------------------------------------------------------------------------
(* The newdataflow thread.                                                 *)

\* Variant of NewMessage: the newest parser goes to the front of its list.
NewMessageInFront(k) ==
  /\ new = Null /\ parser[k] = "none"
  /\ parser' = [parser EXCEPT ![k] = "created"]
  /\ list' = [list EXCEPT !["parsers"] = <<k>> \o @]
  /\ registry' = Append(registry, k)
  /\ new' = [pc |-> "append", stream |-> k, done |-> 1]
  /\ UNCHANGED <<term, killed, receivers>>

\* A parser object is made for the message and appended to its list.
NewMessage(k) ==
  /\ new = Null /\ parser[k] = "none"
  /\ parser' = [parser EXCEPT ![k] = "created"]
  /\ list' = [list EXCEPT !["parsers"] = Append(@, k)]
  /\ registry' = Append(registry, k)
  /\ new' = [pc |-> "append", stream |-> k, done |-> 1]
  /\ UNCHANGED <<term, killed, receivers>>

\* Popen comes between the first append and the second; if it raises, the
\* exception leaves on_message and ends the thread.
LaunchReceiver ==
  /\ NewAt("append") /\ new.done = 1
  /\ \/ /\ receivers' = receivers \cup {new.stream}
        /\ list' = [list EXCEPT !["ids"] = Append(@, new.stream)]
        /\ new' = [new EXCEPT !.done = 2]
     \/ /\ new' = [new EXCEPT !.pc = "dead"]
        /\ UNCHANGED <<list, receivers>>
  /\ UNCHANGED <<term, parser, killed, registry>>

\* Variant of AppendNext: the frame rate is read and not kept.
AppendAllButFramerate(x) ==
  /\ NewAt("append") /\ new.done > 1 /\ AppendRank[x] = new.done + 1
  /\ list' = IF x = "framerates" THEN list ELSE [list EXCEPT ![x] = Append(@, new.stream)]
  /\ new' = [new EXCEPT !.done = @ + 1,
                          !.pc = IF x = "framerates" THEN "start" ELSE "append"]
  /\ UNCHANGED <<term, parser, killed, receivers, registry>>

AppendNext(x) ==
  /\ NewAt("append") /\ new.done > 1 /\ AppendRank[x] = new.done + 1
  /\ list' = [list EXCEPT ![x] = Append(@, new.stream)]
  /\ new' = [new EXCEPT !.done = @ + 1,
                          !.pc = IF x = "framerates" THEN "start" ELSE "append"]
  /\ UNCHANGED <<term, parser, killed, receivers, registry>>

\* After a second's sleep, whatever has become of the stream meanwhile.
StartParser ==
  /\ NewAt("start")
  /\ parser' = [parser EXCEPT ![new.stream] = "running"]
  /\ new' = Null
  /\ UNCHANGED <<list, term, killed, receivers, registry>>

-----------------------------------------------------------------------------
(* The terminatedataflow thread.                                           *)

\* Variant of TerminateMessage: a source without a stream gets the index before
\* the first, as from a search that does not raise.
TerminateUnchecked(s) ==
  /\ term = Null
  /\ LET matches == {i \in DOMAIN list["ids"] : SourceOf[list["ids"][i]] = s} IN
       term' = [pc |-> "kill", wanted |-> s, victim |-> Null, done |-> 0,
                index |-> IF matches = {} THEN 0 ELSE CHOOSE i \in matches :
                                                        \A j \in matches : i <= j]
  /\ UNCHANGED <<list, new, parser, killed, receivers, registry>>

\* ids.index(sourceId), the first match; without one, ValueError ends the thread.
TerminateMessage(s) ==
  /\ term = Null
  /\ LET matches == {i \in DOMAIN list["ids"] : SourceOf[list["ids"][i]] = s} IN
       \/ /\ matches # {}
          /\ \E i \in matches :
               /\ \A j \in matches : i <= j
               /\ term' = [pc |-> "kill", wanted |-> s, index |-> i,
                           victim |-> Null, done |-> 0]
       \/ /\ matches = {}
          /\ term' = [pc |-> "dead", wanted |-> s, index |-> 1,
                      victim |-> Null, done |-> 0]
  /\ UNCHANGED <<list, new, parser, killed, receivers, registry>>

\* parsers[index].kill() sets the event; then the thread sleeps for a second.
KillParser ==
  /\ TermAt("kill")
  /\ LET victim == list["parsers"][term.index] IN
       /\ killed' = killed \cup {victim}
       /\ term' = [term EXCEPT !.pc = "delete", !.victim = victim]
  /\ UNCHANGED <<list, new, parser, receivers, registry>>

\* Variant of DeleteNext: the oldest entries are dropped, as from a queue.
DeleteOldest(x) ==
  /\ TermAt("delete") /\ DeleteRank[x] = term.done + 1
  /\ \/ /\ term.index <= Len(list[x])
        /\ list' = [list EXCEPT ![x] = Tail(@)]
        /\ term' = IF term.done = 4 THEN Null ELSE [term EXCEPT !.done = @ + 1]
        /\ registry' = IF term.done = 4 THEN RemoveAt(registry, term.index) ELSE registry
     \/ /\ term.index > Len(list[x])
        /\ term' = [term EXCEPT !.pc = "dead"]
        /\ UNCHANGED <<list, registry>>
  /\ UNCHANGED <<new, parser, killed, receivers>>

\* del x[index]; past the end of x, IndexError ends the thread.  With the last
\* deletion the stream is retired.
DeleteNext(x) ==
  /\ TermAt("delete") /\ DeleteRank[x] = term.done + 1
  /\ \/ /\ term.index <= Len(list[x])
        /\ list' = [list EXCEPT ![x] = RemoveAt(@, term.index)]
        /\ term' = IF term.done = 4 THEN Null ELSE [term EXCEPT !.done = @ + 1]
        /\ registry' = IF term.done = 4 THEN RemoveAt(registry, term.index) ELSE registry
     \/ /\ term.index > Len(list[x])
        /\ term' = [term EXCEPT !.pc = "dead"]
        /\ UNCHANGED <<list, registry>>
  /\ UNCHANGED <<new, parser, killed, receivers>>

-----------------------------------------------------------------------------
(* A parser's main loop.  It looks at the bus and never at _kill.          *)

\* The pipeline's own state change runs into a name that is not defined: the
\* thread dies of it and the pipeline goes on playing.
BusStateChanged(k) ==
  /\ parser[k] = "running"
  /\ parser' = [parser EXCEPT ![k] = "adrift"]
  /\ UNCHANGED <<list, new, term, killed, receivers, registry>>

\* An error or the end of the stream stops the pipeline.
BusEnds(k) ==
  /\ parser[k] = "running"
  /\ parser' = [parser EXCEPT ![k] = "ended"]
  /\ UNCHANGED <<list, new, term, killed, receivers, registry>>

-----------------------------------------------------------------------------
Init ==
  /\ list = [x \in Lists |-> <<>>]
  /\ new = Null /\ term = Null
  /\ parser = [k \in Streams |-> "none"]
  /\ killed = {} /\ receivers = {} /\ registry = <<>>

NewThread == LaunchReceiver \/ (\E x \in Lists : AppendNext(x)) \/ StartParser

TermThread == KillParser \/ \E x \in Lists : DeleteNext(x)

Next ==
  \/ \E k \in Streams : NewMessage(k)
  \/ NewThread
  \/ \E s \in Sources : TerminateMessage(s)
  \/ TermThread
  \/ \E k \in Streams : BusStateChanged(k) \/ BusEnds(k)

Spec == Init /\ [][Next]_vars

\* Threads that can take a step do: the reactors' threads, and the parser loops,
\* whose bus always gets to report the pipeline's change of state.
FairSpec ==
  /\ Spec
  /\ WF_vars(NewThread) /\ WF_vars(TermThread)
  /\ \A k \in Streams : WF_vars(BusStateChanged(k))

-----------------------------------------------------------------------------
(* Properties.                                                             *)

\* Type correctness of the lists and of the two threads' locals.
TypeOK ==
  /\ list \in [Lists -> Seq(Streams)]
  /\ new \in NewRecord \cup {Null}
  /\ term \in TermRecord \cup {Null}
  /\ parser \in [Streams -> ParserStates]
  /\ killed \subseteq Streams /\ receivers \subseteq Streams
  /\ registry \in Seq(Streams)

\* While neither thread is handling a message, the five lists have the same
\* length and each position describes one stream in all of them.
AlignedWhenIdle ==
  new = Null /\ term = Null => \A x \in Lists : list[x] = registry

\* The parser that is told to stop is one of the source named in the message,
\* although it is found by its position in another list than the source was.
VictimIsRequested ==
  TermAt("delete") => SourceOf[term.victim] = term.wanted

\* Whatever the other thread appends in between, a deletion takes from every
\* list the element of the stream whose parser was told to stop.
DeletesOnlyVictim ==
  [][\A x \in Lists :
       Len(list'[x]) < Len(list[x]) =>
         /\ TermAt("delete") /\ list[x][term.index] = term.victim
         /\ list'[x] = RemoveAt(list[x], term.index)]_vars

\* A message for a source with a registered stream retires one: the thread ends of
\* an exception only if the source has no stream, no more or not yet, or if it has
\* found one that the other thread is still at.  So a duplicated or early message
\* does end it, but no change of the lists under its index does.
RetiresTheRegistered ==
  [][term' # term /\ TermAt("dead")' =>
       \/ /\ TermAt("delete")
          /\ new # Null /\ new.stream = term.victim
       \/ /\ term = Null
          /\ \A i \in DOMAIN registry :
               SourceOf[registry[i]] = term'.wanted => new # Null /\ new.stream = registry[i]]_vars

\* The parser of a stream told to stop stops sending frames.
KilledStops ==
  \A k \in Streams : k \in killed ~> parser[k] \notin {"running", "adrift"}
=============================================================================
