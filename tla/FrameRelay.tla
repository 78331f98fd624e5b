----------------------------- MODULE FrameRelay -----------------------------
(***************************************************************************)
(* The relay of video frames, on_buffer in udpvideo2amqp.py and content.py,*)
(* composed with the life of the streams in VideoStreams.  Each playing    *)
(* pipeline calls on_buffer from a thread of its own, once for each frame; *)
(* the message made of the frame goes through a global of content.py.      *)
(*                                                                         *)
(* A frame is abstracted to the stream it is a frame of.                   *)
(***************************************************************************)
EXTENDS VideoStreams

CONSTANTS
  Relayed   \* the streams whose frames are followed

ASSUME RelayedAssumption == Relayed \subseteq Streams

VARIABLES
  content,   \* content.message, what its properties and its body are taken from
  buffer,    \* each stream's on_buffer: not called, "made" its message, "sending" it
  message,   \* the message each on_buffer has given to its Sender, or Null
  overtaken  \* history: the streams whose message was replaced before it was taken

relayVars == <<content, buffer, message, overtaken>>

\* A message: its property sourceId and its body.
MessageOf(k) == [sourceId |-> SourceOf[k], body |-> k]

Playing(k) == parser[k] \in {"running", "adrift"}

\* Variants: the properties are set on the message there is; or a message that
\* waits to be taken is left in place.
GenerateInPlace(k) == content' = [content EXCEPT !.sourceId = SourceOf[k]]
GenerateUnlessWaiting(k) ==
  content' = IF \E j \in Relayed : buffer[j] = "made" THEN content ELSE MessageOf(k)

\* message_generator: the message is complete when the global is assigned.
Generate(k) == content' = MessageOf(k)

\* A frame arrives: on_buffer pulls it and makes its message.
OnBuffer(k) ==
  /\ Playing(k) /\ buffer[k] = "none"
  /\ Generate(k)
  /\ buffer' = [buffer EXCEPT ![k] = "made"]
  /\ overtaken' = (overtaken \cup {j \in Relayed : buffer[j] = "made"}) \ {k}
  /\ UNCHANGED message

\* The global is read again, for the Sender.
TakeMessage(k) ==
  /\ buffer[k] = "made"
  /\ message' = [message EXCEPT ![k] = content]
  /\ buffer' = [buffer EXCEPT ![k] = "sending"]
  /\ UNCHANGED <<content, overtaken>>

\* The container has run: the message was accepted, or an exception is printed
\* and the frame is lost.  The next frame may come.
SendEnds(k) ==
  /\ buffer[k] = "sending"
  /\ buffer' = [buffer EXCEPT ![k] = "none"]
  /\ message' = [message EXCEPT ![k] = Null]
  /\ UNCHANGED <<content, overtaken>>

\* A pipeline is stopped only between two frames: set_state waits for on_buffer.
EndsBetweenFrames ==
  \A k \in Relayed : parser[k] # "ended" /\ parser'[k] = "ended" => buffer[k] = "none"

RelayInit ==
  /\ Init
  /\ content = [sourceId |-> Null, body |-> Null]
  /\ buffer = [k \in Relayed |-> "none"]
  /\ message = [k \in Relayed |-> Null]
  /\ overtaken = {}

RelayNext ==
  \/ Next /\ EndsBetweenFrames /\ UNCHANGED relayVars
  \/ \E k \in Relayed : OnBuffer(k) /\ UNCHANGED vars
  \/ \E k \in Relayed : TakeMessage(k) /\ UNCHANGED vars
  \/ \E k \in Relayed : SendEnds(k) /\ UNCHANGED vars

RelaySpec == RelayInit /\ [][RelayNext]_<<vars, relayVars>>

-----------------------------------------------------------------------------
(* Properties.                                                             *)

\* However the threads interleave, a message is never a mixture of two streams:
\* its properties are those of the stream its frame is from.
MessageWhole ==
  \A k \in Relayed :
    message[k] # Null =>
      /\ message[k].body \in Relayed
      /\ message[k].sourceId = SourceOf[message[k].body]

\* "1 message per frame", but for the race: what a thread sends is its own
\* frame, unless the thread of another stream made its message in between.
OwnFrameUnlessOvertaken ==
  \A k \in Relayed :
    message[k] # Null => message[k].body = k \/ k \in overtaken
=============================================================================
