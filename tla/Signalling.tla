----------------------------- MODULE Signalling -----------------------------
(***************************************************************************)
(* The WebRTC signalling server, simple_server.py.  One asyncio coroutine  *)
(* serves each connection; coroutines interleave at their awaits only, so  *)
(* an action is what one coroutine does from an await to the next.  Every  *)
(* await may suspend.  A message that changes nothing (one answered with   *)
(* ERROR, or ignored) is a stuttering step and has no action.              *)
(***************************************************************************)
EXTENDS Integers, FiniteSets

CONSTANTS
  Conns,      \* the connections open at once; one that has ended is reused
  Uids,       \* peer names
  Rooms,      \* room names
  NamesOf,    \* the names that the client of each connection may present
  Session,    \* the status 'session'
  Null        \* None, and an absent key

ASSUME SignallingAssumption ==
  /\ IsFiniteSet(Uids)
  /\ NamesOf \in [Conns -> SUBSET Uids]
  /\ Session \notin Rooms /\ Null \notin Rooms \cup {Session} \cup Uids \cup Conns
  /\ Null \notin [conn : Conns, status : Rooms \cup {Session, Null}]

VARIABLES
  peers,      \* each name's entry: its socket and status
  sessions,   \* each name's partner
  rooms,      \* each room's members; a room never created is one that is empty
  open,       \* the connections whose socket is open
  task,       \* each connection's coroutine: where it waits, and its locals
  crossed     \* history: the names whose session something else came across

vars == <<peers, sessions, rooms, open, task, crossed>>

Entry == [conn : Conns, status : Rooms \cup {Session, Null}]

\* Where a coroutine is suspended: receiving ("hello", "recv"), sending HELLO,
\* SESSION_OK, ROOM_OK, ROOM_PEER_JOINED, ROOM_PEER_LEFT, relaying a message, and
\* closing its partner's socket.
Waits == {"idle", "hello", "greet", "recv", "session_ok", "room_ok", "joined",
          "left", "relay", "closing"}

\* arg: the callee or the room; to: the socket being written; ws: the socket of
\* the entry being removed; seen, size: the progress of a loop over a room.
Task == [pc : Waits, uid : Uids \cup {Null}, arg : Uids \cup Rooms \cup {Null},
         to : Conns \cup {Null}, ws : Conns \cup {Null},
         seen : SUBSET Uids, size : 0..Cardinality(Uids)]

Waiting(pc, u) == [pc |-> pc, uid |-> u, arg |-> Null, to |-> Null, ws |-> Null,
                   seen |-> {}, size |-> 0]

At(c, pc) == task[c].pc = pc

\* A message can be sent to the socket in a name's entry.
Reachable(P, u) == P[u] # Null /\ P[u].conn \in open

-----------------------------------------------------------------------------
(* remove_peer, run when a handler ends for whatever reason.  P and R are  *)
(* the peers and rooms at the point where it starts.                       *)

\* The coroutine ends; its socket is closed, and so are those in gone.
End(c, gone) ==
  /\ task' = [task EXCEPT ![c] = Waiting("idle", Null)]
  /\ open' = open \ (gone \cup {c})

\* del self.peers[uid]; await ws.close().  Without the key, KeyError.
DropEntry(c, P, ws) ==
  LET u == task[c].uid IN
    /\ peers' = [P EXCEPT ![u] = Null]
    /\ End(c, IF P[u] = Null THEN {} ELSE {ws})

\* One turn of the loop of cleanup_room: ROOM_PEER_LEFT to one more member.  It
\* raises if the set changed size, the member has no entry or its socket is
\* closed; nothing catches that and the entry of the leaving peer stays.
LeftTurn(c, P, R, t) ==
  LET members == R[t.arg] IN
    \/ /\ Cardinality(members) = t.size /\ members \subseteq t.seen
       /\ DropEntry(c, P, t.ws)
    \/ /\ Cardinality(members) = t.size
       /\ \E pid \in members \ t.seen :
            /\ Reachable(P, pid)
            /\ task' = [task EXCEPT ![c] = [t EXCEPT !.to = P[pid].conn,
                                                     !.seen = @ \cup {pid}]]
       /\ peers' = P /\ UNCHANGED open
    \/ /\ \/ Cardinality(members) # t.size
          \/ \E pid \in members \ t.seen : ~Reachable(P, pid)
       /\ peers' = P /\ End(c, {})

\* remove_peer after cleanup_session.  The entry is looked up by name only.
RemoveEntry(c, P, R) ==
  LET u == task[c].uid IN
    \/ /\ P[u] = Null
       /\ peers' = P /\ rooms' = R /\ End(c, {})
    \/ /\ P[u] # Null
       /\ \A r \in Rooms : P[u].status = r => u \notin R[r]
       /\ rooms' = R /\ DropEntry(c, P, P[u].conn)
    \/ /\ P[u] # Null
       /\ \E r \in Rooms :
            /\ P[u].status = r /\ u \in R[r]
            /\ rooms' = [R EXCEPT ![r] = @ \ {u}]
            /\ LeftTurn(c, P, [R EXCEPT ![r] = @ \ {u}],
                        [Waiting("left", u) EXCEPT !.arg = r, !.ws = P[u].conn,
                                                   !.size = Cardinality(R[r] \ {u})])

\* Variant of Leave: the partner's entry is left for its own handler to remove.
LeaveKeepsPartner(c, P, R) ==
  LET u == task[c].uid
      partner == sessions[u]
  IN
    /\ sessions' = [v \in Uids |-> IF partner # Null /\ v \in {u, partner}
                                   THEN Null ELSE sessions[v]]
    /\ RemoveEntry(c, P, R)

\* cleanup_session, which may stop to close the partner's socket.
Leave(c, P, R) ==
  LET u == task[c].uid
      partner == sessions[u]
      reset == partner \notin {Null, u} /\ sessions[partner] # Null /\ P[partner] # Null
  IN
    /\ sessions' = [v \in Uids |-> IF partner # Null /\ v \in {u, partner}
                                   THEN Null ELSE sessions[v]]
    /\ \/ /\ reset
          /\ peers' = [P EXCEPT ![partner] = Null]
          /\ open' = open \ {P[partner].conn}
          /\ task' = [task EXCEPT ![c] = Waiting("closing", u)]
          /\ rooms' = R
       \/ ~reset /\ RemoveEntry(c, P, R)

\* Variant of PartnerClosed: with the session cleaned up the handler ends.
PartnerClosedEnds(c) ==
  /\ At(c, "closing")
  /\ End(c, {})
  /\ UNCHANGED <<peers, sessions, rooms>>

PartnerClosed(c) ==
  /\ At(c, "closing")
  /\ RemoveEntry(c, peers, rooms)
  /\ UNCHANGED sessions

LeftSent(c) ==
  /\ At(c, "left")
  /\ LeftTurn(c, peers, rooms, task[c])
  /\ UNCHANGED <<sessions, rooms>>

-----------------------------------------------------------------------------
(* History: what comes across a session.                                   *)

\* A coroutine of the name is in remove_peer.
Departing(u) == \E c \in Conns : task[c].uid = u /\ (At(c, "closing") \/ At(c, "left"))

\* The names that have one of these as their partner, or are the partner of one.
PartnersOf(names) ==
  {w \in Uids : sessions[w] \in names \/ \E u \in names : sessions[u] = w}

\* A session of u and v comes across another one of theirs, or across the departure
\* of one of them.
CrossedByCall(u, v) ==
  IF PartnersOf({u, v}) \subseteq {u, v} /\ ~Departing(u) /\ ~Departing(v)
  THEN crossed ELSE crossed \cup {u, v} \cup PartnersOf({u, v})

\* A new entry or a room takes the status that u had in a session.
CrossedByStatus(u) ==
  IF sessions[u] = Null THEN crossed ELSE crossed \cup {u, sessions[u]}

-----------------------------------------------------------------------------
(* hello_peer.                                                             *)

Connect(c) ==
  /\ At(c, "idle")
  /\ \A u \in Uids : peers[u] # Null => peers[u].conn # c
  /\ \A d \in Conns : c \notin {task[d].to, task[d].ws}
  /\ open' = open \cup {c}
  /\ task' = [task EXCEPT ![c] = Waiting("hello", Null)]
  /\ UNCHANGED <<peers, sessions, rooms>>

\* A name that is in use is refused; any other invalid HELLO ends likewise.
Hello(c) ==
  /\ At(c, "hello")
  /\ \/ \E u \in NamesOf[c] :
          /\ peers[u] = Null /\ c \in open
          /\ task' = [task EXCEPT ![c] = [Waiting("greet", u) EXCEPT !.to = c]]
          /\ UNCHANGED open
     \/ End(c, {})
  /\ UNCHANGED <<peers, sessions, rooms>>

\* HELLO is sent and the name registered, in use by now or not.
Register(c) ==
  /\ At(c, "greet")
  /\ peers' = [peers EXCEPT ![task[c].uid] = [conn |-> c, status |-> Null]]
  /\ task' = [task EXCEPT ![c] = Waiting("recv", task[c].uid)]
  /\ crossed' = CrossedByStatus(task[c].uid)
  /\ UNCHANGED <<sessions, rooms, open>>

-----------------------------------------------------------------------------
(* connection_handler, from a message received to the next await.          *)

\* The status that a message received on c is handled in.
HasStatus(c, status) ==
  /\ At(c, "recv")
  /\ peers[task[c].uid] # Null /\ peers[task[c].uid].status = status

\* A message queued on a socket whose entry is gone: KeyError.
Unregistered(c) ==
  /\ At(c, "recv") /\ peers[task[c].uid] = Null
  /\ Leave(c, peers, rooms)

\* A message on its way to the socket in a name's entry.
Send(c, u) ==
  /\ task' = [task EXCEPT ![c] = [Waiting("relay", @.uid) EXCEPT !.to = peers[u].conn]]
  /\ UNCHANGED <<peers, sessions, rooms, open>>

\* A message in a session goes to the partner.  It raises if there is no partner,
\* the partner has no entry or is not in a session (the assertion), or its
\* socket is closed.
Relay(c) ==
  /\ HasStatus(c, Session)
  /\ LET partner == sessions[task[c].uid]
         sendable == /\ partner # Null /\ Reachable(peers, partner)
                     /\ peers[partner].status = Session
     IN  \/ sendable /\ Send(c, partner)
         \/ ~sendable /\ Leave(c, peers, rooms)

RelaySent(c) ==
  /\ At(c, "relay")
  /\ task' = [task EXCEPT ![c] = Waiting("recv", @.uid)]
  /\ UNCHANGED <<peers, sessions, rooms, open>>

\* SESSION: the callee must be registered; whether it is busy is not asked.
SessionCommand(c, callee) ==
  /\ HasStatus(c, Null) /\ c \in open
  /\ peers[callee] # Null
  /\ task' = [task EXCEPT ![c] = [Waiting("session_ok", @.uid) EXCEPT !.arg = callee, !.to = c]]
  /\ UNCHANGED <<peers, sessions, rooms, open>>

\* SESSION or ROOM without an argument, or a message of bytes: msg.split raises, or
\* msg.startswith.
Malformed(c) ==
  /\ HasStatus(c, Null)
  /\ Leave(c, peers, rooms)

\* Variant of SessionOk: the session leads to the callee's socket.
SessionOkToSocket(c) ==
  LET u == task[c].uid
      callee == task[c].arg
  IN
    /\ At(c, "session_ok")
    /\ \/ /\ peers[u] # Null /\ peers[callee] # Null
          /\ peers' = [v \in Uids |-> IF v \in {u, callee}
                                      THEN [peers[v] EXCEPT !.status = Session] ELSE peers[v]]
          /\ sessions' = [sessions EXCEPT ![u] = peers[callee].conn]
          /\ task' = [task EXCEPT ![c] = Waiting("recv", u)]
          /\ crossed' = CrossedByCall(u, callee)
          /\ UNCHANGED <<rooms, open>>
       \/ /\ peers[u] = Null \/ peers[callee] = Null
          /\ Leave(c, peers, rooms) /\ UNCHANGED crossed

\* SESSION_OK is sent: both become partners, if both still have an entry.
SessionOk(c) ==
  LET u == task[c].uid
      callee == task[c].arg
  IN
    /\ At(c, "session_ok")
    /\ \/ /\ peers[u] # Null /\ peers[callee] # Null
          /\ peers' = [v \in Uids |-> IF v \in {u, callee}
                                      THEN [peers[v] EXCEPT !.status = Session] ELSE peers[v]]
          /\ sessions' = [[sessions EXCEPT ![u] = callee] EXCEPT ![callee] = u]
          /\ task' = [task EXCEPT ![c] = Waiting("recv", u)]
          /\ crossed' = CrossedByCall(u, callee)
          /\ UNCHANGED <<rooms, open>>
       \/ /\ peers[u] = Null \/ peers[callee] = Null
          /\ Leave(c, peers, rooms) /\ UNCHANGED crossed

\* ROOM: a member of the room who asks again fails the assertion.
RoomCommand(c, room) ==
  /\ HasStatus(c, Null)
  /\ \/ /\ task[c].uid \notin rooms[room] /\ c \in open
        /\ task' = [task EXCEPT ![c] = [Waiting("room_ok", @.uid) EXCEPT !.arg = room, !.to = c]]
        /\ UNCHANGED <<peers, sessions, rooms, open>>
     \/ /\ task[c].uid \in rooms[room]
        /\ Leave(c, peers, rooms)

\* One turn of the loop that announces a new member, ROOM_PEER_JOINED.
JoinedTurn(c, P, R, t) ==
  LET others == R[t.arg] \ {t.uid}
      sameSize == Cardinality(R[t.arg]) = t.size
  IN
    \/ /\ sameSize /\ others \subseteq t.seen
       /\ task' = [task EXCEPT ![c] = Waiting("recv", t.uid)]
       /\ peers' = P /\ rooms' = R /\ UNCHANGED <<sessions, open>>
    \/ /\ sameSize
       /\ \E pid \in others \ t.seen :
            /\ Reachable(P, pid)
            /\ task' = [task EXCEPT ![c] = [t EXCEPT !.to = P[pid].conn,
                                                     !.seen = @ \cup {pid}]]
       /\ peers' = P /\ rooms' = R /\ UNCHANGED <<sessions, open>>
    \/ /\ \/ ~sameSize
          \/ \E pid \in others \ t.seen : ~Reachable(P, pid)
       /\ Leave(c, P, R)

\* Variant of RoomOk: who finds the room empty creates it and is not added.
RoomOkCreatorOutside(c) ==
  LET u == task[c].uid
      room == task[c].arg
      R == [rooms EXCEPT ![room] = IF @ = {} THEN {} ELSE @ \cup {u}]
  IN
    /\ At(c, "room_ok")
    /\ \/ /\ peers[u] # Null
          /\ JoinedTurn(c, [peers EXCEPT ![u].status = room], R,
                        [Waiting("joined", u) EXCEPT !.arg = room, !.size = Cardinality(R[room])])
          /\ crossed' = CrossedByStatus(u)
       \/ peers[u] = Null /\ Leave(c, peers, rooms) /\ UNCHANGED crossed

\* ROOM_OK is sent: the peer enters the room, whatever its status is by now.
RoomOk(c) ==
  LET u == task[c].uid
      room == task[c].arg
      R == [rooms EXCEPT ![room] = @ \cup {u}]
  IN
    /\ At(c, "room_ok")
    /\ \/ /\ peers[u] # Null
          /\ JoinedTurn(c, [peers EXCEPT ![u].status = room], R,
                        [Waiting("joined", u) EXCEPT !.arg = room, !.size = Cardinality(R[room])])
          /\ crossed' = CrossedByStatus(u)
       \/ peers[u] = Null /\ Leave(c, peers, rooms) /\ UNCHANGED crossed

JoinedSent(c) ==
  /\ At(c, "joined")
  /\ JoinedTurn(c, peers, rooms, task[c])

\* ROOM_PEER_MSG goes to a peer of the same room, and raises if its socket is
\* closed.  Other messages in a room change nothing, except ROOM_PEER_LIST.
RoomMessage(c, pid) ==
  /\ \E r \in Rooms :
       HasStatus(c, r) /\ peers[pid] # Null /\ peers[pid].status = r
  /\ \/ Reachable(peers, pid) /\ Send(c, pid)
     \/ ~Reachable(peers, pid) /\ Leave(c, peers, rooms)

\* ROOM_PEER_LIST reads a variable that is not defined: NameError.  A message of
\* bytes, or ROOM_PEER_MSG without its arguments, ends the handler likewise.
RoomPeerList(c) ==
  /\ \E r \in Rooms : HasStatus(c, r)
  /\ Leave(c, peers, rooms)

-----------------------------------------------------------------------------
(* The connections.                                                        *)

\* The client goes away, or its keepalive ping is not answered.
Disconnect(c) ==
  /\ c \in open
  /\ open' = open \ {c}
  /\ UNCHANGED <<peers, sessions, rooms, task>>

\* Variant of Closed: the handler ends without removing the peer.
ClosedWithoutCleanup(c) ==
  /\ At(c, "recv") /\ c \notin open
  /\ End(c, {})
  /\ UNCHANGED <<peers, sessions, rooms, crossed>>

\* recv raises ConnectionClosed, once the messages queued are consumed.
Closed(c) ==
  /\ At(c, "recv") /\ c \notin open
  /\ Leave(c, peers, rooms) /\ UNCHANGED crossed

\* A send was suspended and its socket has been closed: it may raise.
SendFails(c) ==
  /\ task[c].to # Null /\ task[c].to \notin open
  /\ \/ /\ At(c, "greet") \/ At(c, "left")
        /\ End(c, {})
        /\ UNCHANGED <<peers, sessions, rooms>>
     \/ /\ At(c, "session_ok") \/ At(c, "room_ok") \/ At(c, "joined") \/ At(c, "relay")
        /\ Leave(c, peers, rooms)

-----------------------------------------------------------------------------
Init ==
  /\ peers = [u \in Uids |-> Null]
  /\ sessions = [u \in Uids |-> Null]
  /\ rooms = [r \in Rooms |-> {}]
  /\ open = {}
  /\ task = [c \in Conns |-> Waiting("idle", Null)]
  /\ crossed = {}

\* A coroutine goes on from an await other than for a message.
Resume(c) ==
  \/ Register(c) \/ SessionOk(c) \/ RoomOk(c)
  \/ /\ JoinedSent(c) \/ LeftSent(c) \/ RelaySent(c) \/ PartnerClosed(c)
     /\ UNCHANGED crossed

Receive(c) ==
  \/ Hello(c) \/ Unregistered(c) \/ Relay(c) \/ Malformed(c) \/ RoomPeerList(c)
  \/ \E pid \in Uids : RoomMessage(c, pid)
  \/ \E callee \in Uids : SessionCommand(c, callee)
  \/ \E room \in Rooms : RoomCommand(c, room)

Next ==
  \E c \in Conns :
    \/ Resume(c) \/ Closed(c)
    \/ /\ Connect(c) \/ Disconnect(c) \/ Receive(c) \/ SendFails(c)
       /\ UNCHANGED crossed

Spec == Init /\ [][Next]_vars

\* Suspended coroutines are resumed: a send completes or fails, a close ends.  A
\* closed socket has finitely many messages queued, hence strong fairness.
FairSpec ==
  /\ Spec
  /\ \A c \in Conns : WF_vars(Resume(c)) /\ SF_vars(Closed(c))

-----------------------------------------------------------------------------
(* Properties.                                                             *)

\* Type correctness of the server's dictionaries and of the coroutines' locals.
TypeOK ==
  /\ peers \in [Uids -> Entry \cup {Null}]
  /\ sessions \in [Uids -> Uids \cup {Null}]
  /\ rooms \in [Rooms -> SUBSET Uids]
  /\ open \subseteq Conns
  /\ task \in [Conns -> Task]
  /\ crossed \subseteq Uids

\* Every entry of peers belongs to a coroutine that serves its name and has not
\* ended, whose remove_peer is therefore still to come.
NoGhostPeers ==
  \A u \in Uids : peers[u] # Null =>
    task[peers[u].conn].uid = u /\ task[peers[u].conn].pc \notin {"idle", "hello", "greet"}

\* While nothing comes across it, a session is one of two peers: a peer whose status
\* is 'session' has a partner, which has it as its partner, is registered and in a
\* session as well (the assertion before a message is relayed).  Except while a
\* coroutine of its name waits for its last partner's socket to close.
PartnersPaired ==
  \A u \in Uids \ crossed : peers[u] # Null /\ peers[u].status = Session =>
    \/ \E c \in Conns : At(c, "closing") /\ task[c].uid = u
    \/ \E v \in Uids : /\ sessions[u] = v /\ sessions[v] = u
                        /\ peers[v] # Null /\ peers[v].status = Session

\* The comment on self.sessions: "Bidirectional mapping between the two peers".  It
\* is not, once another call is made by or to one of the two: SESSION asks, before it
\* suspends, whether the caller is busy, and never whether the callee is.
SessionsBidirectional ==
  \A u \in Uids : sessions[u] # Null => sessions[sessions[u]] = u

\* A connection that is closed disappears from peers.
ClosedIsForgotten ==
  \A c \in Conns : c \notin open ~> \A u \in Uids : peers[u] # Null => peers[u].conn # c

\* A peer that takes commands in a room is one of its members, whom the other
\* members' messages and departures are announced to.
MemberWhileInRoom ==
  \A c \in Conns, r \in Rooms : HasStatus(c, r) => task[c].uid \in rooms[r]
=============================================================================
