-------------------------- MODULE SignallingProofs --------------------------
(***************************************************************************)
(* The signalling server for any number of connections, names and rooms:   *)
(* its dictionaries against the coroutines that will clean them up.        *)
(***************************************************************************)
EXTENDS Signalling, FiniteSetTheorems, TLAPS

-----------------------------------------------------------------------------
(* Type correctness.                                                       *)

\* What a coroutine's locals hold follows from where it waits.
Locals(t) ==
  /\ t.pc \in {"idle", "hello"} \/ t.uid \in Uids
  /\ t.pc = "session_ok" => t.arg \in Uids
  /\ t.pc \in {"room_ok", "joined", "left"} => t.arg \in Rooms

TasksOK ==
  /\ open \subseteq Conns
  /\ task \in [Conns -> Task]
  /\ \A c \in Conns : Locals(task[c])

PeersType == [Uids -> Entry \cup {Null}]
RoomsType == [Rooms -> SUBSET Uids]
SessionsType == [Uids -> Uids \cup {Null}]

TypeInv ==
  /\ peers \in PeersType
  /\ sessions \in SessionsType
  /\ rooms \in RoomsType
  /\ TasksOK

\* The number of a set of names is one a coroutine's size can hold.
LEMMA SizeType ==
  ASSUME NEW U \in SUBSET Uids
  PROVE  Cardinality(U) \in 0..Cardinality(Uids)
BY SignallingAssumption, FS_Subset, FS_CardinalityType

LEMMA WaitingType ==
  ASSUME NEW pc \in Waits, NEW u \in Uids \cup {Null}
  PROVE  Waiting(pc, u) \in Task
<1>1. 0 \in 0..Cardinality(Uids)
  BY SignallingAssumption, FS_CardinalityType
<1> QED BY <1>1 DEF Waiting, Task

LEMMA TaskReplaced ==
  ASSUME TasksOK, NEW c \in Conns, NEW t \in Task, Locals(t),
         task' = [task EXCEPT ![c] = t], open' \subseteq Conns
  PROVE  TasksOK'
BY DEF TasksOK, Locals

LEMMA EndTyped ==
  ASSUME TasksOK, NEW c \in Conns, NEW gone, End(c, gone)
  PROVE  TasksOK'
<1>1. PICK t : t = Waiting("idle", Null)
  OBVIOUS
<1>2. t \in Task /\ t.pc = "idle"
  BY <1>1, WaitingType DEF Waits, Waiting
<1>3. task' = [task EXCEPT ![c] = t] /\ open' \subseteq Conns
  BY <1>1 DEF End, TasksOK
<1> QED BY <1>2, <1>3, TaskReplaced DEF Locals

LEMMA DropEntryTyped ==
  ASSUME TasksOK, NEW c \in Conns, NEW P \in PeersType, NEW ws, DropEntry(c, P, ws)
  PROVE  TasksOK' /\ peers' \in PeersType
<1>1. PICK u : u = task[c].uid
  OBVIOUS
<1>2. peers' = [P EXCEPT ![u] = Null]
  BY <1>1 DEF DropEntry
<1>3. peers' \in PeersType
  BY <1>2 DEF PeersType
<1>4. PICK gone : End(c, gone)
  BY DEF DropEntry
<1> QED BY <1>3, <1>4, EndTyped

LEMMA LeftTurnTyped ==
  ASSUME TasksOK, NEW c \in Conns, NEW P \in PeersType, NEW R \in RoomsType,
         NEW t \in Task, t.pc = "left", t.uid \in Uids, t.arg \in Rooms,
         LeftTurn(c, P, R, t)
  PROVE  TasksOK' /\ peers' \in PeersType
<1>1. CASE DropEntry(c, P, t.ws)
  BY <1>1, DropEntryTyped
<1>2. CASE /\ \E pid \in R[t.arg] \ t.seen :
                /\ Reachable(P, pid)
                /\ task' = [task EXCEPT ![c] = [t EXCEPT !.to = P[pid].conn,
                                                         !.seen = @ \cup {pid}]]
           /\ peers' = P /\ UNCHANGED open
  <2>1. PICK pid \in R[t.arg] \ t.seen :
          /\ Reachable(P, pid)
          /\ task' = [task EXCEPT ![c] = [t EXCEPT !.to = P[pid].conn,
                                                   !.seen = @ \cup {pid}]]
    BY <1>2
  <2>2. pid \in Uids
    BY DEF RoomsType
  <2>3. P[pid].conn \in Conns
    BY <2>1, <2>2 DEF Reachable, PeersType, Entry
  <2>4. PICK s : s = [t EXCEPT !.to = P[pid].conn, !.seen = @ \cup {pid}]
    OBVIOUS
  <2>5. s \in Task /\ s.pc = "left" /\ s.uid = t.uid /\ s.arg = t.arg
    BY <2>2, <2>3, <2>4 DEF Task
  <2>6. Locals(s)
    BY <2>5 DEF Locals
  <2>7. task' = [task EXCEPT ![c] = s] /\ open' \subseteq Conns
    BY <1>2, <2>1, <2>4 DEF TasksOK
  <2> QED BY <1>2, <2>5, <2>6, <2>7, TaskReplaced
<1>3. CASE peers' = P /\ End(c, {})
  BY <1>3, EndTyped
<1> QED BY <1>1, <1>2, <1>3 DEF LeftTurn

\* The record that RemoveEntry begins its announcements with.
Announcing(u, room, ws, size) ==
  [Waiting("left", u) EXCEPT !.arg = room, !.ws = ws, !.size = size]

LEMMA AnnouncingType ==
  ASSUME NEW u \in Uids, NEW room \in Rooms, NEW ws \in Conns,
         NEW size \in 0..Cardinality(Uids)
  PROVE  /\ Announcing(u, room, ws, size) \in Task
         /\ Announcing(u, room, ws, size).pc = "left"
         /\ Announcing(u, room, ws, size).uid = u
         /\ Announcing(u, room, ws, size).arg = room
BY DEF Announcing, Waiting, Task, Waits

LEMMA RemoveEntryTyped ==
  ASSUME TasksOK, NEW c \in Conns, task[c].uid \in Uids,
         NEW P \in PeersType, NEW R \in RoomsType, RemoveEntry(c, P, R)
  PROVE  TasksOK' /\ peers' \in PeersType /\ rooms' \in RoomsType
<1>1. PICK u \in Uids : u = task[c].uid
  OBVIOUS
<1>2. CASE peers' = P /\ rooms' = R /\ End(c, {})
  BY <1>2, EndTyped
<1>3. CASE rooms' = R /\ DropEntry(c, P, P[u].conn)
  BY <1>3, DropEntryTyped
<1>4. CASE P[u] # Null /\ \E r \in Rooms :
             /\ P[u].status = r /\ u \in R[r]
             /\ rooms' = [R EXCEPT ![r] = @ \ {u}]
             /\ LeftTurn(c, P, [R EXCEPT ![r] = @ \ {u}],
                         Announcing(u, r, P[u].conn, Cardinality(R[r] \ {u})))
  <2>1. PICK r \in Rooms :
          /\ rooms' = [R EXCEPT ![r] = @ \ {u}]
          /\ LeftTurn(c, P, [R EXCEPT ![r] = @ \ {u}],
                      Announcing(u, r, P[u].conn, Cardinality(R[r] \ {u})))
    BY <1>4
  <2>2. PICK S : S = [R EXCEPT ![r] = @ \ {u}]
    OBVIOUS
  <2>3. S \in RoomsType
    BY <2>2 DEF RoomsType
  <2>4. P[u].conn \in Conns
    BY <1>4 DEF PeersType, Entry
  <2>5. PICK t : t = Announcing(u, r, P[u].conn, Cardinality(R[r] \ {u}))
    OBVIOUS
  <2>6. Cardinality(R[r] \ {u}) \in 0..Cardinality(Uids)
    BY SizeType DEF RoomsType
  <2>7. t \in Task /\ t.pc = "left" /\ t.uid = u /\ t.arg = r
    BY <2>4, <2>5, <2>6, AnnouncingType
  <2>8. LeftTurn(c, P, S, t)
    BY <2>1, <2>2, <2>5
  <2>9. TasksOK' /\ peers' \in PeersType
    BY <2>3, <2>7, <2>8, LeftTurnTyped
  <2> QED BY <2>1, <2>2, <2>3, <2>9
<1> QED BY <1>1, <1>2, <1>3, <1>4 DEF RemoveEntry, Announcing

\* cleanup_session in the abstract: what it makes of the sessions.
SessionReset(u) ==
  [v \in Uids |-> IF sessions[u] # Null /\ v \in {u, sessions[u]} THEN Null ELSE sessions[v]]

LEMMA LeaveTyped ==
  ASSUME TasksOK, sessions \in SessionsType, NEW c \in Conns, task[c].uid \in Uids,
         NEW P \in PeersType, NEW R \in RoomsType, Leave(c, P, R)
  PROVE  /\ TasksOK' /\ peers' \in PeersType /\ rooms' \in RoomsType
         /\ sessions' \in SessionsType
<1>1. PICK u \in Uids : u = task[c].uid
  OBVIOUS
<1>2. sessions' = SessionReset(u)
  BY <1>1 DEF Leave, SessionReset
<1>3. sessions' \in SessionsType
  BY <1>2 DEF SessionReset, SessionsType
<1>4. CASE RemoveEntry(c, P, R)
  BY <1>3, <1>4, RemoveEntryTyped
<1>5. CASE /\ peers' = [P EXCEPT ![sessions[u]] = Null]
           /\ open' = open \ {P[sessions[u]].conn}
           /\ task' = [task EXCEPT ![c] = Waiting("closing", u)]
           /\ rooms' = R
  <2>1. PICK t : t = Waiting("closing", u)
    OBVIOUS
  <2>2. t \in Task /\ t.pc = "closing" /\ t.uid = u
    BY <2>1, WaitingType DEF Waits, Waiting
  <2>3. TasksOK'
    <3>1. Locals(t)
      BY <2>2 DEF Locals
    <3>2. open' \subseteq Conns
      BY <1>5 DEF TasksOK
    <3> QED BY <1>5, <2>1, <2>2, <3>1, <3>2, TaskReplaced
  <2>4. peers' \in PeersType
    BY <1>5 DEF PeersType
  <2> QED BY <1>3, <1>5, <2>3, <2>4
<1> QED BY <1>1, <1>4, <1>5 DEF Leave

LEMMA JoinedTurnTyped ==
  ASSUME TasksOK, sessions \in SessionsType, NEW c \in Conns, task[c].uid \in Uids,
         NEW P \in PeersType, NEW R \in RoomsType,
         NEW t \in Task, t.pc = "joined", t.uid \in Uids, t.arg \in Rooms,
         JoinedTurn(c, P, R, t)
  PROVE  /\ TasksOK' /\ peers' \in PeersType /\ rooms' \in RoomsType
         /\ sessions' \in SessionsType
<1>1. CASE /\ task' = [task EXCEPT ![c] = Waiting("recv", t.uid)]
           /\ peers' = P /\ rooms' = R /\ UNCHANGED <<sessions, open>>
  <2>1. PICK s : s = Waiting("recv", t.uid)
    OBVIOUS
  <2>2. s \in Task /\ Locals(s)
    BY <2>1, WaitingType DEF Waits, Waiting, Locals
  <2>3. task' = [task EXCEPT ![c] = s] /\ open' \subseteq Conns
    BY <1>1, <2>1 DEF TasksOK
  <2> QED BY <1>1, <2>2, <2>3, TaskReplaced
<1>2. CASE /\ \E pid \in (R[t.arg] \ {t.uid}) \ t.seen :
                /\ Reachable(P, pid)
                /\ task' = [task EXCEPT ![c] = [t EXCEPT !.to = P[pid].conn,
                                                         !.seen = @ \cup {pid}]]
           /\ peers' = P /\ rooms' = R /\ UNCHANGED <<sessions, open>>
  <2>1. PICK pid \in (R[t.arg] \ {t.uid}) \ t.seen :
          /\ Reachable(P, pid)
          /\ task' = [task EXCEPT ![c] = [t EXCEPT !.to = P[pid].conn,
                                                   !.seen = @ \cup {pid}]]
    BY <1>2
  <2>2. pid \in Uids
    BY DEF RoomsType
  <2>3. P[pid].conn \in Conns
    BY <2>1, <2>2 DEF Reachable, PeersType, Entry
  <2>4. PICK s : s = [t EXCEPT !.to = P[pid].conn, !.seen = @ \cup {pid}]
    OBVIOUS
  <2>5. s \in Task /\ s.pc = "joined" /\ s.uid = t.uid /\ s.arg = t.arg
    BY <2>2, <2>3, <2>4 DEF Task
  <2>6. Locals(s)
    BY <2>5 DEF Locals
  <2>7. task' = [task EXCEPT ![c] = s] /\ open' \subseteq Conns
    BY <1>2, <2>1, <2>4 DEF TasksOK
  <2> QED BY <1>2, <2>5, <2>6, <2>7, TaskReplaced
<1>3. CASE Leave(c, P, R)
  BY <1>3, LeaveTyped
<1> QED BY <1>1, <1>2, <1>3 DEF JoinedTurn

LEMMA StartTyped ==
  ASSUME TypeInv, NEW c \in Conns, Connect(c) \/ Hello(c) \/ Register(c) \/ Disconnect(c)
  PROVE  TypeInv'
<1>1. CASE Connect(c)
  <2>1. PICK t : t = Waiting("hello", Null)
    OBVIOUS
  <2>2. t \in Task /\ Locals(t)
    BY <2>1, WaitingType DEF Waits, Waiting, Locals
  <2>3. task' = [task EXCEPT ![c] = t] /\ open' \subseteq Conns
    BY <1>1, <2>1 DEF Connect, TypeInv, TasksOK
  <2>4. TasksOK'
    BY <2>2, <2>3, TaskReplaced DEF TypeInv
  <2> QED BY <1>1, <2>4 DEF Connect, TypeInv
<1>2. CASE Hello(c)
  <2>1. ASSUME NEW u \in NamesOf[c], c \in open, UNCHANGED open,
               task' = [task EXCEPT ![c] = [Waiting("greet", u) EXCEPT !.to = c]]
        PROVE  TasksOK'
    <3>0. u \in Uids
      BY SignallingAssumption
    <3>1. PICK s : s = Waiting("greet", u)
      OBVIOUS
    <3>2. PICK t : t = [s EXCEPT !.to = c]
      OBVIOUS
    <3>3. s \in Task /\ s.uid = u /\ s.pc = "greet"
      BY <3>0, <3>1, WaitingType DEF Waits, Waiting
    <3>4. t \in Task /\ Locals(t)
      BY <3>0, <3>2, <3>3 DEF Task, Locals
    <3>5. task' = [task EXCEPT ![c] = t] /\ open' \subseteq Conns
      BY <2>1, <3>1, <3>2 DEF TypeInv, TasksOK
    <3> QED BY <3>4, <3>5, TaskReplaced DEF TypeInv
  <2>2. TasksOK'
    BY <1>2, <2>1, EndTyped DEF Hello, TypeInv
  <2> QED BY <1>2, <2>2 DEF Hello, TypeInv
<1>3. CASE Register(c)
  <2>1. PICK u : u = task[c].uid
    OBVIOUS
  <2>2. u \in Uids /\ At(c, "greet")
    BY <1>3, <2>1 DEF Register, At, TypeInv, TasksOK, Locals
  <2>3. PICK e : e = [conn |-> c, status |-> Null]
    OBVIOUS
  <2>4. e \in Entry
    BY <2>3 DEF Entry
  <2>5. peers' = [peers EXCEPT ![u] = e]
    BY <1>3, <2>1, <2>3 DEF Register
  <2>6. peers' \in PeersType
    BY <2>2, <2>4, <2>5 DEF TypeInv, PeersType
  <2>7. PICK t : t = Waiting("recv", u)
    OBVIOUS
  <2>8. t \in Task /\ Locals(t)
    BY <2>2, <2>7, WaitingType DEF Waits, Waiting, Locals
  <2>9. task' = [task EXCEPT ![c] = t] /\ open' \subseteq Conns
    BY <1>3, <2>1, <2>7 DEF Register, TypeInv, TasksOK
  <2>10. TasksOK'
    BY <2>8, <2>9, TaskReplaced DEF TypeInv
  <2> QED BY <1>3, <2>6, <2>10 DEF Register, TypeInv
<1>4. CASE Disconnect(c)
  BY <1>4 DEF Disconnect, TypeInv, TasksOK
<1> QED BY <1>1, <1>2, <1>3, <1>4

\* A coroutine that has a name to serve.
LEMMA ServesName ==
  ASSUME TypeInv, NEW c \in Conns, task[c].pc \notin {"idle", "hello"}
  PROVE  task[c].uid \in Uids
BY DEF TypeInv, TasksOK, Locals

\* Leaving, with the dictionaries as they are.
LEMMA LeavesTyped ==
  ASSUME TypeInv, NEW c \in Conns, task[c].uid \in Uids, Leave(c, peers, rooms)
  PROVE  TypeInv'
BY LeaveTyped DEF TypeInv

LEMMA SendTyped ==
  ASSUME TypeInv, NEW c \in Conns, NEW u \in Uids, task[c].uid \in Uids,
         Reachable(peers, u), Send(c, u)
  PROVE  TypeInv'
<1>1. peers[u].conn \in Conns
  BY DEF Reachable, TypeInv, PeersType, Entry
<1>2. PICK s, name : name = task[c].uid /\ s = Waiting("relay", name)
  OBVIOUS
<1>3. PICK t : t = [s EXCEPT !.to = peers[u].conn]
  OBVIOUS
<1>4. s \in Task /\ s.uid \in Uids /\ s.pc = "relay"
  BY <1>2, WaitingType DEF Waits, Waiting
<1>5. t \in Task /\ Locals(t)
  BY <1>1, <1>3, <1>4 DEF Task, Locals
<1>6. task' = [task EXCEPT ![c] = t] /\ open' \subseteq Conns
  BY <1>2, <1>3 DEF Send, TypeInv, TasksOK
<1>7. TasksOK'
  BY <1>5, <1>6, TaskReplaced DEF TypeInv
<1> QED BY <1>7 DEF Send, TypeInv

LEMMA ReceiveTyped ==
  ASSUME TypeInv, NEW c \in Conns, At(c, "recv"), task[c].uid \in Uids,
         \/ Unregistered(c) \/ Relay(c) \/ Malformed(c) \/ RoomPeerList(c) \/ Closed(c)
         \/ \E pid \in Uids : RoomMessage(c, pid)
         \/ \E callee \in Uids : SessionCommand(c, callee)
         \/ \E room \in Rooms : RoomCommand(c, room)
  PROVE  TypeInv'
<1>1. CASE Leave(c, peers, rooms)
  BY <1>1, LeavesTyped
<1>2. CASE \E u \in Uids : Reachable(peers, u) /\ Send(c, u)
  BY <1>2, SendTyped
<1>3. ASSUME NEW pc \in {"session_ok", "room_ok"}, NEW arg \in Uids \cup Rooms,
             pc = "session_ok" => arg \in Uids, pc = "room_ok" => arg \in Rooms,
             task' = [task EXCEPT ![c] = [Waiting(pc, task[c].uid) EXCEPT !.arg = arg, !.to = c]],
             UNCHANGED <<peers, sessions, rooms, open>>
      PROVE  TypeInv'
  <2>1. PICK s, u : u = task[c].uid /\ s = Waiting(pc, u)
    OBVIOUS
  <2>2. PICK t : t = [s EXCEPT !.arg = arg, !.to = c]
    OBVIOUS
  <2>3. s \in Task /\ s.uid \in Uids /\ s.pc = pc
    BY <2>1, WaitingType DEF Waits, Waiting
  <2>4. t \in Task /\ t.pc = pc /\ t.uid \in Uids /\ t.arg = arg
    BY <2>2, <2>3 DEF Task
  <2>5. Locals(t)
    BY <1>3, <2>4 DEF Locals
  <2>6. task' = [task EXCEPT ![c] = t] /\ open' \subseteq Conns
    BY <1>3, <2>1, <2>2 DEF TypeInv, TasksOK
  <2>7. TasksOK'
    BY <2>4, <2>5, <2>6, TaskReplaced DEF TypeInv
  <2> QED BY <1>3, <2>7 DEF TypeInv
<1>4. CASE \E callee \in Uids : SessionCommand(c, callee)
  BY <1>3, <1>4 DEF SessionCommand
<1>5. CASE \E room \in Rooms : RoomCommand(c, room)
  BY <1>1, <1>3, <1>5 DEF RoomCommand
<1>6. CASE Relay(c)
  <2>1. sessions[task[c].uid] # Null => sessions[task[c].uid] \in Uids
    BY DEF TypeInv, SessionsType
  <2> QED BY <1>1, <1>2, <1>6, <2>1 DEF Relay
<1>7. CASE \E pid \in Uids : RoomMessage(c, pid)
  BY <1>1, <1>2, <1>7 DEF RoomMessage
<1> QED BY <1>1, <1>4, <1>5, <1>6, <1>7 DEF Unregistered, Malformed, RoomPeerList, Closed

\* A peer enters a session or a room.
LEMMA StatusTyped ==
  ASSUME NEW P \in PeersType, NEW u \in Uids, P[u] # Null, NEW status \in Rooms \cup {Session}
  PROVE  [P EXCEPT ![u].status = status] \in PeersType
<1>1. PICK e : e = [P[u] EXCEPT !.status = status]
  OBVIOUS
<1>2. e \in Entry
  BY <1>1 DEF PeersType, Entry
<1>3. [P EXCEPT ![u].status = status] = [P EXCEPT ![u] = e]
  BY <1>1
<1> QED BY <1>2, <1>3 DEF PeersType

LEMMA SessionOkTyped ==
  ASSUME TypeInv, NEW c \in Conns, SessionOk(c)
  PROVE  TypeInv'
<1>1. At(c, "session_ok")
  BY DEF SessionOk
<1>2. PICK u \in Uids, callee \in Uids : u = task[c].uid /\ callee = task[c].arg
  BY <1>1 DEF At, TypeInv, TasksOK, Locals
<1>3. CASE Leave(c, peers, rooms)
  BY <1>2, <1>3, LeavesTyped
<1>4. CASE /\ peers[u] # Null /\ peers[callee] # Null
           /\ peers' = [v \in Uids |-> IF v \in {u, callee}
                                       THEN [peers[v] EXCEPT !.status = Session] ELSE peers[v]]
           /\ sessions' = [[sessions EXCEPT ![u] = callee] EXCEPT ![callee] = u]
           /\ task' = [task EXCEPT ![c] = Waiting("recv", u)]
           /\ UNCHANGED <<rooms, open>>
  <2>1. \A v \in {u, callee} : [peers[v] EXCEPT !.status = Session] \in Entry
    BY <1>4 DEF TypeInv, PeersType, Entry
  <2>2. \A v \in Uids : peers[v] \in Entry \cup {Null}
    BY DEF TypeInv, PeersType
  <2>3. peers' \in PeersType
    BY <1>4, <2>1, <2>2 DEF PeersType
  <2>4. sessions' \in SessionsType
    BY <1>4 DEF TypeInv, SessionsType
  <2>5. PICK t : t = Waiting("recv", u)
    OBVIOUS
  <2>6. t \in Task /\ Locals(t)
    BY <2>5, WaitingType DEF Waits, Waiting, Locals
  <2>7. TasksOK'
    <3>1. task' = [task EXCEPT ![c] = t] /\ open' \subseteq Conns
      BY <1>4, <2>5 DEF TypeInv, TasksOK
    <3> QED BY <2>6, <3>1, TaskReplaced DEF TypeInv
  <2> QED BY <1>4, <2>3, <2>4, <2>7 DEF TypeInv
<1> QED BY <1>2, <1>3, <1>4 DEF SessionOk

\* What RoomOk makes of the dictionaries and of the locals before its loop.
LEMMA RoomEntered ==
  ASSUME TypeInv, NEW c \in Conns, RoomOk(c), peers[task[c].uid] # Null
  PROVE  \E u \in Uids, room \in Rooms, P \in PeersType, R \in RoomsType, t \in Task :
           /\ u = task[c].uid /\ room = task[c].arg
           /\ P = [peers EXCEPT ![u].status = room]
           /\ R = [rooms EXCEPT ![room] = @ \cup {u}]
           /\ t.pc = "joined" /\ t.uid = u /\ t.arg = room
           /\ JoinedTurn(c, P, R, t)
<1>1. At(c, "room_ok")
  BY DEF RoomOk
<1>2. PICK u \in Uids, room \in Rooms : u = task[c].uid /\ room = task[c].arg
  BY <1>1 DEF At, TypeInv, TasksOK, Locals
<1>3. PICK P : P = [peers EXCEPT ![u].status = room]
  OBVIOUS
<1>4. P \in PeersType
  BY <1>2, <1>3, StatusTyped DEF TypeInv
<1>5. PICK R : R = [rooms EXCEPT ![room] = @ \cup {u}]
  OBVIOUS
<1>6. R \in RoomsType
  BY <1>5 DEF TypeInv, RoomsType
<1>7. PICK s : s = Waiting("joined", u)
  OBVIOUS
<1>8. PICK t : t = [s EXCEPT !.arg = room, !.size = Cardinality(R[room])]
  OBVIOUS
<1>9. s \in Task /\ s.pc = "joined" /\ s.uid = u
  BY <1>7, WaitingType DEF Waits, Waiting
<1>10. Cardinality(R[room]) \in 0..Cardinality(Uids)
  BY <1>6, SizeType DEF RoomsType
<1>11. t \in Task /\ t.pc = "joined" /\ t.uid = u /\ t.arg = room
  BY <1>8, <1>9, <1>10 DEF Task
<1>12. JoinedTurn(c, [peers EXCEPT ![u].status = room], [rooms EXCEPT ![room] = @ \cup {u}],
                  [Waiting("joined", u) EXCEPT !.arg = room,
                     !.size = Cardinality([rooms EXCEPT ![room] = @ \cup {u}][room])])
  BY <1>2 DEF RoomOk
<1>13. JoinedTurn(c, P, R, t)
  BY <1>3, <1>5, <1>7, <1>8, <1>12
<1> QED BY <1>2, <1>3, <1>4, <1>5, <1>6, <1>11, <1>13

LEMMA ResumeTyped ==
  ASSUME TypeInv, NEW c \in Conns, Resume(c)
  PROVE  TypeInv'
<1>1. CASE RoomOk(c)
  <2>1. At(c, "room_ok")
    BY <1>1 DEF RoomOk
  <2>2. task[c].uid \in Uids
    BY <2>1, ServesName DEF At
  <2>3. CASE peers[task[c].uid] # Null
    <3>1. PICK P \in PeersType, R \in RoomsType, t \in Task :
            /\ t.pc = "joined" /\ t.uid \in Uids /\ t.arg \in Rooms
            /\ JoinedTurn(c, P, R, t)
      BY <1>1, <2>3, RoomEntered
    <3> QED BY <2>2, <3>1, JoinedTurnTyped DEF TypeInv
  <2>4. CASE Leave(c, peers, rooms)
    BY <2>2, <2>4, LeavesTyped
  <2> QED BY <1>1, <2>3, <2>4 DEF RoomOk
<1>2. CASE JoinedSent(c)
  <2>1. At(c, "joined") /\ JoinedTurn(c, peers, rooms, task[c])
    BY <1>2 DEF JoinedSent
  <2>2. task[c] \in Task /\ task[c].uid \in Uids /\ task[c].arg \in Rooms
    BY <2>1 DEF At, TypeInv, TasksOK, Locals
  <2>3. task[c].pc = "joined"
    BY <2>1 DEF At
  <2> QED BY <2>1, <2>2, <2>3, JoinedTurnTyped DEF TypeInv
<1>3. CASE LeftSent(c)
  <2>1. At(c, "left") /\ LeftTurn(c, peers, rooms, task[c]) /\ UNCHANGED <<sessions, rooms>>
    BY <1>3 DEF LeftSent
  <2>2. task[c] \in Task /\ task[c].uid \in Uids /\ task[c].arg \in Rooms
    BY <2>1 DEF At, TypeInv, TasksOK, Locals
  <2>3. task[c].pc = "left"
    BY <2>1 DEF At
  <2>4. TasksOK' /\ peers' \in PeersType
    BY <2>1, <2>2, <2>3, LeftTurnTyped DEF TypeInv
  <2> QED BY <2>1, <2>4 DEF TypeInv
<1>4. CASE PartnerClosed(c)
  <2>1. At(c, "closing") /\ RemoveEntry(c, peers, rooms) /\ UNCHANGED sessions
    BY <1>4 DEF PartnerClosed
  <2>2. task[c].uid \in Uids
    BY <2>1, ServesName DEF At
  <2>3. TasksOK' /\ peers' \in PeersType /\ rooms' \in RoomsType
    BY <2>1, <2>2, RemoveEntryTyped DEF TypeInv
  <2> QED BY <2>1, <2>3 DEF TypeInv
<1>5. CASE RelaySent(c)
  <2>1. PICK u : u = task[c].uid
    OBVIOUS
  <2>2. u \in Uids
    BY <1>5, <2>1, ServesName DEF RelaySent, At
  <2>3. PICK t : t = Waiting("recv", u)
    OBVIOUS
  <2>4. t \in Task /\ Locals(t)
    BY <2>2, <2>3, WaitingType DEF Waits, Waiting, Locals
  <2>5. task' = [task EXCEPT ![c] = t] /\ open' \subseteq Conns
    BY <1>5, <2>1, <2>3 DEF RelaySent, TypeInv, TasksOK
  <2>6. TasksOK'
    BY <2>4, <2>5, TaskReplaced DEF TypeInv
  <2> QED BY <1>5, <2>6 DEF RelaySent, TypeInv
<1> QED BY <1>1, <1>2, <1>3, <1>4, <1>5, StartTyped, SessionOkTyped DEF Resume

LEMMA SendFailsTyped ==
  ASSUME TypeInv, NEW c \in Conns, SendFails(c)
  PROVE  TypeInv'
<1>1. task[c].pc \notin {"idle", "hello"}
  BY DEF SendFails, At
<1>2. CASE Leave(c, peers, rooms)
  BY <1>1, <1>2, ServesName, LeavesTyped
<1>3. CASE End(c, {}) /\ UNCHANGED <<peers, sessions, rooms>>
  BY <1>3, EndTyped DEF TypeInv
<1> QED BY <1>2, <1>3 DEF SendFails

LEMMA TypeInvInit == Init => TypeInv
<1> SUFFICES ASSUME Init PROVE TypeInv
  OBVIOUS
<1>1. PICK t : t = Waiting("idle", Null)
  OBVIOUS
<1>2. t \in Task /\ Locals(t)
  BY <1>1, WaitingType DEF Waits, Waiting, Locals
<1>3. task = [c \in Conns |-> t] /\ open = {}
  BY <1>1 DEF Init
<1>4. TasksOK
  BY <1>2, <1>3 DEF TasksOK
<1> QED BY <1>4 DEF Init, TypeInv, PeersType, SessionsType, RoomsType

LEMMA TypeInvNext == TypeInv /\ [Next]_vars => TypeInv'
<1>1. ASSUME TypeInv, UNCHANGED vars
      PROVE  TypeInv'
  BY <1>1 DEF vars, TypeInv, TasksOK
<1>2. ASSUME TypeInv, NEW c \in Conns, Receive(c) \/ Closed(c)
      PROVE  TypeInv'
  <2>1. CASE Hello(c)
    BY <1>2, <2>1, StartTyped
  <2>2. CASE ~Hello(c)
    <3>1. At(c, "recv")
      BY <1>2, <2>2 DEF Receive, Closed, Unregistered, Relay, Malformed, RoomPeerList, RoomMessage,
                        SessionCommand, RoomCommand, HasStatus
    <3>2. task[c].uid \in Uids
      BY <1>2, <3>1, ServesName DEF At
    <3> QED BY <1>2, <2>2, <3>1, <3>2, ReceiveTyped DEF Receive
  <2> QED BY <2>1, <2>2
<1> QED BY <1>1, <1>2, StartTyped, ResumeTyped, SendFailsTyped DEF Next

LEMMA TypeInvAlways == Spec => []TypeInv
BY TypeInvInit, TypeInvNext, PTL DEF Spec

\* No name is ever taken out of crossed, and only names are put in.
LEMMA CrossedGrows ==
  ASSUME TypeInv, [Next]_vars
  PROVE  crossed \subseteq crossed' /\ crossed' \subseteq crossed \cup Uids
<1>1. ASSUME NEW u \in Uids, crossed' = CrossedByStatus(u)
      PROVE  crossed \subseteq crossed' /\ crossed' \subseteq crossed \cup Uids
  BY <1>1 DEF CrossedByStatus, TypeInv, SessionsType
<1>2. ASSUME NEW u \in Uids, NEW v \in Uids, crossed' = CrossedByCall(u, v)
      PROVE  crossed \subseteq crossed' /\ crossed' \subseteq crossed \cup Uids
  BY <1>2 DEF CrossedByCall, PartnersOf
<1>3. ASSUME NEW c \in Conns, Resume(c)
      PROVE  crossed \subseteq crossed' /\ crossed' \subseteq crossed \cup Uids
  <2>1. At(c, "greet") \/ At(c, "room_ok") => task[c].uid \in Uids
    BY ServesName DEF At
  <2>2. At(c, "session_ok") => task[c].uid \in Uids /\ task[c].arg \in Uids
    BY DEF At, TypeInv, TasksOK, Locals
  <2>3. CASE Register(c)
    BY <1>1, <2>1, <2>3 DEF Register
  <2>4. CASE SessionOk(c)
    BY <1>2, <2>2, <2>4 DEF SessionOk
  <2>5. CASE RoomOk(c)
    BY <1>1, <2>1, <2>5 DEF RoomOk
  <2> QED BY <1>3, <2>3, <2>4, <2>5 DEF Resume
<1> QED BY <1>3 DEF Next, Closed, vars

\* The dictionaries and the locals of the coroutines are well formed, whatever
\* order the coroutines' steps come in.
THEOREM TypeCorrect == Spec => []TypeOK
<1>1. TypeInv /\ crossed \subseteq Uids => TypeOK
  BY DEF TypeInv, TypeOK, TasksOK, PeersType, SessionsType, RoomsType
<1>2. Init => crossed \subseteq Uids
  BY DEF Init
<1>3. TypeInv /\ crossed \subseteq Uids /\ [Next]_vars => (crossed \subseteq Uids)'
  BY CrossedGrows
<1> QED BY <1>1, <1>2, <1>3, TypeInvAlways, PTL DEF Spec

-----------------------------------------------------------------------------
(* What a coroutine that leaves makes of the dictionaries.                 *)

Same(d) == task'[d] = task[d]

\* remove_peer after cleanup_session, from the peers P and the rooms R: entries
\* are only removed, and the own one stays only for a departure to announce.
Removes(c, u, P, R) ==
  /\ \A d \in Conns : d # c => Same(d)
  /\ task'[c].pc \in {"idle", "left"}
  /\ \A v \in Uids : peers'[v] = P[v] \/ (v = u /\ peers'[v] = Null)
  /\ peers'[u] = Null \/ \E r \in Rooms : peers'[u].status = r
  /\ task'[c].pc = "left" => Rooms # {} /\ task'[c].uid = u
  /\ Rooms = {} => task'[c].pc = "idle" /\ peers'[u] = Null
  /\ \A r \in Rooms, v \in Uids : v # u => (v \in rooms'[r] <=> v \in R[r])

\* The same with cleanup_session before it: a partner is told by closing its
\* socket, and has lost its entry by then.
Departs(c, u, P, R) ==
  /\ \A d \in Conns : d # c => Same(d)
  /\ task'[c].pc \in {"idle", "left", "closing"}
  /\ task'[c].pc # "idle" => task'[c].uid = u
  /\ \A v \in Uids : peers'[v] \in {P[v], Null}
  /\ \A v \in Uids : v \notin {u, sessions[u]} => peers'[v] = P[v]
  /\ \/ peers'[u] = Null
     \/ task'[c].pc = "closing"
     \/ \E r \in Rooms : peers'[u].status = r
  /\ Rooms = {} => task'[c].pc # "left" /\ (peers'[u] = Null \/ task'[c].pc = "closing")
  /\ sessions' = SessionReset(u)
  /\ sessions[u] \in Uids \ {u} /\ sessions[sessions[u]] # Null => peers'[sessions[u]] = Null
  /\ \A r \in Rooms, v \in Uids : v # u => (v \in rooms'[r] <=> v \in R[r])

LEMMA EndEffect ==
  ASSUME TasksOK, NEW c \in Conns, NEW gone, End(c, gone)
  PROVE  task'[c].pc = "idle" /\ \A d \in Conns : d # c => Same(d)
BY DEF End, TasksOK, Waiting, Same

LEMMA DropEntryEffect ==
  ASSUME TasksOK, NEW c \in Conns, NEW u \in Uids, u = task[c].uid,
         NEW P \in PeersType, NEW ws, DropEntry(c, P, ws)
  PROVE  /\ task'[c].pc = "idle" /\ \A d \in Conns : d # c => Same(d)
         /\ peers'[u] = Null /\ \A v \in Uids : v # u => peers'[v] = P[v]
<1>1. peers' = [P EXCEPT ![u] = Null]
  BY DEF DropEntry
<1>2. peers'[u] = Null /\ \A v \in Uids : v # u => peers'[v] = P[v]
  BY <1>1 DEF PeersType
<1>3. PICK gone : End(c, gone)
  BY DEF DropEntry
<1> QED BY <1>2, <1>3, EndEffect

LEMMA LeftTurnEffect ==
  ASSUME TasksOK, NEW c \in Conns, NEW u \in Uids, u = task[c].uid,
         NEW P \in PeersType, NEW R \in RoomsType,
         NEW t \in Task, t.pc = "left", t.uid = u, t.arg \in Rooms,
         LeftTurn(c, P, R, t)
  PROVE  /\ \A d \in Conns : d # c => Same(d)
         /\ task'[c].pc = "idle" \/ (task'[c].pc = "left" /\ task'[c].uid = u)
         /\ \/ peers'[u] = Null /\ \A v \in Uids : v # u => peers'[v] = P[v]
            \/ peers' = P
<1>1. CASE DropEntry(c, P, t.ws)
  BY <1>1, DropEntryEffect
<1>2. CASE /\ \E pid \in R[t.arg] \ t.seen :
                task' = [task EXCEPT ![c] = [t EXCEPT !.to = P[pid].conn,
                                                      !.seen = @ \cup {pid}]]
           /\ peers' = P
  <2>1. PICK pid :
          task' = [task EXCEPT ![c] = [t EXCEPT !.to = P[pid].conn, !.seen = @ \cup {pid}]]
    BY <1>2
  <2>2. PICK s : s = [t EXCEPT !.to = P[pid].conn, !.seen = @ \cup {pid}]
    OBVIOUS
  <2>3. s.pc = "left" /\ s.uid = u
    BY <2>2 DEF Task
  <2>4. task' = [task EXCEPT ![c] = s]
    BY <2>1, <2>2
  <2>5. task'[c] = s /\ \A d \in Conns : d # c => Same(d)
    BY <2>4 DEF TasksOK, Same
  <2> QED BY <1>2, <2>3, <2>5
<1>3. CASE peers' = P /\ End(c, {})
  BY <1>3, EndEffect
<1> QED BY <1>1, <1>2, <1>3 DEF LeftTurn

LEMMA RemoveEntryEffect ==
  ASSUME TasksOK, NEW c \in Conns, NEW u \in Uids, u = task[c].uid,
         NEW P \in PeersType, NEW R \in RoomsType, RemoveEntry(c, P, R)
  PROVE  Removes(c, u, P, R)
<1>1. CASE P[u] = Null /\ peers' = P /\ rooms' = R /\ End(c, {})
  BY <1>1, EndEffect DEF Removes
<1>2. CASE rooms' = R /\ DropEntry(c, P, P[u].conn)
  BY <1>2, DropEntryEffect DEF Removes
<1>3. CASE P[u] # Null /\ \E r \in Rooms :
             /\ P[u].status = r /\ u \in R[r]
             /\ rooms' = [R EXCEPT ![r] = @ \ {u}]
             /\ LeftTurn(c, P, [R EXCEPT ![r] = @ \ {u}],
                         Announcing(u, r, P[u].conn, Cardinality(R[r] \ {u})))
  <2>1. PICK r \in Rooms :
          /\ P[u].status = r
          /\ rooms' = [R EXCEPT ![r] = @ \ {u}]
          /\ LeftTurn(c, P, [R EXCEPT ![r] = @ \ {u}],
                      Announcing(u, r, P[u].conn, Cardinality(R[r] \ {u})))
    BY <1>3
  <2>2. PICK S : S = [R EXCEPT ![r] = @ \ {u}]
    OBVIOUS
  <2>3. S \in RoomsType /\ \A q \in Rooms, v \in Uids : v # u => (v \in S[q] <=> v \in R[q])
    BY <2>2 DEF RoomsType
  <2>4. P[u].conn \in Conns
    BY <1>3 DEF PeersType, Entry
  <2>5. PICK t : t = Announcing(u, r, P[u].conn, Cardinality(R[r] \ {u}))
    OBVIOUS
  <2>6. Cardinality(R[r] \ {u}) \in 0..Cardinality(Uids)
    BY SizeType DEF RoomsType
  <2>7. t \in Task /\ t.pc = "left" /\ t.uid = u /\ t.arg = r
    BY <2>4, <2>5, <2>6, AnnouncingType
  <2>8. LeftTurn(c, P, S, t)
    BY <2>1, <2>2, <2>5
  <2>9. /\ \A d \in Conns : d # c => Same(d)
        /\ task'[c].pc = "idle" \/ (task'[c].pc = "left" /\ task'[c].uid = u)
        /\ \/ peers'[u] = Null /\ \A v \in Uids : v # u => peers'[v] = P[v]
           \/ peers' = P
    BY <2>3, <2>7, <2>8, LeftTurnEffect
  <2>10. peers'[u] = Null \/ peers'[u].status = r
    BY <2>1, <2>9
  <2> QED BY <2>1, <2>2, <2>3, <2>9, <2>10 DEF Removes
<1> QED BY <1>1, <1>2, <1>3 DEF RemoveEntry, Announcing

LEMMA LeaveEffect ==
  ASSUME TasksOK, sessions \in SessionsType, NEW c \in Conns,
         NEW u \in Uids, u = task[c].uid,
         NEW P \in PeersType, NEW R \in RoomsType, Leave(c, P, R)
  PROVE  Departs(c, u, P, R)
<1>1. sessions' = SessionReset(u)
  BY DEF Leave, SessionReset
<1>3. CASE /\ sessions[u] \notin {Null, u}
           /\ peers' = [P EXCEPT ![sessions[u]] = Null]
           /\ task' = [task EXCEPT ![c] = Waiting("closing", u)]
           /\ rooms' = R
  <2>1. PICK partner \in Uids : partner = sessions[u] /\ partner # u
    BY <1>3 DEF SessionsType
  <2>2. \A v \in Uids : peers'[v] = (IF v = partner THEN Null ELSE P[v])
    BY <1>3, <2>1 DEF PeersType
  <2>3. task'[c].pc = "closing" /\ task'[c].uid = u /\ \A d \in Conns : d # c => Same(d)
    BY <1>3 DEF TasksOK, Waiting, Same
  <2> QED BY <1>1, <1>3, <2>1, <2>2, <2>3 DEF Departs
<1>4. CASE /\ ~(/\ sessions[u] \notin {Null, u} /\ sessions[sessions[u]] # Null
                /\ P[sessions[u]] # Null)
           /\ RemoveEntry(c, P, R)
  <2>1. Removes(c, u, P, R)
    BY <1>4, RemoveEntryEffect
  <2>2. sessions[u] \in Uids \ {u} /\ sessions[sessions[u]] # Null => P[sessions[u]] = Null
    BY <1>4, SignallingAssumption
  <2> QED BY <1>1, <2>1, <2>2 DEF Removes, Departs
<1> QED BY <1>3, <1>4 DEF Leave

-----------------------------------------------------------------------------
(* Every step is of one of seven kinds.                                    *)

Others(c) == \A d \in Conns : d # c => Same(d)

\* The dictionaries stay as they are.
Quiet(c) ==
  /\ UNCHANGED <<peers, sessions, rooms>> /\ Others(c)
  /\ \/ Same(c)
     \/ task[c].pc \in {"idle", "hello", "greet"} /\ task'[c].pc \in {"idle", "hello"}
     \/ task[c].pc = "left" /\ Rooms # {} /\ task'[c].pc = "idle"
     \/ task[c].pc = "hello" /\ task'[c].pc = "greet" /\ task'[c].uid \in NamesOf[c]
     \/ /\ task[c].pc \in {"recv", "relay", "joined"}
        /\ \/ task'[c].pc \in {"recv", "relay", "session_ok"}
           \/ task'[c].pc \in {"room_ok", "joined"} /\ Rooms # {}
        /\ task'[c].uid = task[c].uid

\* Two peers become partners.
Paired(c) ==
  \E u, callee \in Uids :
    /\ task[c].pc = "session_ok" /\ task[c].uid = u
    /\ peers[u] # Null /\ peers[callee] # Null
    /\ \A v \in Uids :
         IF v \in {u, callee}
         THEN peers'[v] # Null /\ peers'[v].status = Session /\ peers'[v].conn = peers[v].conn
         ELSE peers'[v] = peers[v]
    /\ sessions' = [[sessions EXCEPT ![u] = callee] EXCEPT ![callee] = u]
    /\ task'[c].pc = "recv" /\ task'[c].uid = u /\ Others(c)
    /\ crossed' = CrossedByCall(u, callee) /\ UNCHANGED rooms

\* A peer enters a room and announces it.
Entered(c) ==
  \E u \in Uids, room \in Rooms :
    /\ task[c].pc = "room_ok" /\ task[c].uid = u
    /\ peers[u] # Null
    /\ peers'[u].status = room /\ peers'[u].conn = peers[u].conn
    /\ \A v \in Uids : v # u => peers'[v] = peers[v]
    /\ u \in rooms'[room]
    /\ \A r \in Rooms, v \in Uids : v # u => (v \in rooms'[r] <=> v \in rooms[r])
    /\ task'[c].pc \in {"recv", "joined"} /\ task'[c].uid = u /\ Others(c)
    /\ crossed' = CrossedByStatus(u) /\ UNCHANGED sessions

\* A peer leaves, whether it has just entered a room or not.
Left(c) ==
  \E u \in Uids, P \in PeersType, R \in RoomsType :
    /\ task[c].pc \in {"recv", "relay", "session_ok", "room_ok", "joined"}
    /\ task[c].uid = u
    /\ P[u] # Null => peers[u] # Null /\ P[u].conn = peers[u].conn
    /\ \A v \in Uids : v # u => P[v] = peers[v]
    /\ \A r \in Rooms, v \in Uids : v # u => (v \in R[r] <=> v \in rooms[r])
    /\ Departs(c, u, P, R)

\* A coroutine goes on with leaving: after its partner's socket was closed, or
\* after a ROOM_PEER_LEFT.
Removed(c) ==
  \E u \in Uids :
    /\ task[c].pc = "closing" /\ task[c].uid = u
    /\ Removes(c, u, peers, rooms) /\ UNCHANGED sessions

AnnouncedLeft(c) ==
  \E u \in Uids :
    /\ task[c].pc = "left" /\ task[c].uid = u
    /\ Others(c)
    /\ task'[c].pc = "idle" \/ (task'[c].pc = "left" /\ task'[c].uid = u)
    /\ \A v \in Uids : peers'[v] = peers[v] \/ (v = u /\ peers'[v] = Null)
    /\ UNCHANGED <<sessions, rooms>> /\ Rooms # {}

Step(c) ==
  Quiet(c) \/ Register(c) \/ Paired(c) \/ Entered(c) \/ Left(c) \/ Removed(c) \/ AnnouncedLeft(c)

\* A coroutine whose locals are replaced, the dictionaries staying as they are.
LEMMA MoveEffect ==
  ASSUME TasksOK, NEW c \in Conns, NEW t, task' = [task EXCEPT ![c] = t]
  PROVE  task'[c] = t /\ Others(c)
BY DEF TasksOK, Others, Same

LEMMA LeaveLeft ==
  ASSUME TypeInv, NEW c \in Conns, NEW u \in Uids, u = task[c].uid,
         task[c].pc \in {"recv", "relay", "session_ok", "room_ok", "joined"},
         Leave(c, peers, rooms)
  PROVE  Left(c)
<1>1. PICK P, R : P = peers /\ R = rooms
  OBVIOUS
<1>2. P \in PeersType /\ R \in RoomsType
  BY <1>1 DEF TypeInv
<1>3. Departs(c, u, peers, rooms)
  BY LeaveEffect DEF TypeInv
<1>4. Departs(c, u, P, R)
  BY <1>1, <1>3 DEF Departs
<1> QED BY <1>1, <1>2, <1>4 DEF Left

LEMMA StartStep ==
  ASSUME TypeInv, NEW c \in Conns, Connect(c) \/ Hello(c) \/ Disconnect(c)
  PROVE  Quiet(c)
<1>1. CASE Connect(c)
  <2>1. PICK t : t = Waiting("hello", Null)
    OBVIOUS
  <2>2. t.pc = "hello" /\ task' = [task EXCEPT ![c] = t]
    BY <1>1, <2>1 DEF Waiting, Connect
  <2>3. task'[c] = t /\ Others(c)
    BY <2>2, MoveEffect DEF TypeInv
  <2> QED BY <1>1, <2>2, <2>3 DEF Quiet, Connect, At
<1>2. CASE Hello(c)
  <2>1. CASE \E u \in NamesOf[c] :
               task' = [task EXCEPT ![c] = [Waiting("greet", u) EXCEPT !.to = c]]
    <3>1. PICK u \in NamesOf[c] :
            task' = [task EXCEPT ![c] = [Waiting("greet", u) EXCEPT !.to = c]]
      BY <2>1
    <3>2. PICK t : t = [Waiting("greet", u) EXCEPT !.to = c]
      OBVIOUS
    <3>3. t.pc = "greet" /\ t.uid = u
      BY <3>2 DEF Waiting
    <3>4. task'[c] = t /\ Others(c)
      BY <3>1, <3>2, MoveEffect DEF TypeInv
    <3> QED BY <1>2, <3>3, <3>4 DEF Quiet, Hello, At
  <2>2. CASE End(c, {})
    BY <1>2, <2>2, EndEffect DEF Quiet, Hello, At, TypeInv, Others
  <2> QED BY <1>2, <2>1, <2>2 DEF Hello
<1>3. CASE Disconnect(c)
  BY <1>3 DEF Disconnect, Quiet, Others, Same
<1> QED BY <1>1, <1>2, <1>3

LEMMA SendStep ==
  ASSUME TypeInv, NEW c \in Conns, NEW v, task[c].pc = "recv", Send(c, v)
  PROVE  Quiet(c)
<1>1. PICK s, u : u = task[c].uid /\ s = Waiting("relay", u)
  OBVIOUS
<1>2. PICK t : t = [s EXCEPT !.to = peers[v].conn]
  OBVIOUS
<1>3. t.pc = "relay" /\ t.uid = u
  BY <1>1, <1>2 DEF Waiting
<1>4. task' = [task EXCEPT ![c] = t]
  BY <1>1, <1>2 DEF Send
<1>5. task'[c] = t /\ Others(c)
  BY <1>4, MoveEffect DEF TypeInv
<1> QED BY <1>1, <1>3, <1>5 DEF Quiet, Send

LEMMA ReceiveStep ==
  ASSUME TypeInv, NEW c \in Conns, task[c].pc = "recv",
         \/ Unregistered(c) \/ Relay(c) \/ Malformed(c) \/ RoomPeerList(c) \/ Closed(c)
         \/ \E pid \in Uids : RoomMessage(c, pid)
         \/ \E callee \in Uids : SessionCommand(c, callee)
         \/ \E room \in Rooms : RoomCommand(c, room)
  PROVE  Step(c)
<1>0. PICK u \in Uids : u = task[c].uid
  BY ServesName
<1>1. CASE Leave(c, peers, rooms)
  BY <1>0, <1>1, LeaveLeft DEF Step
<1>2. CASE \E v : Send(c, v)
  BY <1>2, SendStep DEF Step
<1>3. ASSUME NEW pc \in {"session_ok", "room_ok"}, NEW arg, pc = "room_ok" => Rooms # {},
             task' = [task EXCEPT ![c] = [Waiting(pc, task[c].uid) EXCEPT !.arg = arg, !.to = c]],
             UNCHANGED <<peers, sessions, rooms, open>>
      PROVE  Quiet(c)
  <2>1. PICK s : s = Waiting(pc, u)
    OBVIOUS
  <2>2. PICK t : t = [s EXCEPT !.arg = arg, !.to = c]
    OBVIOUS
  <2>3. t.pc = pc /\ t.uid = u
    BY <2>1, <2>2 DEF Waiting
  <2>4. task' = [task EXCEPT ![c] = t]
    BY <1>0, <1>3, <2>1, <2>2
  <2>5. task'[c] = t /\ Others(c)
    BY <2>4, MoveEffect DEF TypeInv
  <2> QED BY <1>0, <1>3, <2>3, <2>5 DEF Quiet
<1>4. CASE \E callee \in Uids : SessionCommand(c, callee)
  BY <1>3, <1>4 DEF SessionCommand, Step
<1>5. CASE \E room \in Rooms : RoomCommand(c, room)
  BY <1>1, <1>3, <1>5 DEF RoomCommand, Step
<1>6. CASE Relay(c)
  BY <1>1, <1>2, <1>6 DEF Relay
<1>7. CASE \E pid \in Uids : RoomMessage(c, pid)
  BY <1>1, <1>2, <1>7 DEF RoomMessage
<1> QED BY <1>1, <1>4, <1>5, <1>6, <1>7 DEF Unregistered, Malformed, RoomPeerList, Closed

LEMMA SessionOkStep ==
  ASSUME TypeInv, NEW c \in Conns, SessionOk(c)
  PROVE  Step(c)
<1>1. task[c].pc = "session_ok"
  BY DEF SessionOk, At
<1>2. PICK u \in Uids, callee \in Uids : u = task[c].uid /\ callee = task[c].arg
  BY <1>1 DEF TypeInv, TasksOK, Locals
<1>3. CASE Leave(c, peers, rooms)
  BY <1>1, <1>2, <1>3, LeaveLeft DEF Step
<1>4. CASE /\ peers[u] # Null /\ peers[callee] # Null
           /\ peers' = [v \in Uids |-> IF v \in {u, callee}
                                       THEN [peers[v] EXCEPT !.status = Session] ELSE peers[v]]
           /\ sessions' = [[sessions EXCEPT ![u] = callee] EXCEPT ![callee] = u]
           /\ task' = [task EXCEPT ![c] = Waiting("recv", u)]
           /\ crossed' = CrossedByCall(u, callee)
           /\ UNCHANGED rooms
  <2>1. \A v \in {u, callee} : peers'[v] = [peers[v] EXCEPT !.status = Session]
    BY <1>4
  <2>2. \A v \in {u, callee} : peers[v] \in Entry
    BY <1>4 DEF TypeInv, PeersType
  <2>3. \A v \in {u, callee} :
          peers'[v] # Null /\ peers'[v].status = Session /\ peers'[v].conn = peers[v].conn
    <3>1. \A v \in {u, callee} : [peers[v] EXCEPT !.status = Session] \in Entry
      BY <2>2 DEF Entry
    <3>2. Null \notin Entry
      BY SignallingAssumption DEF Entry
    <3> QED BY <2>1, <2>2, <3>1, <3>2 DEF Entry
  <2>5. \A v \in Uids : v \notin {u, callee} => peers'[v] = peers[v]
    BY <1>4
  <2>6. PICK t : t = Waiting("recv", u)
    OBVIOUS
  <2>7. t.pc = "recv" /\ t.uid = u /\ task'[c] = t /\ Others(c)
    BY <1>4, <2>6, MoveEffect DEF Waiting, TypeInv
  <2>8. \A v \in Uids :
          IF v \in {u, callee}
          THEN peers'[v] # Null /\ peers'[v].status = Session /\ peers'[v].conn = peers[v].conn
          ELSE peers'[v] = peers[v]
    BY <2>3, <2>5
  <2>9. /\ task[c].pc = "session_ok" /\ task[c].uid = u
        /\ peers[u] # Null /\ peers[callee] # Null
        /\ sessions' = [[sessions EXCEPT ![u] = callee] EXCEPT ![callee] = u]
        /\ task'[c].pc = "recv" /\ task'[c].uid = u /\ Others(c)
        /\ crossed' = CrossedByCall(u, callee) /\ UNCHANGED rooms
    BY <1>1, <1>2, <1>4, <2>7
  <2>10. Paired(c)
    BY <2>8, <2>9, Zenon DEF Paired
  <2> QED BY <2>10 DEF Step
<1> QED BY <1>2, <1>3, <1>4 DEF SessionOk

\* A turn of JoinedTurn either goes on announcing or leaves.
LEMMA JoinedTurnEffect ==
  ASSUME TasksOK, sessions \in SessionsType, NEW c \in Conns,
         NEW u \in Uids, u = task[c].uid,
         NEW P \in PeersType, NEW R \in RoomsType,
         NEW t \in Task, t.pc = "joined", t.uid = u, t.arg \in Rooms,
         JoinedTurn(c, P, R, t)
  PROVE  \/ /\ task'[c].pc \in {"recv", "joined"} /\ task'[c].uid = u /\ Others(c)
            /\ peers' = P /\ rooms' = R /\ UNCHANGED sessions
         \/ Departs(c, u, P, R)
<1>1. CASE /\ task' = [task EXCEPT ![c] = Waiting("recv", t.uid)]
           /\ peers' = P /\ rooms' = R /\ UNCHANGED sessions
  <2>1. PICK s : s = Waiting("recv", t.uid)
    OBVIOUS
  <2>2. s.pc = "recv" /\ s.uid = u
    BY <2>1 DEF Waiting
  <2> QED BY <1>1, <2>1, <2>2, MoveEffect
<1>2. CASE /\ \E pid \in (R[t.arg] \ {t.uid}) \ t.seen :
                task' = [task EXCEPT ![c] = [t EXCEPT !.to = P[pid].conn,
                                                      !.seen = @ \cup {pid}]]
           /\ peers' = P /\ rooms' = R /\ UNCHANGED sessions
  <2>1. PICK pid :
          task' = [task EXCEPT ![c] = [t EXCEPT !.to = P[pid].conn, !.seen = @ \cup {pid}]]
    BY <1>2
  <2>2. PICK s : s = [t EXCEPT !.to = P[pid].conn, !.seen = @ \cup {pid}]
    OBVIOUS
  <2>3. s.pc = "joined" /\ s.uid = u
    BY <2>2 DEF Task
  <2> QED BY <1>2, <2>1, <2>2, <2>3, MoveEffect
<1>3. CASE Leave(c, P, R)
  BY <1>3, LeaveEffect
<1> QED BY <1>1, <1>2, <1>3 DEF JoinedTurn

LEMMA RoomOkStep ==
  ASSUME TypeInv, NEW c \in Conns, RoomOk(c)
  PROVE  Step(c)
<1>1. task[c].pc = "room_ok"
  BY DEF RoomOk, At
<1>2. CASE peers[task[c].uid] # Null
  <2>1. PICK u \in Uids, room \in Rooms, P \in PeersType, R \in RoomsType, t \in Task :
          /\ u = task[c].uid /\ room = task[c].arg
          /\ P = [peers EXCEPT ![u].status = room]
          /\ R = [rooms EXCEPT ![room] = @ \cup {u}]
          /\ t.pc = "joined" /\ t.uid = u /\ t.arg = room
          /\ JoinedTurn(c, P, R, t)
    BY <1>2, RoomEntered
  <2>2. peers[u] \in Entry
    BY <1>2, <2>1 DEF TypeInv, PeersType
  <2>3. P[u] = [peers[u] EXCEPT !.status = room] /\ \A v \in Uids : v # u => P[v] = peers[v]
    BY <2>1 DEF TypeInv, PeersType
  <2>4. P[u].status = room /\ P[u].conn = peers[u].conn
    BY <2>2, <2>3 DEF Entry
  <2>5. /\ u \in R[room]
        /\ \A r \in Rooms, v \in Uids : v # u => (v \in R[r] <=> v \in rooms[r])
    BY <2>1 DEF TypeInv, RoomsType
  <2>6. CASE Departs(c, u, P, R)
    BY <1>1, <1>2, <2>1, <2>3, <2>4, <2>5, <2>6 DEF Left, Step
  <2>7. CASE /\ task'[c].pc \in {"recv", "joined"} /\ task'[c].uid = u /\ Others(c)
             /\ peers' = P /\ rooms' = R /\ UNCHANGED sessions
    <3>1. crossed' = CrossedByStatus(u)
      BY <1>2, <2>1 DEF RoomOk
    <3> QED BY <1>1, <1>2, <2>1, <2>3, <2>4, <2>5, <2>7, <3>1 DEF Entered, Step
  <2> QED BY <2>1, <2>6, <2>7, JoinedTurnEffect DEF TypeInv
<1>3. CASE Leave(c, peers, rooms)
  BY <1>1, <1>3, ServesName, LeaveLeft DEF Step
<1> QED BY <1>2, <1>3 DEF RoomOk

LEMMA ResumeStep ==
  ASSUME TypeInv, NEW c \in Conns, Resume(c)
  PROVE  Step(c)
<1>1. CASE JoinedSent(c)
  <2>1. task[c].pc = "joined" /\ JoinedTurn(c, peers, rooms, task[c])
    BY <1>1 DEF JoinedSent, At
  <2>2. PICK u \in Uids, P \in PeersType, R \in RoomsType :
          u = task[c].uid /\ P = peers /\ R = rooms
    BY <2>1, ServesName DEF TypeInv
  <2>3. task[c] \in Task /\ task[c].arg \in Rooms
    BY <2>1 DEF TypeInv, TasksOK, Locals
  <2>4. JoinedTurn(c, P, R, task[c])
    BY <2>1, <2>2
  <2>5. CASE Departs(c, u, P, R)
    BY <2>1, <2>2, <2>5 DEF Left, Step
  <2>6. CASE /\ task'[c].pc \in {"recv", "joined"} /\ task'[c].uid = u /\ Others(c)
             /\ peers' = P /\ rooms' = R /\ UNCHANGED sessions
    BY <2>1, <2>2, <2>3, <2>6 DEF Quiet, Step
  <2> QED BY <2>1, <2>2, <2>3, <2>4, <2>5, <2>6, JoinedTurnEffect DEF TypeInv
<1>2. CASE LeftSent(c)
  <2>1. /\ task[c].pc = "left" /\ LeftTurn(c, peers, rooms, task[c])
        /\ UNCHANGED <<sessions, rooms>>
    BY <1>2 DEF LeftSent, At
  <2>2. PICK u \in Uids : u = task[c].uid
    BY <2>1, ServesName
  <2>3. task[c] \in Task /\ task[c].arg \in Rooms
    BY <2>1 DEF TypeInv, TasksOK, Locals
  <2>4. /\ \A d \in Conns : d # c => Same(d)
        /\ task'[c].pc = "idle" \/ (task'[c].pc = "left" /\ task'[c].uid = u)
        /\ \/ peers'[u] = Null /\ \A v \in Uids : v # u => peers'[v] = peers[v]
           \/ peers' = peers
    BY <2>1, <2>2, <2>3, LeftTurnEffect DEF TypeInv
  <2> QED BY <2>1, <2>2, <2>3, <2>4 DEF AnnouncedLeft, Others, Step
<1>3. CASE PartnerClosed(c)
  <2>1. task[c].pc = "closing" /\ RemoveEntry(c, peers, rooms) /\ UNCHANGED sessions
    BY <1>3 DEF PartnerClosed, At
  <2>2. PICK u \in Uids : u = task[c].uid
    BY <2>1, ServesName
  <2>3. Removes(c, u, peers, rooms)
    BY <2>1, <2>2, RemoveEntryEffect DEF TypeInv
  <2> QED BY <2>1, <2>2, <2>3 DEF Removed, Step
<1>4. CASE RelaySent(c)
  <2>1. PICK u : u = task[c].uid
    OBVIOUS
  <2>2. PICK t : t = Waiting("recv", u)
    OBVIOUS
  <2>3. t.pc = "recv" /\ t.uid = u
    BY <2>2 DEF Waiting
  <2>4. task' = [task EXCEPT ![c] = t]
    BY <1>4, <2>1, <2>2 DEF RelaySent
  <2>5. task'[c] = t /\ Others(c)
    BY <2>4, MoveEffect DEF TypeInv
  <2> QED BY <1>4, <2>1, <2>3, <2>5 DEF RelaySent, At, Quiet, Step
<1> QED BY <1>1, <1>2, <1>3, <1>4, SessionOkStep, RoomOkStep DEF Resume, Step

LEMMA SendFailsStep ==
  ASSUME TypeInv, NEW c \in Conns, SendFails(c)
  PROVE  Step(c)
<1>1. CASE /\ At(c, "greet") \/ At(c, "left")
           /\ End(c, {}) /\ UNCHANGED <<peers, sessions, rooms>>
  <2>1. At(c, "left") => Rooms # {}
    BY DEF At, TypeInv, TasksOK, Locals
  <2> QED BY <1>1, <2>1, EndEffect DEF At, Quiet, Others, Step, TypeInv
<1>2. CASE /\ At(c, "session_ok") \/ At(c, "room_ok") \/ At(c, "joined") \/ At(c, "relay")
           /\ Leave(c, peers, rooms)
  BY <1>2, ServesName, LeaveLeft DEF At, Step
<1> QED BY <1>1, <1>2 DEF SendFails

LEMMA NextStep ==
  ASSUME TypeInv, [Next]_vars
  PROVE  UNCHANGED vars \/ \E c \in Conns : Step(c)
<1>1. ASSUME NEW c \in Conns, Receive(c) \/ Closed(c)
      PROVE  Step(c)
  <2>1. CASE Hello(c)
    BY <2>1, StartStep DEF Step
  <2>2. CASE ~Hello(c)
    <3>1. task[c].pc = "recv"
      BY <1>1, <2>2 DEF Receive, Closed, Unregistered, Relay, Malformed, RoomPeerList, RoomMessage,
                        SessionCommand, RoomCommand, HasStatus, At
    <3> QED BY <1>1, <2>2, <3>1, ReceiveStep DEF Receive
  <2> QED BY <2>1, <2>2
<1>2. ASSUME NEW c \in Conns, Connect(c) \/ Disconnect(c)
      PROVE  Step(c)
  BY <1>2, StartStep DEF Step
<1> QED BY <1>1, <1>2, ResumeStep, SendFailsStep DEF Next

-----------------------------------------------------------------------------
(* Sessions of two.                                                        *)

\* The session of v, if it has one, is of two and nobody is leaving it.
Whole(v) ==
  /\ \A w \in Uids : sessions[w] = v => sessions[v] = w
  /\ sessions[v] # Null =>
       /\ sessions[sessions[v]] = v
       /\ \A w \in Uids : sessions[w] = sessions[v] => w = v
       /\ \A w \in {v, sessions[v]} :
            peers[w] # Null /\ peers[w].status = Session /\ ~Departing(w)

\* Without one, the status 'session' is what a leaving coroutine has left to remove.
Outlived(v) ==
  peers[v] # Null /\ peers[v].status = Session /\ sessions[v] = Null =>
    \E c \in Conns : task[c].pc = "closing" /\ task[c].uid = v

PairsInv == \A v \in Uids \ crossed : Whole(v) /\ Outlived(v)

\* A session whose two peers keep their entries.
LEMMA WholeKept ==
  ASSUME NEW v \in Uids, Whole(v), UNCHANGED sessions, sessions \in SessionsType,
         sessions[v] # Null => \A w \in {v, sessions[v]} : UNCHANGED peers[w] /\ ~Departing(w)'
  PROVE  Whole(v)'
BY DEF Whole

\* Nobody starts to leave while the coroutine of c stays in its handler or ends.
LEMMA NoDeparture ==
  ASSUME NEW c \in Conns, Others(c), NEW v,
         task'[c].pc \notin {"closing", "left"} \/ task'[c].uid # v, ~Departing(v)
  PROVE  ~Departing(v)'
BY DEF Departing, At, Others, Same

\* A coroutine other than c still waits for its partner's socket to close.
LEMMA OutlivedKept ==
  ASSUME NEW c \in Conns, Others(c), NEW v \in Uids, Outlived(v),
         peers'[v] = peers[v], sessions'[v] = sessions[v],
         Same(c) \/ task[c].pc # "closing" \/ task[c].uid # v
  PROVE  Outlived(v)'
<1> SUFFICES ASSUME peers'[v] # Null, peers'[v].status = Session, sessions'[v] = Null
             PROVE  \E d \in Conns : task'[d].pc = "closing" /\ task'[d].uid = v
  BY DEF Outlived
<1>1. PICK d \in Conns : task[d].pc = "closing" /\ task[d].uid = v
  BY DEF Outlived
<1>2. Same(d)
  BY <1>1 DEF Others
<1> QED BY <1>1, <1>2 DEF Same

\* Register and Entered: u gets another status, which crosses its session.
LEMMA StatusPairs ==
  ASSUME TypeInv, NEW c \in Conns, NEW u \in Uids, Others(c), UNCHANGED sessions,
         task'[c].pc \notin {"closing", "left"}, task[c].pc # "closing",
         crossed' = CrossedByStatus(u), peers'[u].status # Session,
         \A v \in Uids : v # u => peers'[v] = peers[v],
         NEW v \in Uids \ crossed', Whole(v), Outlived(v)
  PROVE  Whole(v)' /\ Outlived(v)'
<1>1. sessions[v] # Null => u \notin {v, sessions[v]} /\ sessions[v] \in Uids
  BY SignallingAssumption DEF Whole, CrossedByStatus, TypeInv, SessionsType
<1>2. sessions[v] # Null => \A w \in {v, sessions[v]} : UNCHANGED peers[w] /\ ~Departing(w)'
  BY <1>1, NoDeparture DEF Whole
<1>3. Whole(v)'
  BY <1>2, WholeKept DEF TypeInv
<1>4. Outlived(v)'
  <2>1. CASE v = u
    BY <2>1 DEF Outlived
  <2>2. CASE v # u
    BY <2>2, OutlivedKept
  <2> QED BY <2>1, <2>2
<1> QED BY <1>3, <1>4

LEMMA PairedPairs ==
  ASSUME TypeInv, NEW c \in Conns, Paired(c), NEW v \in Uids \ crossed', Whole(v), Outlived(v)
  PROVE  Whole(v)' /\ Outlived(v)'
<1>1. PICK u \in Uids, callee \in Uids :
        /\ task[c].pc = "session_ok"
        /\ peers[u] # Null /\ peers[callee] # Null
        /\ \A w \in Uids : IF w \in {u, callee}
                           THEN peers'[w] # Null /\ peers'[w].status = Session
                           ELSE peers'[w] = peers[w]
        /\ sessions' = [[sessions EXCEPT ![u] = callee] EXCEPT ![callee] = u]
        /\ task'[c].pc = "recv" /\ Others(c)
        /\ crossed' = CrossedByCall(u, callee)
  BY DEF Paired
<1>2. /\ sessions'[u] = callee /\ sessions'[callee] = u
      /\ \A w \in Uids : w \notin {u, callee} => sessions'[w] = sessions[w]
  BY <1>1 DEF TypeInv, SessionsType
<1>3. \A w \in Uids : ~Departing(w) => ~Departing(w)'
  BY <1>1, NoDeparture
<1>4. CASE v \notin {u, callee}
  <2>1. /\ sessions[v] \notin {u, callee}
        /\ \A w \in {u, callee} : sessions[w] # v
    BY <1>1, <1>4 DEF CrossedByCall, PartnersOf
  <2>2. sessions'[v] = sessions[v] /\ peers'[v] = peers[v]
    BY <1>1, <1>2, <1>4
  <2>3. \A w \in Uids : sessions'[w] = v => sessions'[v] = w
    BY <1>2, <1>4, <2>2 DEF Whole
  <2>4. ASSUME sessions[v] # Null, NEW q \in Uids, q = sessions[v]
        PROVE  /\ sessions'[q] = v
               /\ \A w \in Uids : sessions'[w] = q => w = v
               /\ \A w \in {v, q} :
                    peers'[w] # Null /\ peers'[w].status = Session /\ ~Departing(w)'
    <3>1. q \notin {u, callee} /\ sessions'[q] = sessions[q] /\ peers'[q] = peers[q]
      BY <1>1, <1>2, <2>1, <2>4
    <3>2. \A w \in Uids : sessions'[w] = q => w = v
      BY <1>2, <2>4, <3>1 DEF Whole
    <3> QED BY <1>3, <2>2, <2>4, <3>1, <3>2 DEF Whole
  <2>5. Whole(v)'
    BY <2>2, <2>3, <2>4 DEF Whole, TypeInv, SessionsType
  <2> QED BY <1>1, <2>2, <2>5, OutlivedKept
<1>5. CASE v \in {u, callee}
  <2>1. /\ PartnersOf({u, callee}) \subseteq {u, callee}
        /\ ~Departing(u) /\ ~Departing(callee)
    BY <1>1, <1>5 DEF CrossedByCall
  <2>2. \A w \in Uids : sessions'[w] \in {u, callee} => w \in {u, callee}
    BY <1>2, <2>1 DEF PartnersOf
  <2>3. PICK o \in {u, callee} : sessions'[v] = o /\ sessions'[o] = v /\ {v, o} = {u, callee}
    BY <1>2, <1>5
  <2>4. \A w \in Uids : sessions'[w] = v => sessions'[v] = w
    BY <1>2, <2>2, <2>3
  <2>5. \A w \in Uids : sessions'[w] = o => w = v
    BY <1>2, <2>2, <2>3
  <2>6. \A w \in {v, o} : peers'[w] # Null /\ peers'[w].status = Session /\ ~Departing(w)'
    BY <1>1, <1>3, <2>1, <2>3
  <2>7. sessions'[v] # Null
    BY <2>3, SignallingAssumption
  <2> QED BY <2>3, <2>4, <2>5, <2>6, <2>7 DEF Whole, Outlived
<1> QED BY <1>4, <1>5

LEMMA LeftPairs ==
  ASSUME TypeInv, NEW c \in Conns, Left(c), NEW v \in Uids \ crossed', Whole(v), Outlived(v)
  PROVE  Whole(v)' /\ Outlived(v)'
<1>1. PICK u \in Uids, P \in PeersType, R \in RoomsType :
        /\ task[c].pc \in {"recv", "relay", "session_ok", "room_ok", "joined"}
        /\ \A w \in Uids : w # u => P[w] = peers[w]
        /\ Departs(c, u, P, R)
  BY DEF Left
<1>2. /\ Others(c) /\ (task'[c].pc \in {"closing", "left"} => task'[c].uid = u)
      /\ \A w \in Uids : w \notin {u, sessions[u]} => peers'[w] = peers[w]
      /\ peers'[u] = Null \/ task'[c].pc = "closing" \/ \E r \in Rooms : peers'[u].status = r
      /\ sessions[u] \in Uids \ {u} /\ sessions[sessions[u]] # Null => peers'[sessions[u]] = Null
  BY <1>1 DEF Departs, Others
<1>3. /\ sessions[u] # Null =>
           /\ sessions'[u] = Null /\ sessions'[sessions[u]] = Null /\ sessions[u] \in Uids
      /\ \A w \in Uids : sessions[u] = Null \/ w \notin {u, sessions[u]}
                           => sessions'[w] = sessions[w]
  BY <1>1 DEF Departs, SessionReset, TypeInv, SessionsType
<1>4. CASE v \notin {u, sessions[u]}
  <2>1. sessions'[v] = sessions[v] /\ peers'[v] = peers[v]
    BY <1>2, <1>3, <1>4
  <2>2. \A w \in Uids : sessions'[w] = v => sessions'[v] = w
    BY <1>3, <2>1, SignallingAssumption DEF Whole
  <2>3. ASSUME sessions[v] # Null, NEW q \in Uids, q = sessions[v]
        PROVE  /\ sessions'[q] = v
               /\ \A w \in Uids : sessions'[w] = q => w = v
               /\ \A w \in {v, q} :
                    peers'[w] # Null /\ peers'[w].status = Session /\ ~Departing(w)'
    <3>1. q \notin {u, sessions[u]}
      BY <1>4, <2>3 DEF Whole
    <3>2. sessions'[q] = sessions[q] /\ peers'[q] = peers[q]
      BY <1>2, <1>3, <3>1
    <3>3. \A w \in Uids : sessions'[w] = q => w = v
      BY <1>3, <2>3, SignallingAssumption DEF Whole
    <3>4. \A w \in {v, q} : ~Departing(w)'
      BY <1>2, <1>4, <2>3, <3>1, NoDeparture DEF Whole
    <3> QED BY <2>1, <2>3, <3>2, <3>3, <3>4 DEF Whole
  <2>4. Whole(v)'
    BY <2>1, <2>2, <2>3 DEF Whole, TypeInv, SessionsType
  <2> QED BY <1>1, <1>2, <2>1, <2>4, OutlivedKept
<1>5. CASE v \in {u, sessions[u]}
  <2>1. sessions'[v] = Null
    BY <1>3, <1>5, SignallingAssumption
  <2>2. \A w \in Uids : sessions'[w] # v
    <3>1. ASSUME NEW w \in Uids, sessions'[w] = v PROVE FALSE
      <4>1. v # Null
        BY SignallingAssumption
      <4>2. sessions[w] = v /\ (sessions[u] # Null => w \notin {u, sessions[u]})
        BY <1>3, <3>1, <4>1
      <4>3. sessions[v] = w
        BY <4>2 DEF Whole
      <4>4. v = sessions[u] => sessions[v] = u
        BY DEF Whole
      <4> QED BY <1>5, <4>1, <4>2, <4>3, <4>4, SignallingAssumption
    <3> QED BY <3>1
  <2>3. Whole(v)'
    BY <2>1, <2>2 DEF Whole
  <2>4. Outlived(v)'
    <3>1. CASE v = u
      BY <1>2, <3>1, SignallingAssumption DEF Outlived
    <3>2. CASE v # u
      <4>1. sessions[v] = u /\ v = sessions[u]
        BY <1>5, <3>2 DEF Whole
      <4>2. peers'[v] = Null
        BY <1>2, <3>2, <4>1, SignallingAssumption
      <4> QED BY <4>2 DEF Outlived
    <3> QED BY <3>1, <3>2
  <2> QED BY <2>3, <2>4
<1> QED BY <1>4, <1>5

\* Removed and AnnouncedLeft: who is leaving already has no session that is whole.
LEMMA RemovalPairs ==
  ASSUME TypeInv, NEW c \in Conns, NEW u \in Uids,
         task[c].uid = u, task[c].pc \in {"closing", "left"},
         Others(c), UNCHANGED sessions,
         task'[c].pc = "idle" \/ task'[c].uid = u,
         \A w \in Uids : w # u => peers'[w] = peers[w],
         peers'[u] = Null \/ (\E r \in Rooms : peers'[u].status = r)
           \/ (task[c].pc = "left" /\ peers'[u] = peers[u]),
         NEW v \in Uids \ crossed', Whole(v), Outlived(v)
  PROVE  Whole(v)' /\ Outlived(v)'
<1>1. Departing(u)
  BY DEF Departing, At
<1>2. sessions[v] # Null => u \notin {v, sessions[v]} /\ sessions[v] \in Uids
  BY <1>1 DEF Whole, TypeInv, SessionsType
<1>3. sessions[v] # Null => \A w \in {v, sessions[v]} : UNCHANGED peers[w] /\ ~Departing(w)'
  BY <1>2, NoDeparture DEF Whole
<1>4. Whole(v)'
  BY <1>3, WholeKept DEF TypeInv
<1>5. Outlived(v)'
  <2>1. CASE peers'[v] = peers[v] /\ (task[c].pc = "left" \/ v # u)
    BY <2>1, OutlivedKept
  <2>2. CASE v = u /\ (peers'[u] = Null \/ \E r \in Rooms : peers'[u].status = r)
    BY <2>2, SignallingAssumption DEF Outlived
  <2> QED BY <2>1, <2>2
<1> QED BY <1>4, <1>5

LEMMA PairsStep ==
  ASSUME TypeInv, PairsInv, NEW c \in Conns, Step(c), crossed \subseteq crossed'
  PROVE  PairsInv'
<1> SUFFICES ASSUME NEW v \in Uids \ crossed' PROVE Whole(v)' /\ Outlived(v)'
  BY DEF PairsInv
<1>0. v \in Uids \ crossed /\ Whole(v) /\ Outlived(v)
  BY DEF PairsInv
<1>1. CASE Quiet(c)
  <2>1. \A w : ~Departing(w) => ~Departing(w)'
    BY <1>1 DEF Quiet, Departing, At, Others, Same
  <2>2. Whole(v)'
    BY <1>0, <1>1, <2>1, WholeKept DEF Quiet, Whole, TypeInv
  <2>3. Outlived(v)'
    BY <1>0, <1>1, OutlivedKept DEF Quiet
  <2> QED BY <2>2, <2>3
<1>2. CASE Register(c)
  <2>1. PICK u \in Uids : u = task[c].uid
    BY <1>2, ServesName DEF Register, At
  <2>2. PICK e, t : e = [conn |-> c, status |-> Null] /\ t = Waiting("recv", u)
    OBVIOUS
  <2>3. /\ task[c].pc = "greet" /\ task' = [task EXCEPT ![c] = t] /\ t.pc = "recv"
        /\ peers' = [peers EXCEPT ![u] = e] /\ e.status # Session
        /\ UNCHANGED sessions /\ crossed' = CrossedByStatus(u)
    BY <1>2, <2>1, <2>2, SignallingAssumption DEF Register, At, Waiting
  <2>4. task'[c].pc = "recv" /\ Others(c)
    BY <2>3, MoveEffect DEF TypeInv
  <2>5. peers'[u].status # Session /\ \A w \in Uids : w # u => peers'[w] = peers[w]
    BY <2>3 DEF TypeInv, PeersType
  <2> QED BY <1>0, <2>3, <2>4, <2>5, StatusPairs
<1>3. CASE Paired(c)
  BY <1>0, <1>3, PairedPairs
<1>4. CASE Entered(c)
  <2>1. PICK u \in Uids, room \in Rooms :
          /\ task[c].pc = "room_ok" /\ peers'[u].status = room
          /\ \A w \in Uids : w # u => peers'[w] = peers[w]
          /\ task'[c].pc \in {"recv", "joined"} /\ Others(c)
          /\ crossed' = CrossedByStatus(u) /\ UNCHANGED sessions
    BY <1>4 DEF Entered
  <2>2. peers'[u].status # Session
    BY <2>1, SignallingAssumption
  <2> QED BY <1>0, <2>1, <2>2, StatusPairs
<1>5. CASE Left(c)
  BY <1>0, <1>5, LeftPairs
<1>6. CASE Removed(c)
  <2>1. PICK u \in Uids :
          /\ task[c].pc = "closing" /\ task[c].uid = u
          /\ Removes(c, u, peers, rooms) /\ UNCHANGED sessions
    BY <1>6 DEF Removed
  <2>2. /\ Others(c) /\ (task'[c].pc = "idle" \/ task'[c].uid = u)
        /\ \A w \in Uids : w # u => peers'[w] = peers[w]
        /\ peers'[u] = Null \/ \E r \in Rooms : peers'[u].status = r
    BY <2>1 DEF Removes, Others
  <2> QED BY <1>0, <2>1, <2>2, RemovalPairs
<1>7. CASE AnnouncedLeft(c)
  <2>1. PICK u \in Uids :
          /\ task[c].pc = "left" /\ task[c].uid = u /\ Others(c)
          /\ task'[c].pc = "idle" \/ (task'[c].pc = "left" /\ task'[c].uid = u)
          /\ \A w \in Uids : peers'[w] = peers[w] \/ (w = u /\ peers'[w] = Null)
          /\ UNCHANGED sessions
    BY <1>7 DEF AnnouncedLeft
  <2> QED BY <1>0, <2>1, RemovalPairs
<1> QED BY <1>1, <1>2, <1>3, <1>4, <1>5, <1>6, <1>7 DEF Step

\* Whatever calls, names, rooms, departures and reconnections interleave: a session
\* that no other call, room or registration comes across, and no call to a peer that
\* is leaving, is one of two registered peers that are each other's partner (the
\* assertion of connection_handler before it relays).
THEOREM SessionsPaired == Spec => []PartnersPaired
<1>1. Init => PairsInv
  BY SignallingAssumption DEF Init, PairsInv, Whole, Outlived
<1>2. TypeInv /\ PairsInv /\ [Next]_vars => PairsInv'
  <2>1. UNCHANGED vars /\ PairsInv => PairsInv'
    BY DEF vars, PairsInv, Whole, Outlived, Departing, At
  <2> QED BY <2>1, NextStep, CrossedGrows, PairsStep
<1>3. TypeInv /\ PairsInv => PartnersPaired
  BY DEF PairsInv, Whole, Outlived, PartnersPaired, At, TypeInv, SessionsType
<1> QED BY <1>1, <1>2, <1>3, TypeInvAlways, PTL DEF Spec

-----------------------------------------------------------------------------
(* Entries and the coroutines that remove them.                            *)

Serving == {"recv", "relay", "session_ok", "room_ok", "joined", "closing"}

\* Without rooms no departure is announced, and none can fail.
EntriesServed ==
  \A v \in Uids : peers[v] # Null =>
    task[peers[v].conn].uid = v /\ task[peers[v].conn].pc \in Serving

LEMMA EntriesServedStep ==
  ASSUME TypeInv, EntriesServed, Rooms = {}, NEW c \in Conns, Step(c)
  PROVE  EntriesServed'
<1> SUFFICES ASSUME NEW v \in Uids, peers'[v] # Null
             PROVE  task'[peers'[v].conn].uid = v /\ task'[peers'[v].conn].pc \in Serving
  BY DEF EntriesServed
<1>1. ASSUME NEW d \in Conns, Same(d), peers[v] # Null, d = peers[v].conn, peers'[v].conn = d
      PROVE  task'[peers'[v].conn].uid = v /\ task'[peers'[v].conn].pc \in Serving
  BY <1>1 DEF Same, EntriesServed
<1>2. peers[v] # Null =>
        peers[v].conn \in Conns /\ task[peers[v].conn].uid = v
        /\ task[peers[v].conn].pc \in Serving
  BY DEF EntriesServed, TypeInv, PeersType, Entry
<1>3. CASE Quiet(c)
  <2>1. peers[v] # Null /\ peers'[v] = peers[v]
    BY <1>3 DEF Quiet
  <2>2. CASE peers[v].conn # c \/ Same(c)
    BY <1>1, <1>2, <1>3, <2>1, <2>2 DEF Quiet, Others
  <2>3. CASE peers[v].conn = c /\ ~Same(c)
    <3>1. task[c].pc \in {"recv", "relay", "joined"}
      BY <1>2, <1>3, <2>1, <2>3 DEF Quiet, Serving
    <3>2. task'[c].pc \in Serving /\ task'[c].uid = v
      BY <1>2, <1>3, <2>1, <2>3, <3>1 DEF Quiet, Serving
    <3> QED BY <2>1, <2>3, <3>2
  <2> QED BY <2>2, <2>3
<1>4. CASE Register(c)
  <2>1. PICK u : u = task[c].uid
    OBVIOUS
  <2>2. PICK e : e = [conn |-> c, status |-> Null]
    OBVIOUS
  <2>3. peers' = [peers EXCEPT ![u] = e] /\ e.conn = c
    BY <1>4, <2>1, <2>2 DEF Register
  <2>4. PICK t : t = Waiting("recv", u)
    OBVIOUS
  <2>5. task' = [task EXCEPT ![c] = t] /\ t.pc = "recv" /\ t.uid = u
    BY <1>4, <2>1, <2>4 DEF Register, Waiting
  <2>6. task'[c] = t /\ Others(c) /\ task[c].pc = "greet"
    BY <1>4, <2>5, MoveEffect DEF Register, At, TypeInv
  <2>7. CASE v = u
    <3>1. peers'[v].conn = c
      BY <2>3, <2>7 DEF TypeInv, PeersType
    <3> QED BY <2>5, <2>6, <2>7, <3>1 DEF Serving
  <2>8. CASE v # u
    <3>1. peers'[v] = peers[v]
      BY <2>3, <2>8 DEF TypeInv, PeersType
    <3>2. peers[v].conn # c
      BY <1>2, <2>6, <3>1 DEF Serving
    <3> QED BY <1>1, <1>2, <2>6, <3>1, <3>2 DEF Others
  <2> QED BY <2>7, <2>8
<1>5. CASE Paired(c)
  <2>1. PICK u \in Uids, callee \in Uids :
          /\ task[c].uid = u /\ peers[u] # Null /\ peers[callee] # Null
          /\ IF v \in {u, callee} THEN peers'[v].conn = peers[v].conn
             ELSE peers'[v] = peers[v]
          /\ task'[c].pc = "recv" /\ task'[c].uid = u /\ Others(c)
    BY <1>5 DEF Paired
  <2>2. peers[v] # Null /\ peers'[v].conn = peers[v].conn
    BY <2>1
  <2>3. CASE peers[v].conn = c
    BY <1>2, <2>1, <2>2, <2>3 DEF Serving
  <2>4. CASE peers[v].conn # c
    BY <1>1, <1>2, <2>1, <2>2, <2>4 DEF Others
  <2> QED BY <2>3, <2>4
<1>6. CASE Left(c)
  <2>1. PICK u \in Uids, P \in PeersType, R \in RoomsType :
          /\ task[c].uid = u
          /\ P[u] # Null => peers[u] # Null /\ P[u].conn = peers[u].conn
          /\ v # u => P[v] = peers[v]
          /\ Departs(c, u, P, R)
    BY <1>6 DEF Left
  <2>2. peers'[v] = P[v] /\ Others(c)
    BY <2>1 DEF Departs, Others
  <2>3. peers[v] # Null /\ peers'[v].conn = peers[v].conn
    BY <2>1, <2>2
  <2>4. CASE peers[v].conn = c
    <3>1. v = u
      BY <1>2, <2>1, <2>3, <2>4
    <3>2. task'[c].pc = "closing" /\ task'[c].uid = v
      BY <2>1, <3>1 DEF Departs
    <3> QED BY <2>3, <2>4, <3>2 DEF Serving
  <2>5. CASE peers[v].conn # c
    BY <1>1, <1>2, <2>2, <2>3, <2>5 DEF Others
  <2> QED BY <2>4, <2>5
<1>7. CASE Removed(c)
  <2>1. PICK u \in Uids :
          task[c].uid = u /\ Removes(c, u, peers, rooms)
    BY <1>7 DEF Removed
  <2>2. v # u /\ peers'[v] = peers[v] /\ Others(c)
    BY <2>1 DEF Removes, Others
  <2>3. peers[v].conn # c
    BY <1>2, <2>1, <2>2
  <2> QED BY <1>1, <1>2, <2>2, <2>3 DEF Others
<1> QED BY <1>3, <1>4, <1>5, <1>6, <1>7 DEF Step, Entered, AnnouncedLeft

\* As long as no rooms are used, every entry of peers belongs to a live coroutine of
\* its name, which will remove it: for any number of connections, several of which
\* may present the same name, and whatever they send.
THEOREM NoGhosts == ASSUME Rooms = {} PROVE Spec => []NoGhostPeers
<1>1. Init => EntriesServed
  BY DEF Init, EntriesServed
<1>2. TypeInv /\ EntriesServed /\ [Next]_vars => EntriesServed'
  <2>1. UNCHANGED vars /\ EntriesServed => EntriesServed'
    BY DEF vars, EntriesServed
  <2> QED BY <2>1, NextStep, EntriesServedStep
<1>3. EntriesServed => NoGhostPeers
  BY DEF EntriesServed, NoGhostPeers, Serving
<1> QED BY <1>1, <1>2, <1>3, TypeInvAlways, PTL DEF Spec

-----------------------------------------------------------------------------
(* Members of rooms.                                                       *)

\* No two clients present the same name.
OwnNames == \A c, d \in Conns : c # d => NamesOf[c] \cap NamesOf[d] = {}

NameIsOwn == \A c \in Conns : task[c].pc \in {"idle", "hello"} \/ task[c].uid \in NamesOf[c]

\* From being registered until it leaves, a peer with a room's status is a member.
Staying == {"recv", "relay", "session_ok", "room_ok", "joined"}

MemberWhileStaying ==
  \A c \in Conns, r \in Rooms :
    /\ task[c].pc \in Staying /\ peers[task[c].uid] # Null
    /\ peers[task[c].uid].status = r
    => task[c].uid \in rooms[r]

LEMMA NameIsOwnStep ==
  ASSUME TypeInv, NameIsOwn, NEW c \in Conns, Step(c)
  PROVE  NameIsOwn'
<1>1. Others(c)
  <2>1. Register(c) => Others(c)
    BY MoveEffect DEF Register, TypeInv
  <2> QED BY <2>1 DEF Step, Quiet, Paired, Entered, Left, Removed, AnnouncedLeft, Departs,
                      Removes, Others
<1>2. task'[c].pc \in {"idle", "hello"} \/ task'[c].uid \in NamesOf[c]
  <2>1. Register(c) => task'[c].uid \in NamesOf[c]
    <3>1. ASSUME Register(c), NEW u, u = task[c].uid, NEW t, t = Waiting("recv", u)
          PROVE  task'[c].uid \in NamesOf[c]
      <4>1. task' = [task EXCEPT ![c] = t] /\ t.uid = u /\ task[c].pc = "greet"
        BY <3>1 DEF Register, Waiting, At
      <4> QED BY <3>1, <4>1, MoveEffect DEF TypeInv, NameIsOwn
    <3> QED BY <3>1
  <2>2. ASSUME ~Register(c)
        PROVE  \/ task'[c].pc \in {"idle", "hello"} \/ task'[c].uid \in NamesOf[c]
               \/ task'[c].uid = task[c].uid /\ task[c].pc \notin {"idle", "hello"}
               \/ Same(c)
    BY <2>2 DEF Step, Quiet, Paired, Entered, Left, Removed, AnnouncedLeft, Departs, Removes
  <2> QED BY <2>1, <2>2 DEF NameIsOwn, Same
<1>3. \A d \in Conns : d # c => task'[d] = task[d]
  BY <1>1 DEF Others, Same
<1> QED BY <1>2, <1>3 DEF NameIsOwn

LEMMA MemberWhileStayingStep ==
  ASSUME TypeInv, OwnNames, NameIsOwn, MemberWhileStaying, NEW c \in Conns, Step(c)
  PROVE  MemberWhileStaying'
<1> SUFFICES ASSUME NEW d \in Conns, NEW r \in Rooms, task'[d].pc \in Staying,
                    peers'[task'[d].uid] # Null, peers'[task'[d].uid].status = r
             PROVE  task'[d].uid \in rooms'[r]
  BY DEF MemberWhileStaying
<1>1. ASSUME Same(d), NEW v \in Uids, v = task[d].uid, peers'[v] = peers[v],
             v \in rooms'[r] <=> v \in rooms[r]
      PROVE  task'[d].uid \in rooms'[r]
  BY <1>1 DEF Same, MemberWhileStaying
\* Another coroutine serves another name.
<1>2. ASSUME d # c, task[c].pc \notin {"idle", "hello"}, Same(d)
      PROVE  task[d].uid \in Uids /\ task[d].uid # task[c].uid
  <2>1. task[d].pc \notin {"idle", "hello"}
    BY <1>2 DEF Same, Staying
  <2>2. task[d].uid \in NamesOf[d] /\ task[c].uid \in NamesOf[c]
    BY <1>2, <2>1 DEF NameIsOwn
  <2> QED BY <1>2, <2>1, <2>2, ServesName DEF OwnNames
<1>3. CASE Quiet(c)
  <2>1. CASE Same(d)
    <3>1. task[d].uid \in Uids
      BY <2>1, ServesName DEF Same, Staying
    <3> QED BY <1>1, <1>3, <2>1, <3>1 DEF Quiet
  <2>2. CASE ~Same(d)
    <3>1. d = c /\ task[c].pc \in {"recv", "relay", "joined"} /\ task'[c].uid = task[c].uid
      BY <1>3, <2>2 DEF Quiet, Others, Staying
    <3> QED BY <1>3, <3>1 DEF Quiet, Staying, MemberWhileStaying
  <2> QED BY <2>1, <2>2
<1>4. CASE Register(c)
  <2>1. PICK u : u = task[c].uid
    OBVIOUS
  <2>2. PICK e : e = [conn |-> c, status |-> Null]
    OBVIOUS
  <2>3. peers' = [peers EXCEPT ![u] = e] /\ e.status = Null /\ UNCHANGED rooms
    BY <1>4, <2>1, <2>2 DEF Register
  <2>4. PICK t : t = Waiting("recv", u)
    OBVIOUS
  <2>5. task' = [task EXCEPT ![c] = t] /\ t.pc = "recv" /\ t.uid = u
    BY <1>4, <2>1, <2>4 DEF Register, Waiting
  <2>6. task'[c] = t /\ Others(c) /\ task[c].pc = "greet"
    BY <1>4, <2>5, MoveEffect DEF Register, At, TypeInv
  <2>7. u \in Uids
    BY <2>1, <2>6, ServesName
  <2>8. CASE d = c
    <3>1. peers'[u] = e
      BY <2>3, <2>7 DEF TypeInv, PeersType
    <3> QED BY <2>3, <2>5, <2>6, <2>8, <3>1, SignallingAssumption
  <2>9. CASE d # c
    <3>1. Same(d) /\ task[d].uid \in Uids /\ task[d].uid # u
      BY <1>2, <2>1, <2>6, <2>9 DEF Others
    <3>2. peers'[task[d].uid] = peers[task[d].uid]
      BY <2>3, <3>1 DEF TypeInv, PeersType
    <3> QED BY <1>1, <2>3, <3>1, <3>2
  <2> QED BY <2>8, <2>9
<1>5. CASE Paired(c)
  <2>1. PICK u \in Uids, callee \in Uids :
          /\ task[c].pc = "session_ok" /\ task[c].uid = u
          /\ \A v \in Uids : IF v \in {u, callee} THEN peers'[v].status = Session
                             ELSE peers'[v] = peers[v]
          /\ task'[c].uid = u /\ Others(c) /\ UNCHANGED rooms
    BY <1>5 DEF Paired
  <2>2. r # Session
    BY SignallingAssumption
  <2>3. d # c
    BY <2>1, <2>2
  <2>4. Same(d) /\ task[d].uid \in Uids
    BY <1>2, <2>1, <2>3 DEF Others
  <2>5. task'[d].uid = task[d].uid
    BY <2>4 DEF Same
  <2> QED BY <1>1, <2>1, <2>2, <2>4, <2>5
<1>6. CASE Entered(c)
  <2>1. PICK u \in Uids, room \in Rooms :
          /\ task[c].pc = "room_ok" /\ task[c].uid = u /\ task'[c].uid = u
          /\ peers'[u].status = room /\ u \in rooms'[room]
          /\ \A v \in Uids : v # u => peers'[v] = peers[v]
          /\ \A q \in Rooms, v \in Uids : v # u => (v \in rooms'[q] <=> v \in rooms[q])
          /\ Others(c)
    BY <1>6 DEF Entered
  <2>2. CASE d = c
    BY <2>1, <2>2
  <2>3. CASE d # c
    <3>1. Same(d) /\ task[d].uid \in Uids /\ task[d].uid # u
      BY <1>2, <2>1, <2>3 DEF Others
    <3> QED BY <1>1, <2>1, <3>1
  <2> QED BY <2>2, <2>3
<1>7. CASE Left(c)
  <2>1. PICK u \in Uids, P \in PeersType, R \in RoomsType :
          /\ task[c].pc \in Staying /\ task[c].uid = u
          /\ \A v \in Uids : v # u => P[v] = peers[v]
          /\ \A q \in Rooms, v \in Uids : v # u => (v \in R[q] <=> v \in rooms[q])
          /\ Departs(c, u, P, R)
    BY <1>7 DEF Left, Staying
  <2>2. d # c
    BY <2>1 DEF Departs, Staying
  <2>3. Same(d)
    BY <2>1, <2>2 DEF Departs
  <2>4. task[d].uid \in Uids /\ task[d].uid # u /\ task'[d].uid = task[d].uid
    BY <1>2, <2>1, <2>2, <2>3 DEF Same, Staying
  <2>5. peers'[task[d].uid] = peers[task[d].uid]
    BY <2>1, <2>4 DEF Departs
  <2>6. task[d].uid \in rooms'[r] <=> task[d].uid \in rooms[r]
    BY <2>1, <2>4 DEF Departs
  <2> QED BY <1>1, <2>3, <2>4, <2>5, <2>6
<1>8. CASE Removed(c)
  <2>1. PICK u \in Uids :
          /\ task[c].pc = "closing" /\ task[c].uid = u
          /\ Removes(c, u, peers, rooms)
    BY <1>8 DEF Removed
  <2>2. d # c
    BY <2>1 DEF Removes, Staying
  <2>3. Same(d)
    BY <2>1, <2>2 DEF Removes
  <2>4. task[d].uid \in Uids /\ task[d].uid # u
    BY <1>2, <2>1, <2>2, <2>3
  <2>5. peers'[task[d].uid] = peers[task[d].uid]
    BY <2>1, <2>4 DEF Removes
  <2>6. task[d].uid \in rooms'[r] <=> task[d].uid \in rooms[r]
    BY <2>1, <2>4 DEF Removes
  <2> QED BY <1>1, <2>3, <2>4, <2>5, <2>6
<1>9. CASE AnnouncedLeft(c)
  <2>1. d # c /\ Same(d)
    BY <1>9 DEF AnnouncedLeft, Staying, Others
  <2>2. task[d].uid \in Uids /\ task[d].uid # task[c].uid
    BY <1>2, <1>9, <2>1 DEF AnnouncedLeft
  <2>3. peers'[task[d].uid] = peers[task[d].uid]
    BY <1>9, <2>2 DEF AnnouncedLeft
  <2> QED BY <1>1, <1>9, <2>1, <2>2, <2>3 DEF AnnouncedLeft
<1> QED BY <1>3, <1>4, <1>5, <1>6, <1>7, <1>8, <1>9 DEF Step

\* When no two clients present the same name, a peer that takes commands in a room is
\* a member of it, whoever else enters, leaves or fails meanwhile.
THEOREM MembersInRooms == ASSUME OwnNames PROVE Spec => []MemberWhileInRoom
<1> DEFINE Inv == NameIsOwn /\ MemberWhileStaying
<1>1. Init => Inv
  BY DEF Init, NameIsOwn, MemberWhileStaying, Waiting, Staying
<1>2. TypeInv /\ Inv /\ [Next]_vars => Inv'
  <2>1. UNCHANGED vars /\ Inv => Inv'
    BY DEF vars, NameIsOwn, MemberWhileStaying
  <2> QED BY <2>1, NextStep, NameIsOwnStep, MemberWhileStayingStep
<1>3. Inv => MemberWhileInRoom
  BY DEF MemberWhileStaying, MemberWhileInRoom, HasStatus, At, Staying
<1> QED BY <1>1, <1>2, <1>3, TypeInvAlways, PTL DEF Spec
=============================================================================
