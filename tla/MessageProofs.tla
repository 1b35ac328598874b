--------------------------- MODULE MessageProofs ---------------------------
(***************************************************************************)
(* What the requests of message_rooms may cost and buy, for any number of  *)
(* everything.                                                             *)
(*                                                                         *)
(* A client that has used up its violations is on its way out.  The state  *)
(* predicate is not inductive: it would let a socket that is not open yet  *)
(* have used them up, so Exhausted says what such a socket must be.        *)
(*                                                                         *)
(* A broadcast keeps its room.  Quieter relates what the room knows, its   *)
(* idle time, to the history: a room looks idle no longer than it has been *)
(* hushed.                                                                 *)
(***************************************************************************)
EXTENDS MembershipProofs, MessageHistory

Exhausted ==
    DisconnectOnViolations =>
        \A c \in Conns :
            violations[c] = MaxViolations => ready[c] \in {"CLOSING", "CLOSED"}

ViolationInv == TypeOK /\ Exhausted

(* sendError: the violation that reaches the limit closes the socket.       *)
LEMMA RejectExhausts ==
    ASSUME ViolationInv, NEW c \in Conns, Receiving(c), Reject(c)
    PROVE  Exhausted'
<1> USE DEF ViolationInv, TypeOK
<1>1. /\ violations \in [Conns -> 0 .. MaxViolations]
      /\ ready \in [Conns -> ReadyStates]
    OBVIOUS
<1>2. ASSUME NEW d \in Conns, d # c
      PROVE  violations'[d] = violations[d] /\ ready'[d] = ready[d]
    BY <1>1, <1>2 DEF Reject
<1>3. ASSUME DisconnectOnViolations, violations'[c] = MaxViolations
      PROVE  ready'[c] \in {"CLOSING", "CLOSED"}
  <2>1. CASE ready[c] = "OPEN"
      BY <1>1, <1>3, <2>1 DEF Reject
  <2>2. CASE ready[c] = "CLOSING"
      BY <1>1, <2>2 DEF Reject
  <2> QED BY <2>1, <2>2 DEF Receiving
<1> QED BY <1>2, <1>3 DEF Exhausted

(* The steps that count no violation and open no socket that was not new.   *)
LEMMA PatientStep ==
    ASSUME Exhausted, violations' = violations,
           \A d \in Conns : ready'[d] # ready[d] =>
                \/ ready'[d] \in {"CLOSING", "CLOSED"}
                \/ violations[d] # MaxViolations
    PROVE  Exhausted'
BY DEF Exhausted

(* A socket that is not open yet has no violations to its name.             *)
LEMMA NewExhausted ==
    ASSUME Exhausted, NEW c \in Conns, ready[c] = "NEW", DisconnectOnViolations
    PROVE  violations[c] # MaxViolations
BY DEF Exhausted
-----------------------------------------------------------------------------
LEMMA InitViolations == Init => ViolationInv
BY InitTypeOK, RelayConstants DEF ViolationInv, Exhausted, Init

LEMMA NextViolations == ViolationInv /\ [Next]_vars => ViolationInv'
<1> SUFFICES ASSUME ViolationInv, [Next]_vars PROVE Exhausted'
    BY NextTypeOK DEF ViolationInv
<1>0. TypeOK /\ Exhausted
    BY DEF ViolationInv
<1>1. ASSUME NEW c \in Conns, Accept(c) PROVE Exhausted'
  <2>1. \A d \in Conns : d # c => ready'[d] = ready[d]
      BY <1>1, <1>0 DEF Accept, TypeOK
  <2>2. CASE DisconnectOnViolations
    <3>1. violations[c] # MaxViolations
        BY <1>0, <1>1, <2>2, NewExhausted DEF Accept
    <3> QED BY <1>0, <1>1, <2>1, <3>1, PatientStep DEF Accept
  <2>3. CASE ~DisconnectOnViolations
      BY <2>3 DEF Exhausted
  <2> QED BY <2>2, <2>3
<1>2. ASSUME NEW c \in Conns, NEW r \in RoomIds, NEW t \in Tokens,
             NEW f \in Announces(c), CreateRoom(c, r, t, f)
      PROVE  Exhausted'
    BY <1>0, <1>2, PatientStep DEF CreateRoom
<1>3. ASSUME NEW c \in Conns, NEW r \in RoomIds, NEW t \in Tokens,
             NEW f \in Announces(c), RejoinRoom(c, r, t, f)
      PROVE  Exhausted'
    BY <1>0, <1>3, PatientStep DEF RejoinRoom
<1>4. ASSUME NEW c \in Conns, NEW r \in RoomIds, NEW t \in Tokens,
             NEW f \in Announces(c), JoinRoom(c, r, t, f)
      PROVE  Exhausted'
    BY <1>0, <1>4, PatientStep DEF JoinRoom
<1>5. ASSUME NEW c \in Conns, NEW r \in RoomIds, NEW t \in Tokens,
             NEW f \in Announces(c), RefuseCreate(c, r, t, f)
      PROVE  Exhausted'
    BY <1>5, RejectExhausts DEF RefuseCreate
<1>6. ASSUME NEW c \in Conns, NEW r \in RoomIds, NEW t \in Tokens,
             NEW f \in Announces(c), RefuseJoin(c, r, t, f)
      PROVE  Exhausted'
    BY <1>6, RejectExhausts DEF RefuseJoin
<1>7. ASSUME NEW c \in Conns, NEW r \in RoomIds, RefuseKeyExchange(c, r) PROVE Exhausted'
    BY <1>7, RejectExhausts DEF RefuseKeyExchange
<1>8. ASSUME NEW c \in Conns, NEW r \in RoomIds, RefuseMessage(c, r) PROVE Exhausted'
    BY <1>8, RejectExhausts DEF RefuseMessage
<1>9. ASSUME NEW c \in Conns, RateLimitMessage(c) PROVE Exhausted'
    BY <1>9, RejectExhausts DEF RateLimitMessage
<1>10. ASSUME NEW c \in Conns, RefuseFile(c) PROVE Exhausted'
    BY <1>10, RejectExhausts DEF RefuseFile
<1>11. ASSUME NEW c \in Conns, NEW n \in Nonces, RefuseReplay(c, n) PROVE Exhausted'
    BY <1>11, RejectExhausts DEF RefuseReplay
<1>12. ASSUME NEW c \in Conns, NEW r \in RoomIds, NEW t \in Tokens, RefuseInvite(c, r, t)
       PROVE  Exhausted'
    BY <1>12, RejectExhausts DEF RefuseInvite
<1>13. ASSUME NEW c \in Conns, BadRequest(c) PROVE Exhausted'
    BY <1>13, RejectExhausts DEF BadRequest
<1>14. ASSUME NEW c \in Conns, NEW r \in RoomIds, KeyExchange(c, r) PROVE Exhausted'
    BY <1>0, <1>14, PatientStep DEF KeyExchange
<1>15. ASSUME NEW c \in Conns, NEW n \in Nonces, SendBroadcast(c, n) PROVE Exhausted'
    BY <1>0, <1>15, PatientStep DEF SendBroadcast, conn
<1>16. ASSUME NEW c \in Conns, Typing(c) PROVE Exhausted'
    BY <1>0, <1>16, PatientStep DEF Typing, conn
<1>17. ASSUME NEW c \in Conns, NEW n \in Nonces, NEW to \in Fps, SendTargeted(c, n, to)
       PROVE  Exhausted'
    BY <1>0, <1>17, PatientStep DEF SendTargeted, conn
<1>18. ASSUME NEW c \in Conns, Malformed(c) PROVE Exhausted'
    BY <1>0, <1>18, PatientStep DEF Malformed, conn
<1>19. ASSUME NEW c \in Conns, BeginClose(c) PROVE Exhausted'
    BY <1>0, <1>19, PatientStep DEF BeginClose, TypeOK
<1>20. ASSUME NEW c \in Conns, NEW r \in RoomIds, NEW t \in Tokens, InviteCreate(c, r, t)
       PROVE  Exhausted'
    BY <1>0, <1>20, PatientStep DEF InviteCreate, conn
<1>21. ASSUME NEW c \in Conns, LeaveRoom(c) PROVE Exhausted'
    BY <1>0, <1>21, PatientStep DEF LeaveRoom
<1>22. ASSUME NEW c \in Conns, Disconnect(c) PROVE Exhausted'
    BY <1>0, <1>22, PatientStep DEF Disconnect, TypeOK
<1>23. ASSUME Cleanup PROVE Exhausted'
    BY <1>0, <1>23, PatientStep DEF Cleanup
<1>24. ASSUME Tick PROVE Exhausted'
    BY <1>0, <1>24, PatientStep DEF Tick, conn
<1>25. ASSUME UNCHANGED vars PROVE Exhausted'
    BY <1>0, <1>25, PatientStep DEF vars, conn
<1> QED
  BY <1>1, <1>2, <1>3, <1>4, <1>5, <1>6, <1>7, <1>8, <1>9, <1>10,
     <1>11, <1>12, <1>13, <1>14, <1>15, <1>16, <1>17, <1>18, <1>19, <1>20,
     <1>21, <1>22, <1>23, <1>24, <1>25
     DEF Next, Handle, SocketEvent, RoomRequest, PeerRequest, MessageRequest

(* A client that has used up its violations has lost its socket, and no     *)
(* later frame or event gives it back, whatever the limit is.               *)
THEOREM ViolatorsAlwaysOut == Spec => []ViolatorsLoseTheirSocket
<1>1. ViolationInv => ViolatorsLoseTheirSocket
    BY DEF ViolationInv, Exhausted, ViolatorsLoseTheirSocket
<1> QED BY <1>1, InitViolations, NextViolations, PTL DEF Spec
-----------------------------------------------------------------------------
(* A room has been idle no longer than nothing has been broadcast in it.    *)
Quieter ==
    /\ hushed \in [RoomIds -> 0 .. IdleTimeout + 1]
    /\ \A r \in RoomIds : HasRoom(r) => rooms[r].idle <= hushed[r]

QuietInv == MembershipInv /\ Quieter

(* What the operators on rooms make of the time since the last activity.    *)
LEMMA IdleOf ==
    ASSUME NEW room \in Room, NEW c \in Conns, NEW t \in Tokens, NEW f
    PROVE  /\ UpdateLastActivity(room).idle = 0
           /\ AddClient(room, c).idle \in {0, room.idle}
           /\ RemoveClient(room, c) \in Room
           /\ AddInviteToken(room, t).idle = room.idle
           /\ BindInviteToken(room, t, f).idle = room.idle
<1>1. \A q \in Room : UpdateLastActivity(q).idle = 0
    BY DEF UpdateLastActivity, Room
<1>2. AddClient(room, c).idle \in {0, room.idle}
  <2> DEFINE longer == [room EXCEPT !.clients = Append(@, c)]
  <2>1. longer \in Room
      BY AppendProperties DEF Room
  <2> HIDE DEF longer
  <2>2. AddClient(room, c) = IF CanAddClient(room, c) THEN UpdateLastActivity(longer) ELSE room
      BY DEF AddClient, longer
  <2> QED BY <1>1, <2>1, <2>2
<1>3. RemoveClient(room, c) \in Room
    BY RemoveClientType
<1>4. AddInviteToken(room, t).idle = room.idle /\ BindInviteToken(room, t, f).idle = room.idle
    BY DEF AddInviteToken, BindInviteToken, Room
<1> QED BY <1>1, <1>2, <1>3, <1>4

(* No handler makes a room look idle for longer.                            *)
LEMMA NoLongerIdle ==
    ASSUME TypeOK, Cleanup \/ \E c \in Conns : Handle(c),
           NEW r \in RoomIds, HasRoom(r)'
    PROVE  \/ rooms'[r].idle = 0
           \/ HasRoom(r) /\ rooms'[r].idle = rooms[r].idle
<1> DEFINE Goal == rooms'[r].idle = 0 \/ (HasRoom(r) /\ rooms'[r].idle = rooms[r].idle)
<1>0. /\ rooms \in [RoomIds -> Room \cup {NoRoom}]
      /\ \A q : HasRoom(q) => rooms[q] \in Room
    BY DEF TypeOK, HasRoom
<1>1. CASE rooms'[r] = rooms[r]
    BY <1>1 DEF HasRoom
<1>2. ASSUME NEW q, rooms' = Touched(q) PROVE Goal
  <2>1. CASE HasRoom(q) /\ q = r
      BY <1>0, <1>2, <2>1, UpdateLastActivityType DEF Touched, UpdateLastActivity, Room
  <2>2. CASE ~(HasRoom(q) /\ q = r)
      BY <1>0, <1>1, <1>2, <2>2 DEF Touched
  <2> QED BY <2>1, <2>2
<1>3. ASSUME NEW c \in Conns, rooms' = RoomsWithout(c) PROVE Goal
  <2>1. CASE HasRoom(roomId[c]) /\ roomId[c] = r
    <3>1. RemoveClient(rooms[r], c) \in Room
        BY <1>0, <2>1, RemoveClientType
    <3>2. rooms'[r] = UpdateLastActivity(RemoveClient(rooms[r], c))
        BY <1>0, <1>3, <2>1 DEF RoomsWithout
    <3> QED BY <3>1, <3>2 DEF UpdateLastActivity, Room
  <2>2. CASE ~(HasRoom(roomId[c]) /\ roomId[c] = r)
      BY <1>0, <1>1, <1>3, <2>2 DEF RoomsWithout
  <2> QED BY <2>1, <2>2
<1>4. CASE Cleanup
    BY <1>1, <1>4 DEF Cleanup, HasRoom
<1>5. ASSUME NEW c \in Conns, NEW q \in RoomIds, NEW t \in Tokens, NEW f \in Announces(c),
             CreateRoom(c, q, t, f)
      PROVE  Goal
  <2>1. AddRoom(t) \in Room /\ AddRoom(t).idle = 0
      BY AddRoomType DEF AddRoom
  <2>2. CASE q = r
      BY <1>0, <1>5, <2>1, <2>2, IdleOf DEF CreateRoom
  <2>3. CASE q # r
      BY <1>0, <1>1, <1>5, <2>3 DEF CreateRoom
  <2> QED BY <2>2, <2>3
<1>6. ASSUME NEW c \in Conns, NEW q \in RoomIds, NEW t \in Tokens, NEW f \in Announces(c),
             RejoinRoom(c, q, t, f) \/ JoinRoom(c, q, t, f)
      PROVE  Goal
  <2>1. HasRoom(q) /\ rooms[q] \in Room
      BY <1>0, <1>6 DEF RejoinRoom, CanRejoin, JoinRoom, CanJoin
  <2>2. AddClient(rooms[q], c) \in Room /\ AddClient(rooms[q], c).idle \in {0, rooms[q].idle}
      BY <2>1, IdleOf, AddClientType
  <2>3. BindInviteToken(AddClient(rooms[q], c), t, f).idle \in {0, rooms[q].idle}
      BY <2>2, IdleOf
  <2>4. \/ rooms' = [rooms EXCEPT ![q] = AddClient(rooms[q], c)]
        \/ rooms' = [rooms EXCEPT ![q] = BindInviteToken(AddClient(rooms[q], c), t, f)]
      BY <1>6 DEF RejoinRoom, JoinRoom
  <2>5. CASE q = r
      BY <1>0, <2>1, <2>2, <2>3, <2>4, <2>5
  <2>6. CASE q # r
      BY <1>0, <1>1, <2>4, <2>6
  <2> QED BY <2>5, <2>6
<1>7. ASSUME NEW c \in Conns, NEW q \in RoomIds, NEW t \in Tokens, InviteCreate(c, q, t)
      PROVE  Goal
  <2>1. HasRoom(q) /\ rooms[q] \in Room
      BY <1>0, <1>7 DEF InviteCreate, CanInvite
  <2>2. AddInviteToken(rooms[q], t).idle = rooms[q].idle
      BY <2>1 DEF AddInviteToken, Room
  <2>3. rooms' = [rooms EXCEPT ![q] = AddInviteToken(rooms[q], t)]
      BY <1>7 DEF InviteCreate
  <2>4. CASE q = r
      BY <1>0, <2>1, <2>2, <2>3, <2>4
  <2>5. CASE q # r
      BY <1>0, <1>1, <2>3, <2>5
  <2> QED BY <2>4, <2>5
<1>8. ASSUME NEW c \in Conns, RoomRequest(c) PROVE Goal
  <2>1. ASSUME NEW q \in RoomIds, NEW t \in Tokens, NEW f \in Announces(c),
               RefuseCreate(c, q, t, f) \/ RefuseJoin(c, q, t, f)
        PROVE  Goal
      BY <1>1, <2>1 DEF RefuseCreate, RefuseJoin
  <2>2. ASSUME NEW q \in RoomIds, NEW t \in Tokens, RefuseInvite(c, q, t) PROVE Goal
      BY <1>1, <2>2 DEF RefuseInvite
  <2>3. CASE LeaveRoom(c)
      BY <1>3, <2>3 DEF LeaveRoom
  <2> HIDE DEF Goal
  <2> QED BY <1>5, <1>6, <1>7, <1>8, <2>1, <2>2, <2>3 DEF RoomRequest
<1>9. ASSUME NEW c \in Conns, PeerRequest(c) \/ MessageRequest(c) PROVE Goal
  <2>1. (\E q : rooms' = Touched(q)) \/ rooms' = rooms
      BY <1>9
         DEF PeerRequest, KeyExchange, RefuseKeyExchange, Typing, BadRequest, Malformed,
             MessageRequest, RefuseMessage, RateLimitMessage, RefuseFile, RefuseReplay,
             SendBroadcast, SendTargeted
  <2> QED BY <1>1, <1>2, <2>1
<1>10. ASSUME NEW c \in Conns, SocketEvent(c) PROVE Goal
    BY <1>1, <1>3, <1>10 DEF SocketEvent, Accept, BeginClose, Disconnect
<1> QED BY <1>4, <1>8, <1>9, <1>10 DEF Handle

(* A broadcast makes its room active.                                       *)
LEMMA BroadcastTouches ==
    ASSUME TypeOK, NEW c \in Conns, NEW r \in RoomIds, Broadcasts(c, r), HasRoom(r)'
    PROVE  rooms'[r].idle = 0
<1>1. roomId[c] = r /\ (rooms' = Touched(r) \/ rooms' = RoomsWithout(c))
    BY DEF Broadcasts, SendBroadcast, KeyExchange, Typing, LeaveRoom
<1>2. HasRoom(r)
    BY <1>1, RoomsWithoutType DEF Touched, HasRoom
<1>3. rooms[r] \in Room /\ rooms \in [RoomIds -> Room \cup {NoRoom}]
    BY <1>2 DEF HasRoom, TypeOK
<1>4. RemoveClient(rooms[r], c) \in Room
    BY <1>3, RemoveClientType
<1>5. \A room \in Room : UpdateLastActivity(room).idle = 0
    BY DEF UpdateLastActivity, Room
<1>6. CASE rooms' = Touched(r)
    BY <1>2, <1>3, <1>5, <1>6 DEF Touched
<1>7. CASE rooms' = RoomsWithout(c)
  <2>1. rooms'[r] = UpdateLastActivity(RemoveClient(rooms[r], c))
      BY <1>1, <1>2, <1>3, <1>7 DEF RoomsWithout
  <2> QED BY <1>4, <1>5, <2>1
<1> QED BY <1>1, <1>6, <1>7

LEMMA NextQuiet == QuietInv /\ [HistoryNext]_<<vars, hushed>> => QuietInv'
<1> SUFFICES ASSUME QuietInv, [HistoryNext]_<<vars, hushed>> PROVE QuietInv'
    OBVIOUS
<1> USE RoomConstants DEF QuietInv
<1>0. TypeOK
    BY DEF MembershipInv
<1>1. MembershipInv' /\ TypeOK'
  <2>1. [Next]_vars
      BY DEF HistoryNext, Elapse, Record, Next
  <2> QED BY <2>1, NextMembership DEF MembershipInv
<1>2. \A r \in RoomIds : HasRoom(r)' => rooms'[r].idle \in 0 .. IdleTimeout + 1
    BY <1>1 DEF TypeOK, HasRoom, Room
<1>3. CASE Elapse
  <2>1. hushed' = [r \in RoomIds |-> Later(hushed[r], IdleTimeout)]
      BY <1>3 DEF Elapse
  <2>2. \A r \in RoomIds : hushed'[r] \in 0 .. IdleTimeout + 1
      BY <2>1 DEF Quieter, Later
  <2>3. ASSUME NEW r \in RoomIds, HasRoom(r)' PROVE rooms'[r].idle <= hushed'[r]
    <3>1. HasRoom(r) /\ rooms'[r] = Aged(rooms[r])
        BY <1>3, <2>3 DEF Elapse, Tick, HasRoom
    <3>2. rooms[r] \in Room
        BY <1>0, <3>1 DEF HasRoom, TypeOK
    <3>3. rooms'[r].idle = Later(rooms[r].idle, IdleTimeout)
        BY <3>1, <3>2 DEF Aged, Later, Room
    <3>4. rooms[r].idle \in Nat /\ rooms[r].idle <= hushed[r]
        BY <3>1, <3>2 DEF Quieter, Room
    <3> QED BY <2>1, <3>3, <3>4 DEF Later, Quieter
  <2> QED BY <1>1, <2>1, <2>2, <2>3 DEF Quieter
<1>4. CASE Record
  <2>1. /\ Cleanup \/ \E c \in Conns : Handle(c)
        /\ hushed' = [r \in RoomIds |->
                        IF \E c \in Conns : Broadcasts(c, r) THEN 0 ELSE hushed[r]]
      BY <1>4 DEF Record
  <2>2. \A r \in RoomIds : hushed'[r] \in 0 .. IdleTimeout + 1
      BY <2>1 DEF Quieter
  <2>3. ASSUME NEW r \in RoomIds, HasRoom(r)' PROVE rooms'[r].idle <= hushed'[r]
    <3>1. CASE rooms'[r].idle = 0
        BY <2>2, <3>1
    <3>2. CASE rooms'[r].idle # 0
      <4>1. ~ \E c \in Conns : Broadcasts(c, r)
          BY <1>0, <2>3, <3>2, BroadcastTouches
      <4>2. HasRoom(r) /\ rooms'[r].idle = rooms[r].idle
          BY <1>0, <2>1, <2>3, <3>2, NoLongerIdle
      <4> QED BY <2>1, <4>1, <4>2 DEF Quieter
    <3> QED BY <3>1, <3>2
  <2> QED BY <1>1, <2>1, <2>2, <2>3 DEF Quieter
<1>5. CASE UNCHANGED <<vars, hushed>>
    BY <1>1, <1>5 DEF vars, Quieter, HasRoom
<1> QED BY <1>3, <1>4, <1>5 DEF HistoryNext

(* A room whose lifetime is not over closes only when nothing has been      *)
(* broadcast in it for the idle timeout, for any rooms, users and timeouts. *)
THEOREM BroadcastAlwaysKeeps == HistorySpec => BroadcastKeepsRoom
<1>1. HistoryInit => QuietInv
    BY InitMembership, RoomConstants DEF HistoryInit, QuietInv, Quieter, Init, HasRoom
<1>2. ASSUME QuietInv, [HistoryNext]_<<vars, hushed>>, NEW r \in RoomIds, ClosedIdle(r)
      PROVE  hushed[r] > IdleTimeout
  <2>1. HasRoom(r) /\ ~HasRoom(r)' /\ rooms[r].age <= Lifetime
      BY <1>2 DEF ClosedIdle
  <2>2. rooms[r] \in Room
      BY <1>2, <2>1 DEF QuietInv, MembershipInv, TypeOK, HasRoom
  <2>3. IsExpired(rooms[r])
    <3>1. Cleanup
      <4>1. [Next]_vars
          BY <1>2 DEF HistoryNext, Elapse, Record, Next
      <4>2. MembershipInv
          BY <1>2 DEF QuietInv
      <4> QED BY <2>1, <4>1, <4>2, OnlyCleanupRemoves
    <3> QED BY <2>1, <3>1 DEF Cleanup, Expired, HasRoom
  <2>4. rooms[r].idle > IdleTimeout
      BY <2>1, <2>2, <2>3, RoomConstants DEF IsExpired, Room
  <2>5. rooms[r].idle <= hushed[r] /\ hushed[r] \in 0 .. IdleTimeout + 1
      BY <1>2, <2>1 DEF QuietInv, Quieter
  <2> QED BY <2>2, <2>4, <2>5, RoomConstants DEF Room
<1>3. QuietInv /\ [HistoryNext]_<<vars, hushed>> =>
        [\A r \in RoomIds : ClosedIdle(r) => hushed[r] > IdleTimeout]_<<vars, hushed>>
    BY <1>2
<1> QED BY <1>1, <1>3, NextQuiet, PTL DEF HistorySpec, BroadcastKeepsRoom
=============================================================================
