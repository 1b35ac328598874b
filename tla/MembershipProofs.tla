-------------------------- MODULE MembershipProofs --------------------------
(***************************************************************************)
(* The two records of membership agree: client.roomId, which the handlers  *)
(* of one connection read and write, and room.clients, which decides who   *)
(* hears what.  The inductive invariant MembershipInv joins the agreement  *)
(* to the well-formedness of the lists, without which removing a client    *)
(* from its list need not take it out.  From it follow what no step does   *)
(* (close a room behind a client's back, take away a token, come or go     *)
(* unannounced) and the refinement of RoomAccess.                          *)
(***************************************************************************)
EXTENDS RelayProofs, FiniteSetTheorems

(* Before it is opened a socket is in no room.                              *)
NewInNoRoom == \A c \in Conns : ready[c] = "NEW" => roomId[c] = NoRoomId

MembershipInv ==
    /\ TypeOK
    /\ NewInNoRoom
    /\ RoomsWellFormed
    /\ OpenMembersListed
    /\ ClosedNotListed

(* Steps that move nobody: the lists stay, and sockets at most begin to     *)
(* close.                                                                  *)
LEMMA SteadyStep ==
    ASSUME MembershipInv, TypeOK', SameLists(rooms'), roomId' = roomId,
           \A d \in Conns : \/ ready'[d] = ready[d]
                            \/ ready[d] = "OPEN" /\ ready'[d] = "CLOSING"
    PROVE  MembershipInv'
<1>1. \A r : HasRoom(r)' <=> HasRoom(r)
    BY DEF SameLists, HasRoom
<1>2. \A r : HasRoom(r) => rooms'[r].clients = rooms[r].clients
    BY DEF SameLists, HasRoom
<1>3. \A d, r : Listed(d, r)' <=> Listed(d, r)
    BY <1>1, <1>2 DEF Listed, Members
<1>4. RoomsWellFormed'
    BY <1>1, <1>2 DEF MembershipInv, RoomsWellFormed
<1>5. OpenMembersListed'
    BY <1>3 DEF MembershipInv, OpenMembersListed
<1>6. ClosedNotListed'
    BY <1>3 DEF MembershipInv, ClosedNotListed
<1>7. NewInNoRoom'
    BY DEF MembershipInv, NewInNoRoom
<1> QED BY <1>4, <1>5, <1>6, <1>7 DEF MembershipInv

(* The steps that let c into r, on whatever grounds: the list of r, empty   *)
(* if r is new, gets c at its end and the other rooms stay.                 *)
LEMMA EnterStep ==
    ASSUME MembershipInv, TypeOK',
           NEW c \in Conns, NEW r \in RoomIds, NEW list \in Seq(Conns),
           Receiving(c), ready' = ready, roomId' = [roomId EXCEPT ![c] = r],
           \A q \in RoomIds : q # r => rooms'[q] = rooms[q],
           rooms'[r] # NoRoom,
           rooms'[r].clients = Append(list, c),
           rooms[r] # NoRoom => rooms[r].clients = list,
           rooms[r] = NoRoom => list = <<>>,
           Len(list) < MaxParticipants, c \notin ToSet(list), IsInjective(list)
    PROVE  MembershipInv'
<1>1. /\ Len(Append(list, c)) = Len(list) + 1
      /\ ToSet(Append(list, c)) = ToSet(list) \cup {c}
    BY AppendMembers
<1>2. Len(Append(list, c)) \in 0 .. MaxParticipants
    BY <1>1, RoomConstants, LenProperties
<1>3. IsInjective(Append(list, c))
  <2> DEFINE a == Append(list, c)
  <2>1. /\ DOMAIN a = 1 .. Len(list) + 1
        /\ \A i \in 1 .. Len(list) : a[i] = list[i] /\ a[i] # c
        /\ a[Len(list) + 1] = c
      BY AppendProperties DEF ToSet
  <2>2. \A i, j \in 1 .. Len(list) : list[i] = list[j] => i = j
      BY DEF IsInjective
  <2> HIDE DEF a
  <2>3. ASSUME NEW i \in DOMAIN a, NEW j \in DOMAIN a, a[i] = a[j] PROVE i = j
    <3>1. CASE i \in 1 .. Len(list) /\ j \in 1 .. Len(list)
        BY <2>1, <2>2, <2>3, <3>1
    <3>2. CASE i = Len(list) + 1 \/ j = Len(list) + 1
      <4>1. \A k \in DOMAIN a : k = Len(list) + 1 \/ k \in 1 .. Len(list)
          BY <2>1, LenProperties
      <4> QED BY <2>1, <2>3, <3>2, <4>1
    <3> QED BY <2>1, <3>1, <3>2, LenProperties
  <2> QED BY <2>3 DEF IsInjective, a
<1>4. \A q \in RoomIds : q # r => (HasRoom(q)' <=> HasRoom(q))
    BY DEF HasRoom
<1>5. RoomsWellFormed'
    BY <1>2, <1>3, <1>4 DEF MembershipInv, RoomsWellFormed, HasRoom
<1>6. \A d \in Conns : \A q : q # r => (Listed(d, q)' <=> Listed(d, q))
    BY DEF Listed, Members, HasRoom
<1>7. \A d \in Conns : Listed(d, r)' <=> Listed(d, r) \/ d = c
  <2>1. \A d \in Conns : Listed(d, r) <=> d \in ToSet(list)
      BY DEF Listed, Members, HasRoom, ToSet
  <2>2. \A d \in Conns : Listed(d, r)' <=> d \in ToSet(Append(list, c))
      BY DEF Listed, Members, HasRoom
  <2> QED BY <1>1, <2>1, <2>2
<1>8. \A d \in Conns : roomId'[d] = IF d = c THEN r ELSE roomId[d]
    BY DEF MembershipInv, TypeOK
<1>9. OpenMembersListed'
    BY <1>6, <1>7, <1>8 DEF MembershipInv, OpenMembersListed
<1>10. ClosedNotListed'
    BY <1>6, <1>7, <1>8 DEF MembershipInv, ClosedNotListed, Receiving
<1>11. NewInNoRoom'
    BY <1>8 DEF MembershipInv, NewInNoRoom, Receiving
<1> QED BY <1>5, <1>9, <1>10, <1>11 DEF MembershipInv

(* Taking c out of the room it is in, if that room still exists, takes out  *)
(* c and nobody else, and leaves the lists well formed.                     *)
LEMMA DepartLists ==
    ASSUME MembershipInv, NEW c \in Conns, rooms' = RoomsWithout(c)
    PROVE  /\ RoomsWellFormed'
           /\ \A d \in Conns : \A r : d # c => (Listed(d, r)' <=> Listed(d, r))
           /\ \A d \in Conns : \A r : Listed(d, r)' => Listed(d, r)
           /\ \A r : r = roomId[c] => ~Listed(c, r)'
<1> USE DEF MembershipInv
<1>1. \A r : HasRoom(r)' <=> HasRoom(r)
    BY RoomsWithoutType DEF HasRoom
<1>2. ASSUME NEW r, HasRoom(r)
      PROVE  /\ IsInjective(rooms'[r].clients)
             /\ Len(rooms'[r].clients) \in 0 .. MaxParticipants
             /\ Members(rooms'[r]) = IF r = roomId[c] THEN Members(rooms[r]) \ {c}
                                                      ELSE Members(rooms[r])
  <2>1. r \in RoomIds /\ rooms[r] \in Room
      BY <1>2 DEF HasRoom, TypeOK
  <2>2. /\ IsInjective(rooms[r].clients)
        /\ Len(rooms[r].clients) \in 0 .. MaxParticipants
      BY <1>2, <2>1 DEF RoomsWellFormed
  <2>3. CASE r # roomId[c]
    <3>1. rooms'[r] = rooms[r]
        BY <2>1, <2>3, RoomsWithoutType
    <3> QED BY <2>2, <2>3, <3>1
  <2>4. CASE r = roomId[c]
    <3> DEFINE old == rooms[r].clients
    <3>1. rooms'[r].clients = Without(old, c)
        BY <1>2, <2>1, <2>4, RoomsWithoutType DEF HasRoom
    <3>2. old \in Seq(Conns)
        BY <2>1 DEF Room
    <3>3. /\ Without(old, c) \in Seq(Conns)
          /\ Len(Without(old, c)) <= Len(old)
          /\ IsInjective(Without(old, c))
          /\ ToSet(Without(old, c)) = ToSet(old) \ {c}
        BY <2>2, <3>2, WithoutMembers
    <3>4. Len(Without(old, c)) \in 0 .. MaxParticipants
        BY <2>2, <3>3, RoomConstants, LenProperties
    <3> QED BY <2>4, <3>1, <3>3, <3>4 DEF Members
  <2> QED BY <2>3, <2>4
<1>3. RoomsWellFormed'
    BY <1>1, <1>2 DEF RoomsWellFormed
<1>4. \A d \in Conns : \A r : d # c => (Listed(d, r)' <=> Listed(d, r))
    BY <1>1, <1>2 DEF Listed
<1>5. \A d \in Conns : \A r : Listed(d, r)' => Listed(d, r)
    BY <1>1, <1>2 DEF Listed
<1>6. \A r : r = roomId[c] => ~Listed(c, r)'
    BY <1>1, <1>2 DEF Listed
<1> QED BY <1>1, <1>3, <1>4, <1>5, <1>6 DEF Listed
-----------------------------------------------------------------------------
LEMMA InitMembership == Init => MembershipInv
BY InitTypeOK, RelayConstants
   DEF MembershipInv, NewInNoRoom, Init, RoomsWellFormed, OpenMembersListed, ClosedNotListed, HasRoom

LEMMA NextMembership == MembershipInv /\ [Next]_vars => MembershipInv'
<1> SUFFICES ASSUME MembershipInv, [Next]_vars PROVE MembershipInv'
    OBVIOUS
<1>0. TypeOK /\ TypeOK'
    BY NextTypeOK DEF MembershipInv
<1>1. ASSUME NEW c \in Conns, Accept(c) PROVE MembershipInv'
  <2>1. \A d, r : Listed(d, r)' <=> Listed(d, r)
      BY <1>1 DEF Accept, Listed, HasRoom
  <2>2. /\ \A r : HasRoom(r)' <=> HasRoom(r)
        /\ rooms' = rooms
      BY <1>1 DEF Accept, HasRoom
  <2>3. ready[c] = "NEW" /\ roomId' = roomId
      BY <1>1 DEF Accept
  <2>4. OpenMembersListed'
      BY <1>1, <1>0, <2>1, <2>3 DEF Accept, OpenMembersListed, MembershipInv, NewInNoRoom, TypeOK
  <2> QED BY <1>1, <1>0, <2>1, <2>2, <2>4
          DEF Accept, MembershipInv, NewInNoRoom, TypeOK, RoomsWellFormed, ClosedNotListed
<1>2. ASSUME NEW c \in Conns, NEW r \in RoomIds, NEW t \in Tokens, NEW f \in Announces(c),
             CreateRoom(c, r, t, f)
      PROVE MembershipInv'
  <2> DEFINE list == <<>>
  <2>1. /\ list \in Seq(Conns) /\ Len(list) = 0
        /\ ToSet(list) = {} /\ IsInjective(list)
      BY DEF ToSet, IsInjective
  <2>2. AddRoom(t) \in Room /\ AddRoom(t).clients = list
      BY AddRoomType
  <2>3. CanAddClient(AddRoom(t), c)
      BY <2>1, <2>2, RoomConstants DEF CanAddClient, Members
  <2>4. rooms'[r] \in Room /\ rooms'[r].clients = Append(list, c)
      BY <1>2, <1>0, <2>2, <2>3, AddClientType DEF CreateRoom, TypeOK
  <2>5. rooms'[r] # NoRoom
      BY <2>4, NoRoomAssumption
  <2>6. \A q \in RoomIds : q # r => rooms'[q] = rooms[q]
      BY <1>2, <1>0 DEF CreateRoom, TypeOK
  <2>7. Len(list) < MaxParticipants /\ c \notin ToSet(list)
      BY <2>1, RoomConstants
  <2>8. /\ Receiving(c) /\ rooms[r] = NoRoom
        /\ ready' = ready /\ roomId' = [roomId EXCEPT ![c] = r]
      BY <1>2 DEF CreateRoom
  <2>9. list = <<>>
      OBVIOUS
  <2> HIDE DEF list
  <2> QED BY <1>0, <2>1, <2>4, <2>5, <2>6, <2>7, <2>8, <2>9, EnterStep
<1>3. ASSUME NEW c \in Conns, NEW r \in RoomIds, NEW t \in Tokens, NEW f \in Announces(c),
             RejoinRoom(c, r, t, f)
      PROVE MembershipInv'
  <2> DEFINE list == rooms[r].clients
  <2>1. rooms[r] \in Room /\ rooms[r] # NoRoom
      BY <1>3, <1>0 DEF RejoinRoom, CanRejoin, HasRoom, TypeOK
  <2>2. /\ list \in Seq(Conns) /\ IsInjective(list)
        /\ Len(list) < MaxParticipants /\ c \notin ToSet(list)
      BY <1>3, <2>1 DEF RejoinRoom, CanRejoin, CanAddClient, Members, MembershipInv,
                       RoomsWellFormed, HasRoom, Room
  <2>3. rooms' = [rooms EXCEPT ![r] = AddClient(rooms[r], c)]
      BY <1>3 DEF RejoinRoom
  <2>4. rooms'[r] \in Room /\ rooms'[r].clients = Append(list, c)
      BY <1>3, <1>0, <2>1, <2>3, AddClientType DEF RejoinRoom, CanRejoin, TypeOK
  <2>5. rooms'[r] # NoRoom
      BY <2>4, NoRoomAssumption
  <2>6. \A q \in RoomIds : q # r => rooms'[q] = rooms[q]
      BY <1>0, <2>3 DEF TypeOK
  <2> HIDE DEF list
  <2> QED BY <1>3, <1>0, <2>1, <2>2, <2>4, <2>5, <2>6, EnterStep DEF RejoinRoom, list
<1>4. ASSUME NEW c \in Conns, NEW r \in RoomIds, NEW t \in Tokens, NEW f \in Announces(c),
             JoinRoom(c, r, t, f)
      PROVE MembershipInv'
  <2> DEFINE list == rooms[r].clients
  <2>1. rooms[r] \in Room /\ rooms[r] # NoRoom
      BY <1>4, <1>0 DEF JoinRoom, CanJoin, HasRoom, TypeOK
  <2>2. /\ list \in Seq(Conns) /\ IsInjective(list)
        /\ Len(list) < MaxParticipants /\ c \notin ToSet(list)
      BY <1>4, <2>1 DEF JoinRoom, CanJoin, CanAddClient, Members, MembershipInv,
                       RoomsWellFormed, HasRoom, Room
  <2>3. rooms' = [rooms EXCEPT ![r] = BindInviteToken(AddClient(rooms[r], c), t, f)]
      BY <1>4 DEF JoinRoom
  <2>4. rooms'[r] \in Room /\ rooms'[r].clients = Append(list, c)
      BY <1>4, <1>0, <2>1, <2>3, AddClientType, BindInviteTokenType, KnownType DEF JoinRoom, CanJoin, TypeOK
  <2>5. rooms'[r] # NoRoom
      BY <2>4, NoRoomAssumption
  <2>6. \A q \in RoomIds : q # r => rooms'[q] = rooms[q]
      BY <1>0, <2>3 DEF TypeOK
  <2> HIDE DEF list
  <2> QED BY <1>4, <1>0, <2>1, <2>2, <2>4, <2>5, <2>6, EnterStep DEF JoinRoom, list
<1>5. ASSUME NEW c \in Conns, NEW r \in RoomIds, NEW t \in Tokens, NEW f \in Announces(c),
             RefuseCreate(c, r, t, f)
      PROVE MembershipInv'
    BY <1>5, <1>0, RejectType, SteadyStep DEF RefuseCreate, SameLists
<1>6. ASSUME NEW c \in Conns, NEW r \in RoomIds, NEW t \in Tokens, NEW f \in Announces(c),
             RefuseJoin(c, r, t, f)
      PROVE MembershipInv'
    BY <1>6, <1>0, RejectType, SteadyStep DEF RefuseJoin, SameLists
<1>7. ASSUME NEW c \in Conns, NEW r \in RoomIds, RefuseKeyExchange(c, r)
      PROVE MembershipInv'
    BY <1>7, <1>0, RejectType, SteadyStep DEF RefuseKeyExchange, SameLists
<1>8. ASSUME NEW c \in Conns, NEW r \in RoomIds, RefuseMessage(c, r)
      PROVE MembershipInv'
    BY <1>8, <1>0, RejectType, SteadyStep DEF RefuseMessage, SameLists
<1>9. ASSUME NEW c \in Conns, RateLimitMessage(c) PROVE MembershipInv'
    BY <1>9, <1>0, RejectType, SteadyStep DEF RateLimitMessage, SameLists
<1>10. ASSUME NEW c \in Conns, RefuseFile(c) PROVE MembershipInv'
    BY <1>10, <1>0, RejectType, SteadyStep DEF RefuseFile, SameLists
<1>11. ASSUME NEW c \in Conns, NEW n \in Nonces, RefuseReplay(c, n) PROVE MembershipInv'
    BY <1>11, <1>0, RejectType, SteadyStep DEF RefuseReplay, SameLists
<1>12. ASSUME NEW c \in Conns, NEW r \in RoomIds, NEW t \in Tokens,
              RefuseInvite(c, r, t)
       PROVE MembershipInv'
    BY <1>12, <1>0, RejectType, SteadyStep DEF RefuseInvite, SameLists
<1>13. ASSUME NEW c \in Conns, BadRequest(c) PROVE MembershipInv'
    BY <1>13, <1>0, RejectType, SteadyStep DEF BadRequest, SameLists
<1>14. ASSUME NEW c \in Conns, NEW r \in RoomIds, KeyExchange(c, r) PROVE MembershipInv'
    BY <1>14, <1>0, TouchedType, SteadyStep DEF KeyExchange
<1>15. ASSUME NEW c \in Conns, NEW n \in Nonces, SendBroadcast(c, n)
       PROVE MembershipInv'
    BY <1>15, <1>0, TouchedType, SteadyStep DEF SendBroadcast, conn
<1>16. ASSUME NEW c \in Conns, Typing(c) PROVE MembershipInv'
    BY <1>16, <1>0, TouchedType, SteadyStep DEF Typing, conn
<1>17. ASSUME NEW c \in Conns, NEW n \in Nonces, NEW to \in Fps, SendTargeted(c, n, to)
       PROVE MembershipInv'
    BY <1>17, <1>0, SteadyStep DEF SendTargeted, conn, SameLists, TypeOK
<1>18. ASSUME NEW c \in Conns, Malformed(c) PROVE MembershipInv'
    BY <1>18, <1>0, SteadyStep DEF Malformed, conn, SameLists, TypeOK
<1>19. ASSUME NEW c \in Conns, BeginClose(c) PROVE MembershipInv'
    BY <1>19, <1>0, SteadyStep DEF BeginClose, conn, SameLists, TypeOK
<1>20. ASSUME NEW c \in Conns, NEW r \in RoomIds, NEW t \in Tokens,
              InviteCreate(c, r, t)
       PROVE MembershipInv'
  <2>1. rooms[r] \in Room /\ rooms[r] # NoRoom
      BY <1>20, <1>0 DEF InviteCreate, CanInvite, HasRoom, TypeOK
  <2>2. /\ AddInviteToken(rooms[r], t) \in Room
        /\ AddInviteToken(rooms[r], t).clients = rooms[r].clients
      BY <2>1, AddInviteTokenType
  <2>3. rooms' = [rooms EXCEPT ![r] = AddInviteToken(rooms[r], t)]
      BY <1>20 DEF InviteCreate
  <2>4. SameLists(rooms')
      BY <1>0, <2>1, <2>2, <2>3, NoRoomAssumption DEF SameLists, TypeOK
  <2> QED BY <1>20, <1>0, <2>4, SteadyStep DEF InviteCreate, conn
<1>21. ASSUME NEW c \in Conns, LeaveRoom(c) PROVE MembershipInv'
  <2>1. /\ RoomsWellFormed'
        /\ \A d \in Conns : \A r : d # c => (Listed(d, r)' <=> Listed(d, r))
        /\ \A d \in Conns : \A r : Listed(d, r)' => Listed(d, r)
      BY <1>21, DepartLists DEF LeaveRoom
  <2>2. /\ ready' = ready
        /\ \A d \in Conns : roomId'[d] = IF d = c THEN NoRoomId ELSE roomId[d]
      BY <1>21, <1>0 DEF LeaveRoom, TypeOK
  <2>3. OpenMembersListed'
      BY <2>1, <2>2 DEF MembershipInv, OpenMembersListed
  <2>4. ~HasRoom(NoRoomId)'
      BY RelayConstants DEF HasRoom
  <2>5. ClosedNotListed'
      BY <2>1, <2>2, <2>4 DEF MembershipInv, ClosedNotListed, Listed
  <2>6. NewInNoRoom'
      BY <2>2 DEF MembershipInv, NewInNoRoom
  <2> QED BY <1>0, <2>1, <2>3, <2>5, <2>6 DEF MembershipInv
<1>22. ASSUME NEW c \in Conns, Disconnect(c) PROVE MembershipInv'
  <2>1. /\ RoomsWellFormed'
        /\ \A d \in Conns : \A r : d # c => (Listed(d, r)' <=> Listed(d, r))
        /\ \A d \in Conns : \A r : Listed(d, r)' => Listed(d, r)
        /\ \A r : r = roomId[c] => ~Listed(c, r)'
      BY <1>22, DepartLists DEF Disconnect
  <2>2. /\ roomId' = roomId
        /\ \A d \in Conns : ready'[d] = IF d = c THEN "CLOSED" ELSE ready[d]
      BY <1>22, <1>0 DEF Disconnect, TypeOK
  <2>3. OpenMembersListed'
      BY <2>1, <2>2 DEF MembershipInv, OpenMembersListed
  <2>4. ClosedNotListed'
      BY <2>1, <2>2 DEF MembershipInv, ClosedNotListed
  <2>5. NewInNoRoom'
      BY <2>2 DEF MembershipInv, NewInNoRoom
  <2> QED BY <1>0, <2>1, <2>3, <2>4, <2>5 DEF MembershipInv
<1>23. ASSUME Cleanup PROVE MembershipInv'
  <2>1. \A r \in RoomIds : rooms'[r] = IF r \in Expired THEN NoRoom ELSE rooms[r]
      BY <1>23 DEF Cleanup
  <2>2. \A d, r : Listed(d, r)' <=> Listed(d, r) /\ r \notin Expired
      BY <2>1 DEF Listed, HasRoom
  <2>3. \A r : HasRoom(r)' => HasRoom(r) /\ rooms'[r] = rooms[r]
      BY <2>1 DEF HasRoom
  <2>4. /\ roomId' = roomId
        /\ \A d \in Conns : ready'[d] = IF d \in Evicted THEN "CLOSING" ELSE ready[d]
      BY <1>23 DEF Cleanup
  <2>5. RoomsWellFormed'
      BY <2>3 DEF MembershipInv, RoomsWellFormed
  <2>6. OpenMembersListed'
    <3>1. \A d \in Conns : ready'[d] = "OPEN" =>
            ready[d] = "OPEN" /\ \A r \in Expired : ~Listed(d, r)
        BY <2>4 DEF Evicted
    <3> QED BY <2>2, <2>4, <3>1 DEF MembershipInv, OpenMembersListed
  <2>7. ClosedNotListed'
      BY <2>2, <2>4 DEF MembershipInv, ClosedNotListed
  <2>8. NewInNoRoom'
      BY <2>4 DEF MembershipInv, NewInNoRoom
  <2> QED BY <1>0, <2>5, <2>6, <2>7, <2>8 DEF MembershipInv
<1>24. ASSUME Tick PROVE MembershipInv'
  <2>1. SameLists(rooms')
    <3>1. \A r \in RoomIds : rooms[r] # NoRoom =>
            /\ Aged(rooms[r]) # NoRoom
            /\ Aged(rooms[r]).clients = rooms[r].clients
        BY <1>0, AgedType, NoRoomAssumption DEF TypeOK
    <3> QED BY <1>24, <3>1 DEF Tick, SameLists, HasRoom
  <2> QED BY <1>24, <1>0, <2>1, SteadyStep DEF Tick, conn
<1>25. ASSUME UNCHANGED vars PROVE MembershipInv'
    BY <1>25, <1>0, SteadyStep DEF vars, conn, SameLists
<1> QED
  BY <1>1, <1>2, <1>3, <1>4, <1>5, <1>6, <1>7, <1>8, <1>9, <1>10,
     <1>11, <1>12, <1>13, <1>14, <1>15, <1>16, <1>17, <1>18, <1>19, <1>20,
     <1>21, <1>22, <1>23, <1>24, <1>25
     DEF Next, Handle, SocketEvent, RoomRequest, PeerRequest, MessageRequest

LEMMA MembershipInvariant == Spec => []MembershipInv
<1> QED BY InitMembership, NextMembership, PTL DEF Spec

(* A client that is connected and believes it is in a room is in that       *)
(* room's list: no order of creates, joins, leaves, closings of sockets and *)
(* expiries makes the relay pass by or listen to somebody outside.          *)
THEOREM OpenMembersAlwaysListed == Spec => []OpenMembersListed
<1>1. MembershipInv => OpenMembersListed
    BY DEF MembershipInv
<1> QED BY <1>1, MembershipInvariant, PTL

(* After its 'close' event a connection is out of the room it was in, for   *)
(* good: nothing it sent while closing puts it back.                        *)
THEOREM ClosedNeverListed == Spec => []ClosedNotListed
<1>1. MembershipInv => ClosedNotListed
    BY DEF MembershipInv
<1> QED BY <1>1, MembershipInvariant, PTL

(* No room ever exceeds its capacity or lists a socket twice.               *)
THEOREM RoomsAlwaysWellFormed == Spec => []RoomsWellFormed
<1>1. MembershipInv => RoomsWellFormed
    BY DEF MembershipInv
<1> QED BY <1>1, MembershipInvariant, PTL
-----------------------------------------------------------------------------
(* A step that leaves rooms, lists and tokens as they are.                  *)
KeepsRooms(R) ==
    /\ SameLists(R)
    /\ \A r \in RoomIds : rooms[r] # NoRoom => R[r].tokens = rooms[r].tokens

LEMMA TouchedKeeps ==
    ASSUME TypeOK, NEW r
    PROVE  KeepsRooms(Touched(r))
<1>1. SameLists(Touched(r))
    BY TouchedType
<1>2. ASSUME NEW q \in RoomIds, rooms[q] # NoRoom
      PROVE  Touched(r)[q].tokens = rooms[q].tokens
  <2>1. rooms[q] \in Room
      BY <1>2 DEF TypeOK
  <2>2. UpdateLastActivity(rooms[q]).tokens = rooms[q].tokens
      BY <2>1, UpdateLastActivityType
  <2> QED BY <1>2, <2>2 DEF Touched, TypeOK
<1> QED BY <1>1, <1>2 DEF KeepsRooms

LEMMA TickKeeps ==
    ASSUME TypeOK, Tick
    PROVE  KeepsRooms(rooms')
<1> SUFFICES ASSUME NEW r \in RoomIds
             PROVE  /\ rooms'[r] = NoRoom <=> rooms[r] = NoRoom
                    /\ rooms[r] # NoRoom => /\ rooms'[r].clients = rooms[r].clients
                                            /\ rooms'[r].tokens = rooms[r].tokens
    BY DEF KeepsRooms, SameLists
<1>1. CASE rooms[r] = NoRoom
    BY <1>1 DEF Tick, HasRoom
<1>2. CASE rooms[r] # NoRoom
  <2>1. rooms[r] \in Room
      BY <1>2 DEF TypeOK
  <2>2. /\ Aged(rooms[r]) \in Room
        /\ Aged(rooms[r]).clients = rooms[r].clients
      BY <2>1, AgedType
  <2>3. Aged(rooms[r]).tokens = rooms[r].tokens
      BY <2>1 DEF Aged, Room
  <2>4. rooms'[r] = Aged(rooms[r])
      BY <1>2 DEF Tick, HasRoom
  <2> QED BY <1>2, <2>2, <2>3, <2>4, NoRoomAssumption
<1> QED BY <1>1, <1>2

(* What a step does to the rooms: nothing; the pass; a departure; an        *)
(* invitation; or somebody enters.                                         *)
LEMMA StepKinds ==
    ASSUME TypeOK, [Next]_vars
    PROVE  \/ KeepsRooms(rooms')
           \/ Cleanup
           \/ \E c \in Conns : LeaveRoom(c) \/ Disconnect(c)
           \/ \E c \in Conns, r \in RoomIds, t \in Tokens : InviteCreate(c, r, t)
           \/ \E c \in Conns, r \in RoomIds, t \in Tokens : \E f \in Announces(c) :
                CreateRoom(c, r, t, f) \/ RejoinRoom(c, r, t, f) \/ JoinRoom(c, r, t, f)
<1>1. rooms' = rooms => KeepsRooms(rooms')
    BY DEF KeepsRooms, SameLists
<1>2. \A r : rooms' = Touched(r) => KeepsRooms(rooms')
    BY TouchedKeeps
<1>3. ASSUME NEW c \in Conns, PeerRequest(c) PROVE KeepsRooms(rooms')
    BY <1>1, <1>2, <1>3
       DEF PeerRequest, KeyExchange, RefuseKeyExchange, Typing, BadRequest, Malformed
<1>4. ASSUME NEW c \in Conns, MessageRequest(c) PROVE KeepsRooms(rooms')
    BY <1>1, <1>2, <1>4
       DEF MessageRequest, RefuseMessage, RateLimitMessage, RefuseFile, RefuseReplay,
           SendBroadcast, SendTargeted
<1>5. CASE Tick
    BY <1>5, TickKeeps
<1>6. ASSUME NEW c \in Conns, Accept(c) \/ BeginClose(c) PROVE KeepsRooms(rooms')
    BY <1>1, <1>6 DEF Accept, BeginClose
<1>7. ASSUME NEW c \in Conns, NEW r \in RoomIds, NEW t \in Tokens, NEW f \in Announces(c),
             RefuseCreate(c, r, t, f) \/ RefuseJoin(c, r, t, f)
      PROVE  KeepsRooms(rooms')
    BY <1>1, <1>7 DEF RefuseCreate, RefuseJoin
<1>8. ASSUME NEW c \in Conns, NEW r \in RoomIds, NEW t \in Tokens, RefuseInvite(c, r, t)
      PROVE  KeepsRooms(rooms')
    BY <1>1, <1>8 DEF RefuseInvite
<1>9. CASE UNCHANGED vars
    BY <1>1, <1>9 DEF vars
<1> QED
  BY <1>3, <1>4, <1>5, <1>6, <1>7, <1>8, <1>9 DEF Next, Handle, SocketEvent, RoomRequest

(* A departure keeps rooms and tokens; nobody but c goes, and only from the *)
(* room it is in.                                                          *)
LEMMA DepartKeeps ==
    ASSUME MembershipInv, NEW c \in Conns, rooms' = RoomsWithout(c)
    PROVE  /\ \A r : HasRoom(r)' <=> HasRoom(r)
           /\ \A r \in RoomIds : HasRoom(r) => rooms'[r].tokens = rooms[r].tokens
           /\ \A d \in Conns : \A r : Listed(d, r)' <=> Listed(d, r) /\ ~(d = c /\ r = roomId[c])
<1>0. TypeOK
    BY DEF MembershipInv
<1>1. \A r : HasRoom(r)' <=> HasRoom(r)
    BY <1>0, RoomsWithoutType DEF HasRoom
<1>2. ASSUME NEW r \in RoomIds, HasRoom(r)
      PROVE  rooms'[r].tokens = rooms[r].tokens
  <2>1. rooms[r] \in Room
      BY <1>0, <1>2 DEF HasRoom, TypeOK
  <2>2. /\ RemoveClient(rooms[r], c) \in Room
        /\ RemoveClient(rooms[r], c).tokens = rooms[r].tokens
      BY <2>1, RemoveClientType
  <2>3. UpdateLastActivity(RemoveClient(rooms[r], c)).tokens = rooms[r].tokens
      BY <2>2, UpdateLastActivityType
  <2> QED BY <1>0, <2>3 DEF RoomsWithout, TypeOK
<1>3. \A d \in Conns : \A r : r # roomId[c] => (Listed(d, r)' <=> Listed(d, r))
    BY <1>0, <1>1, RoomsWithoutType DEF Listed, HasRoom
<1>4. /\ \A d \in Conns : \A r : d # c => (Listed(d, r)' <=> Listed(d, r))
      /\ \A r : r = roomId[c] => ~Listed(c, r)'
    BY DepartLists
<1> QED BY <1>1, <1>2, <1>3, <1>4

(* An entry adds c to r, and nobody else anywhere.                          *)
LEMMA EnterLists ==
    ASSUME TypeOK, NEW c \in Conns, NEW r \in RoomIds, HasRoom(r), NEW room \in Room,
           rooms' = [rooms EXCEPT ![r] = room],
           room.clients = Append(rooms[r].clients, c)
    PROVE  /\ \A q : HasRoom(q)' <=> HasRoom(q)
           /\ Members(room) = Members(rooms[r]) \cup {c}
           /\ \A d \in Conns : \A q : Listed(d, q)' <=> Listed(d, q) \/ (d = c /\ q = r)
<1>1. rooms[r] \in Room /\ rooms[r].clients \in Seq(Conns)
    BY DEF HasRoom, TypeOK, Room
<1>2. \A q \in RoomIds : rooms'[q] = IF q = r THEN room ELSE rooms[q]
    BY DEF TypeOK
<1>3. \A q : HasRoom(q)' <=> HasRoom(q)
    BY <1>2, NoRoomAssumption DEF HasRoom
<1>4. Members(room) = Members(rooms[r]) \cup {c}
    BY <1>1, AppendMembers DEF Members
<1>5. ASSUME NEW d \in Conns, NEW q
      PROVE  Listed(d, q)' <=> Listed(d, q) \/ (d = c /\ q = r)
  <2>1. CASE q = r
      BY <1>2, <1>3, <1>4, <2>1 DEF Listed
  <2>2. CASE q # r
      BY <1>2, <1>3, <2>2 DEF Listed, HasRoom
  <2> QED BY <2>1, <2>2
<1> QED BY <1>3, <1>4, <1>5

(* What a rejoin and a join store.                                          *)
LEMMA RejoinStores ==
    ASSUME TypeOK, NEW c \in Conns, NEW r \in RoomIds, NEW t \in Tokens, NEW f \in Announces(c),
           RejoinRoom(c, r, t, f)
    PROVE  /\ HasRoom(r) /\ rooms[r] \in Room
           /\ \E room \in Room : /\ rooms' = [rooms EXCEPT ![r] = room]
                                 /\ room.clients = Append(rooms[r].clients, c)
                                 /\ room.tokens = rooms[r].tokens
<1>1. HasRoom(r) /\ rooms[r] \in Room /\ CanAddClient(rooms[r], c)
    BY DEF RejoinRoom, CanRejoin, HasRoom, TypeOK
<1>2. rooms' = [rooms EXCEPT ![r] = AddClient(rooms[r], c)]
    BY DEF RejoinRoom
<1> QED BY <1>1, <1>2, AddClientType

LEMMA JoinStores ==
    ASSUME TypeOK, NEW c \in Conns, NEW r \in RoomIds, NEW t \in Tokens, NEW f \in Announces(c),
           JoinRoom(c, r, t, f)
    PROVE  /\ HasRoom(r) /\ rooms[r] \in Room
           /\ \E room \in Room : /\ rooms' = [rooms EXCEPT ![r] = room]
                                 /\ room.clients = Append(rooms[r].clients, c)
                                 /\ room.tokens = [rooms[r].tokens EXCEPT ![t] = f]
<1>1. HasRoom(r) /\ rooms[r] \in Room /\ CanAddClient(rooms[r], c)
    BY DEF JoinRoom, CanJoin, HasRoom, TypeOK
<1> DEFINE room == AddClient(rooms[r], c)
<1>2. /\ room \in Room
      /\ room.tokens = rooms[r].tokens
      /\ room.clients = Append(rooms[r].clients, c)
    BY <1>1, AddClientType
<1>3. rooms' = [rooms EXCEPT ![r] = BindInviteToken(room, t, f)]
    BY DEF JoinRoom
<1>4. rooms[r].tokens[t] \in {NoFp, f}
    BY DEF JoinRoom, CanJoin, VerifyInviteToken
<1> HIDE DEF room
<1>5. /\ BindInviteToken(room, t, f) \in Room
      /\ BindInviteToken(room, t, f).clients = room.clients
    BY <1>2, BindInviteTokenType, KnownType
<1>6. BindInviteToken(room, t, f).tokens = [rooms[r].tokens EXCEPT ![t] = f]
  <2>1. CASE rooms[r].tokens[t] = NoFp
      BY <1>2, <2>1 DEF BindInviteToken, Room
  <2>2. CASE rooms[r].tokens[t] # NoFp
    <3>1. BindInviteToken(room, t, f) = room
        BY <1>2, <2>2 DEF BindInviteToken
    <3>2. rooms[r].tokens[t] = f /\ rooms[r].tokens \in [Tokens -> TokenState]
        BY <1>1, <1>4, <2>2 DEF Room
    <3> QED BY <1>2, <3>1, <3>2
  <2> QED BY <2>1, <2>2
<1> QED BY <1>1, <1>2, <1>3, <1>5, <1>6

LEMMA EnterStores ==
    ASSUME TypeOK, NEW c \in Conns, NEW r \in RoomIds, NEW t \in Tokens, NEW f \in Announces(c),
           RejoinRoom(c, r, t, f) \/ JoinRoom(c, r, t, f)
    PROVE  /\ HasRoom(r)
           /\ \E room \in Room : /\ rooms' = [rooms EXCEPT ![r] = room]
                                 /\ room.clients = Append(rooms[r].clients, c)
<1>1. CASE RejoinRoom(c, r, t, f)
    BY <1>1, RejoinStores
<1>2. CASE JoinRoom(c, r, t, f)
    BY <1>2, JoinStores
<1> QED BY <1>1, <1>2
-----------------------------------------------------------------------------
(* Rooms go in the pass only.                                               *)
LEMMA OnlyCleanupRemoves ==
    ASSUME MembershipInv, [Next]_vars, NEW r \in RoomIds, HasRoom(r), ~HasRoom(r)'
    PROVE  Cleanup
<1>0. TypeOK
    BY DEF MembershipInv
<1>1. CASE KeepsRooms(rooms')
    BY <1>1 DEF KeepsRooms, SameLists, HasRoom
<1>2. ASSUME NEW d \in Conns, LeaveRoom(d) \/ Disconnect(d) PROVE FALSE
    BY <1>2, DepartKeeps DEF LeaveRoom, Disconnect
<1>3. ASSUME NEW d \in Conns, NEW q \in RoomIds, NEW t \in Tokens, InviteCreate(d, q, t)
      PROVE  FALSE
  <2>1. rooms[q] \in Room
      BY <1>0, <1>3 DEF InviteCreate, CanInvite, HasRoom, TypeOK
  <2>2. AddInviteToken(rooms[q], t) # NoRoom
      BY <2>1, AddInviteTokenType, NoRoomAssumption
  <2> QED BY <1>0, <1>3, <2>2 DEF InviteCreate, HasRoom, TypeOK
<1>4. ASSUME NEW d \in Conns, NEW q \in RoomIds, NEW t \in Tokens, NEW f \in Announces(d),
             CreateRoom(d, q, t, f)
      PROVE  FALSE
    BY <1>0, <1>4 DEF CreateRoom, HasRoom, TypeOK
<1>5. ASSUME NEW d \in Conns, NEW q \in RoomIds, NEW t \in Tokens, NEW f \in Announces(d),
             RejoinRoom(d, q, t, f) \/ JoinRoom(d, q, t, f)
      PROVE  FALSE
  <2>1. HasRoom(q) /\ \E room \in Room : /\ rooms' = [rooms EXCEPT ![q] = room]
                                          /\ room.clients = Append(rooms[q].clients, d)
      BY <1>0, <1>5, EnterStores
  <2>2. HasRoom(r)'
      BY <1>0, <2>1, EnterLists
  <2> QED BY <2>2
<1> QED BY <1>0, <1>1, <1>2, <1>3, <1>4, <1>5, StepKinds

LEMMA EvictionStep ==
    ASSUME MembershipInv, [Next]_vars, NEW c \in Conns, NEW r \in RoomIds,
           roomId[c] = r, ready[c] = "OPEN", HasRoom(r), ~HasRoom(r)'
    PROVE  ready'[c] = "CLOSING" /\ sent'[c].event = "room:closed"
<1>1. Cleanup
    BY OnlyCleanupRemoves
<1>2. r \in Expired
    BY <1>1 DEF Cleanup, HasRoom
<1>3. Listed(c, r)
    BY RelayConstants DEF MembershipInv, OpenMembersListed
<1>4. c \in Evicted
    BY <1>2, <1>3 DEF Evicted
<1> QED BY <1>1, <1>4 DEF Cleanup, Deliver

(* A client that is connected when its room closes is told so and closed,   *)
(* whatever the rooms, sockets and timeouts.                                *)
THEOREM EvictionAlwaysComplete == Spec => EvictionComplete
<1>1. MembershipInv /\ [Next]_vars =>
        [\A c \in Conns, r \in RoomIds :
            roomId[c] = r /\ ready[c] = "OPEN" /\ HasRoom(r) /\ ~HasRoom(r)' =>
                ready'[c] = "CLOSING" /\ sent'[c].event = "room:closed"]_vars
    BY EvictionStep
<1> QED BY <1>1, MembershipInvariant, PTL DEF Spec, EvictionComplete
-----------------------------------------------------------------------------
(* The token a fingerprint joins with is its own afterwards.                *)
LEMMA JoinOwns ==
    ASSUME TypeOK, NEW c \in Conns, NEW r \in RoomIds, NEW t \in Tokens, NEW f \in Fps,
           f \in Announces(c), JoinRoom(c, r, t, f)
    PROVE  Owns(f, r)'
<1>1. PICK room \in Room : /\ rooms' = [rooms EXCEPT ![r] = room]
                           /\ room.tokens = [rooms[r].tokens EXCEPT ![t] = f]
    BY JoinStores
<1>2. rooms[r] \in Room
    BY JoinStores
<1>3. rooms'[r] = room /\ room # NoRoom
    BY <1>1, NoRoomAssumption DEF TypeOK
<1>4. room.tokens[t] = f
    BY <1>1, <1>2 DEF Room
<1> QED BY <1>3, <1>4 DEF Owns, HasRoom

(* Whatever happens to a room that stays, its owned tokens stay owned.      *)
LEMMA OwnershipStays ==
    ASSUME MembershipInv, [Next]_vars, NEW r \in RoomIds, NEW f \in Fps,
           Owns(f, r), HasRoom(r)'
    PROVE  Owns(f, r)'
<1>0. TypeOK
    BY DEF MembershipInv
<1>1. PICK u \in Tokens : rooms[r].tokens[u] = f
    BY DEF Owns
<1>2. HasRoom(r) /\ rooms[r] \in Room
    BY <1>0 DEF Owns, HasRoom, TypeOK
<1>3. f # NoFp /\ f # Absent
    BY RoomConstants
<1> SUFFICES rooms'[r].tokens[u] = f
    BY DEF Owns
<1>4. CASE KeepsRooms(rooms')
    BY <1>1, <1>2, <1>4 DEF KeepsRooms, HasRoom
<1>5. CASE Cleanup
    BY <1>1, <1>5 DEF Cleanup, HasRoom
<1>6. ASSUME NEW c \in Conns, LeaveRoom(c) \/ Disconnect(c) PROVE rooms'[r].tokens[u] = f
    BY <1>1, <1>2, <1>6, DepartKeeps DEF LeaveRoom, Disconnect
<1>7. ASSUME NEW c \in Conns, NEW q \in RoomIds, NEW t \in Tokens, InviteCreate(c, q, t)
      PROVE  rooms'[r].tokens[u] = f
  <2>1. rooms' = [rooms EXCEPT ![q] = AddInviteToken(rooms[q], t)]
      BY <1>7 DEF InviteCreate
  <2>2. rooms[q].tokens[t] = Absent
      BY <1>7 DEF InviteCreate, CanInvite, CanAddInviteToken
  <2>3. CASE q = r
    <3>1. t # u
        BY <1>1, <1>3, <2>2, <2>3
    <3>2. AddInviteToken(rooms[r], t).tokens[u] = f
        BY <1>1, <1>2, <3>1 DEF AddInviteToken, Room
    <3> QED BY <1>0, <2>1, <2>3, <3>2 DEF TypeOK
  <2>4. CASE q # r
      BY <1>0, <1>1, <2>1, <2>4 DEF TypeOK
  <2> QED BY <2>3, <2>4
<1>8. ASSUME NEW c \in Conns, NEW q \in RoomIds, NEW t \in Tokens, NEW g \in Announces(c),
             CreateRoom(c, q, t, g)
      PROVE  rooms'[r].tokens[u] = f
    BY <1>0, <1>1, <1>2, <1>8 DEF CreateRoom, HasRoom, TypeOK
<1>9. ASSUME NEW c \in Conns, NEW q \in RoomIds, NEW t \in Tokens, NEW g \in Announces(c),
             RejoinRoom(c, q, t, g)
      PROVE  rooms'[r].tokens[u] = f
  <2>1. PICK room \in Room : /\ rooms' = [rooms EXCEPT ![q] = room]
                             /\ room.tokens = rooms[q].tokens
      BY <1>0, <1>9, RejoinStores
  <2> QED BY <1>0, <1>1, <2>1 DEF TypeOK
<1>10. ASSUME NEW c \in Conns, NEW q \in RoomIds, NEW t \in Tokens, NEW g \in Announces(c),
              JoinRoom(c, q, t, g)
       PROVE  rooms'[r].tokens[u] = f
  <2>1. PICK room \in Room : /\ rooms' = [rooms EXCEPT ![q] = room]
                             /\ room.tokens = [rooms[q].tokens EXCEPT ![t] = g]
      BY <1>0, <1>10, JoinStores
  <2>2. rooms[q].tokens[t] \in {NoFp, g}
      BY <1>10 DEF JoinRoom, CanJoin, VerifyInviteToken
  <2>3. CASE q = r
    <3>1. rooms[r].tokens \in [Tokens -> TokenState]
        BY <1>2 DEF Room
    <3>2. room.tokens[u] = f
        BY <1>1, <1>3, <2>1, <2>2, <2>3, <3>1
    <3> QED BY <1>0, <2>1, <2>3, <3>2 DEF TypeOK
  <2>4. CASE q # r
      BY <1>0, <1>1, <2>1, <2>4 DEF TypeOK
  <2> QED BY <2>3, <2>4
<1> QED BY <1>0, <1>4, <1>5, <1>6, <1>7, <1>8, <1>9, <1>10, StepKinds

(* A fingerprint that has joined a room owns a token of it until it closes, *)
(* for any number of users, rooms and tokens.                               *)
THEOREM JoinersAlwaysOwn == Spec => JoinersOwnTokens
<1>1. ASSUME MembershipInv, [Next]_vars, NEW r \in RoomIds, NEW f \in Fps, HasRoom(r)',
             Owns(f, r) \/ \E c \in Conns, t \in Tokens : JoinRoom(c, r, t, f)
      PROVE  Owns(f, r)'
  <2>1. CASE Owns(f, r)
      BY <1>1, <2>1, OwnershipStays
  <2>2. ASSUME NEW c \in Conns, NEW t \in Tokens, JoinRoom(c, r, t, f) PROVE Owns(f, r)'
    <3>1. TypeOK /\ TypeOK'
        BY <1>1, NextTypeOK DEF MembershipInv
    <3>2. fingerprint'[c] = f
        BY <2>2, <3>1, RoomConstants DEF JoinRoom, Known, TypeOK
    <3>3. f \in Announces(c)
        BY <3>1, <3>2, RoomConstants DEF TypeOK, Announces
    <3> QED BY <2>2, <3>1, <3>3, JoinOwns
  <2> QED BY <1>1, <2>1, <2>2
<1>2. MembershipInv /\ [Next]_vars =>
        [\A r \in RoomIds, f \in Fps :
            /\ HasRoom(r)'
            /\ Owns(f, r) \/ \E c \in Conns, t \in Tokens : JoinRoom(c, r, t, f)
            => Owns(f, r)']_vars
    BY <1>1
<1> QED BY <1>2, MembershipInvariant, PTL DEF Spec, JoinersOwnTokens
-----------------------------------------------------------------------------
(* Entering tells everybody inside with an open socket.                     *)
LEMMA EnterAnnounces ==
    ASSUME MembershipInv, NEW b \in Conns, NEW q \in RoomIds, NEW t \in Tokens,
           NEW f \in Announces(b), RejoinRoom(b, q, t, f) \/ JoinRoom(b, q, t, f),
           NEW r \in RoomIds, NEW c \in Conns, NEW d \in Peers(c, r), ready[d] = "OPEN"
    PROVE  /\ Listed(c, r) => Listed(c, r)'
           /\ ~Listed(c, r) /\ Listed(c, r)' =>
                sent'[d] = [event |-> "client:joined", from |-> fingerprint'[c]]
<1>0. TypeOK
    BY DEF MembershipInv
<1>1. HasRoom(q) /\ \E room \in Room : /\ rooms' = [rooms EXCEPT ![q] = room]
                                        /\ room.clients = Append(rooms[q].clients, b)
    BY <1>0, EnterStores
<1>2. \A e \in Conns : \A p : Listed(e, p)' <=> Listed(e, p) \/ (e = b /\ p = q)
    BY <1>0, <1>1, EnterLists
<1>3. /\ fingerprint' = [fingerprint EXCEPT ![b] = Known(b, f)]
      /\ sent' = SuccessAnd(b, Deliver(Peers(b, q), "client:joined", Known(b, f)))
    BY DEF RejoinRoom, JoinRoom
<1>4. ASSUME ~Listed(c, r), Listed(c, r)'
      PROVE  sent'[d] = [event |-> "client:joined", from |-> fingerprint'[c]]
  <2>1. c = b /\ r = q
      BY <1>2, <1>4
  <2>2. d # b /\ d \in Conns
      BY <2>1 DEF Peers
  <2>3. sent'[d] = Deliver(Peers(b, q), "client:joined", Known(b, f))[d]
      BY <1>3, <2>2 DEF SuccessAnd, Deliver
  <2>4. fingerprint'[c] = Known(b, f)
      BY <1>0, <1>3, <2>1 DEF TypeOK
  <2> QED BY <2>1, <2>2, <2>3, <2>4 DEF Deliver
<1> QED BY <1>2, <1>4

(* So does leaving.                                                         *)
LEMMA DepartAnnounces ==
    ASSUME MembershipInv, NEW b \in Conns, LeaveRoom(b) \/ Disconnect(b),
           NEW r \in RoomIds, NEW c \in Conns, NEW d \in Peers(c, r), ready[d] = "OPEN"
    PROVE  /\ Listed(c, r)' => Listed(c, r)
           /\ Listed(c, r) /\ ~Listed(c, r)' =>
                sent'[d] = [event |-> "client:left", from |-> fingerprint[c]]
<1>1. \A e \in Conns : \A p : Listed(e, p)' <=> Listed(e, p) /\ ~(e = b /\ p = roomId[b])
    BY DepartKeeps DEF LeaveRoom, Disconnect
<1>2. ASSUME Listed(c, r), ~Listed(c, r)'
      PROVE  sent'[d] = [event |-> "client:left", from |-> fingerprint[c]]
  <2>1. c = b /\ r = roomId[b]
      BY <1>1, <1>2
  <2>2. d # b /\ d \in Conns
      BY <2>1 DEF Peers
  <2>3. sent'[d] = Deliver(Peers(b, roomId[b]), "client:left", fingerprint[b])[d]
      BY <2>2 DEF LeaveRoom, Disconnect, SuccessAnd, Deliver
  <2> QED BY <2>1, <2>2, <2>3 DEF Deliver
<1> QED BY <1>1, <1>2

LEMMA AnnounceStep ==
    ASSUME MembershipInv, [Next]_vars, NEW r \in RoomIds, NEW c \in Conns,
           NEW d \in Peers(c, r), ready[d] = "OPEN", HasRoom(r)'
    PROVE  /\ Listed(c, r) /\ ~Listed(c, r)' =>
                sent'[d] = [event |-> "client:left", from |-> fingerprint[c]]
           /\ ~Listed(c, r) /\ Listed(c, r)' =>
                sent'[d] = [event |-> "client:joined", from |-> fingerprint'[c]]
<1>0. TypeOK
    BY DEF MembershipInv
<1>1. HasRoom(r)
    BY DEF Peers, Listed
<1>2. CASE rooms'[r].clients = rooms[r].clients
    BY <1>1, <1>2 DEF Listed, Members
<1>3. CASE KeepsRooms(rooms')
    BY <1>1, <1>2, <1>3 DEF KeepsRooms, SameLists, HasRoom
<1>4. CASE Cleanup
    BY <1>2, <1>4 DEF Cleanup, HasRoom
<1>5. ASSUME NEW b \in Conns, NEW q \in RoomIds, NEW t \in Tokens, InviteCreate(b, q, t)
      PROVE  rooms'[r].clients = rooms[r].clients
  <2>1. rooms[q] \in Room
      BY <1>0, <1>5 DEF InviteCreate, CanInvite, HasRoom, TypeOK
  <2>2. AddInviteToken(rooms[q], t).clients = rooms[q].clients
      BY <2>1, AddInviteTokenType
  <2> QED BY <1>0, <1>5, <2>2 DEF InviteCreate, TypeOK
<1>6. ASSUME NEW b \in Conns, NEW q \in RoomIds, NEW t \in Tokens, NEW f \in Announces(b),
             CreateRoom(b, q, t, f)
      PROVE  rooms'[r].clients = rooms[r].clients
    BY <1>0, <1>1, <1>6 DEF CreateRoom, HasRoom, TypeOK
<1> QED BY <1>0, <1>2, <1>3, <1>4, <1>5, <1>6, StepKinds, EnterAnnounces, DepartAnnounces

(* Whoever stays in a room with an open socket hears of everybody who comes *)
(* and goes, with the right fingerprint, for any number of sockets, users   *)
(* and rooms.                                                               *)
THEOREM MembershipAlwaysAnnounced == Spec => MembershipAnnounced
<1>1. MembershipInv /\ [Next]_vars =>
        [\A r \in RoomIds, c \in Conns :
            \A d \in {e \in Peers(c, r) : ready[e] = "OPEN" /\ HasRoom(r)'} :
                /\ Listed(c, r) /\ ~Listed(c, r)' =>
                    sent'[d] = [event |-> "client:left", from |-> fingerprint[c]]
                /\ ~Listed(c, r) /\ Listed(c, r)' =>
                    sent'[d] = [event |-> "client:joined", from |-> fingerprint'[c]]]_vars
    BY AnnounceStep
<1> QED BY <1>1, MembershipInvariant, PTL DEF Spec, MembershipAnnounced
-----------------------------------------------------------------------------
(* Relay implements RoomAccess.  What RoomAccess sees of a state.           *)
OpenRooms == {r \in RoomIds : HasRoom(r)}

Inside == [r \in RoomIds |-> IF HasRoom(r) THEN Members(rooms[r]) ELSE {}]

Worth == [r \in RoomIds |-> IF HasRoom(r) THEN rooms[r].tokens ELSE [t \in Tokens |-> Absent]]

(* Its steps on that.                                                       *)
OpenImage(c, r, t) ==
    /\ r \notin OpenRooms
    /\ OpenRooms' = OpenRooms \cup {r}
    /\ Inside' = [Inside EXCEPT ![r] = {c}]
    /\ Worth' = [Worth EXCEPT ![r] = [[u \in Tokens |-> Absent] EXCEPT ![t] = NoFp]]

EnterImage(c, r, t, f) ==
    /\ r \in OpenRooms
    /\ c \notin Inside[r]
    /\ Cardinality(Inside[r]) < MaxParticipants
    /\ f \in {NoFp, Identity[c]}
    /\ Worth[r][t] \in {NoFp, f}
    /\ Inside' = [Inside EXCEPT ![r] = @ \cup {c}]
    /\ \E owner \in {Worth[r][t], f} : Worth' = [Worth EXCEPT ![r][t] = owner]
    /\ OpenRooms' = OpenRooms

MintImage(r, t) ==
    /\ r \in OpenRooms
    /\ Worth[r][t] = Absent
    /\ Worth' = [Worth EXCEPT ![r][t] = NoFp]
    /\ OpenRooms' = OpenRooms /\ Inside' = Inside

DepartImage(c, r) ==
    /\ c \in Inside[r]
    /\ Inside' = [Inside EXCEPT ![r] = @ \ {c}]
    /\ OpenRooms' = OpenRooms /\ Worth' = Worth

CloseImage(R) ==
    /\ R \subseteq OpenRooms
    /\ OpenRooms' = OpenRooms \ R
    /\ Inside' = [r \in RoomIds |-> IF r \in R THEN {} ELSE Inside[r]]
    /\ Worth' = [r \in RoomIds |-> IF r \in R THEN [t \in Tokens |-> Absent] ELSE Worth[r]]

SameImage == OpenRooms' = OpenRooms /\ Inside' = Inside /\ Worth' = Worth

(* A list that is not full has fewer members than the capacity.             *)
LEMMA MembersFit ==
    ASSUME NEW s \in Seq(Conns), Len(s) < MaxParticipants
    PROVE  Cardinality(ToSet(s)) < MaxParticipants
<1>1. DOMAIN s = 1 .. Len(s) /\ Len(s) \in Nat
    BY LenProperties
<1>2. s \in Surjection(1 .. Len(s), ToSet(s))
    BY <1>1 DEF Surjection, ToSet
<1>3. /\ IsFiniteSet(1 .. Len(s))
      /\ Cardinality(1 .. Len(s)) = Len(s)
    BY <1>1, FS_Interval
<1>4. /\ IsFiniteSet(ToSet(s))
      /\ Cardinality(ToSet(s)) <= Len(s)
    BY <1>2, <1>3, FS_Surjection
<1>5. Cardinality(ToSet(s)) \in Nat
    BY <1>4, FS_CardinalityType
<1> QED BY <1>1, <1>4, <1>5, RoomConstants

LEMMA KeepRefines ==
    ASSUME TypeOK, KeepsRooms(rooms')
    PROVE  SameImage
<1>1. \A r \in RoomIds : HasRoom(r)' <=> HasRoom(r)
    BY DEF KeepsRooms, SameLists, HasRoom
<1>2. \A r \in RoomIds : HasRoom(r) =>
        rooms'[r].clients = rooms[r].clients /\ rooms'[r].tokens = rooms[r].tokens
    BY DEF KeepsRooms, SameLists, HasRoom
<1> QED BY <1>1, <1>2 DEF SameImage, OpenRooms, Inside, Worth, Members

LEMMA CloseRefines ==
    ASSUME TypeOK, Cleanup
    PROVE  Expired \subseteq RoomIds /\ CloseImage(Expired)
<1>1. \A r \in RoomIds : rooms'[r] = IF r \in Expired THEN NoRoom ELSE rooms[r]
    BY DEF Cleanup
<1>2. \A r \in RoomIds : HasRoom(r)' <=> HasRoom(r) /\ r \notin Expired
    BY <1>1 DEF HasRoom
<1>3. Expired \subseteq OpenRooms
    BY DEF Expired, OpenRooms
<1>4. OpenRooms' = OpenRooms \ Expired
    BY <1>2 DEF OpenRooms
<1>5. Inside' = [r \in RoomIds |-> IF r \in Expired THEN {} ELSE Inside[r]]
    BY <1>1, <1>2 DEF Inside
<1>6. Worth' = [r \in RoomIds |-> IF r \in Expired THEN [t \in Tokens |-> Absent] ELSE Worth[r]]
    BY <1>1, <1>2 DEF Worth
<1> QED BY <1>3, <1>4, <1>5, <1>6 DEF CloseImage, Expired

LEMMA DepartRefines ==
    ASSUME MembershipInv, NEW c \in Conns, rooms' = RoomsWithout(c)
    PROVE  SameImage \/ \E r \in RoomIds : DepartImage(c, r)
<1>0. TypeOK
    BY DEF MembershipInv
<1>1. /\ \A r : HasRoom(r)' <=> HasRoom(r)
      /\ \A r \in RoomIds : HasRoom(r) => rooms'[r].tokens = rooms[r].tokens
      /\ \A d \in Conns : \A r : Listed(d, r)' <=> Listed(d, r) /\ ~(d = c /\ r = roomId[c])
    BY DepartKeeps
<1>2. OpenRooms' = OpenRooms /\ Worth' = Worth
    BY <1>1 DEF OpenRooms, Worth
<1>3. \A r \in RoomIds : Inside[r] = {d \in Conns : Listed(d, r)}
  <2> TAKE r \in RoomIds
  <2>1. HasRoom(r) => Members(rooms[r]) \subseteq Conns
      BY <1>0 DEF HasRoom, TypeOK, Room, Members, ToSet
  <2> QED BY <2>1 DEF Inside, Listed
<1>4. \A r \in RoomIds : Inside'[r] = {d \in Conns : Listed(d, r)'}
  <2> TAKE r \in RoomIds
  <2>1. HasRoom(r)' => rooms'[r] \in Room
      BY <1>0, RoomsWithoutType DEF HasRoom, RoomStates
  <2>2. HasRoom(r)' => Members(rooms'[r]) \subseteq Conns
      BY <2>1 DEF Room, Members, ToSet
  <2> QED BY <2>2 DEF Inside, Listed
<1>5. CASE Listed(c, roomId[c])
  <2>1. roomId[c] \in RoomIds
      BY <1>5 DEF Listed, HasRoom
  <2>2. c \in Inside[roomId[c]]
      BY <1>3, <1>5, <2>1
  <2>3. \A r \in RoomIds : Inside'[r] = IF r = roomId[c] THEN Inside[r] \ {c} ELSE Inside[r]
      BY <1>1, <1>3, <1>4
  <2>4. Inside' = [Inside EXCEPT ![roomId[c]] = @ \ {c}]
      BY <2>1, <2>3 DEF Inside
  <2> QED BY <1>2, <2>1, <2>2, <2>4 DEF DepartImage
<1>6. CASE ~Listed(c, roomId[c])
  <2>0. \A r \in RoomIds : \A d \in Conns : Listed(d, r)' <=> Listed(d, r)
      BY <1>1, <1>6
  <2>1. \A r \in RoomIds : Inside'[r] = Inside[r]
      BY <1>3, <1>4, <2>0
  <2>2. Inside' = Inside
      BY <2>1 DEF Inside
  <2> QED BY <1>2, <2>2 DEF SameImage
<1> QED BY <1>5, <1>6

LEMMA MintRefines ==
    ASSUME TypeOK, NEW c \in Conns, NEW r \in RoomIds, NEW t \in Tokens, InviteCreate(c, r, t)
    PROVE  MintImage(r, t)
<1>1. HasRoom(r) /\ rooms[r] \in Room /\ rooms[r].tokens[t] = Absent
    BY DEF InviteCreate, CanInvite, CanAddInviteToken, HasRoom, TypeOK
<1> DEFINE room == AddInviteToken(rooms[r], t)
<1>2. /\ room \in Room /\ room # NoRoom
      /\ room.clients = rooms[r].clients
    BY <1>1, AddInviteTokenType, NoRoomAssumption
<1>3. room.tokens = [rooms[r].tokens EXCEPT ![t] = NoFp]
    BY <1>1 DEF AddInviteToken, Room
<1>4. rooms' = [rooms EXCEPT ![r] = room]
    BY DEF InviteCreate
<1> HIDE DEF room
<1>5. \A q \in RoomIds : rooms'[q] = IF q = r THEN room ELSE rooms[q]
    BY <1>4 DEF TypeOK
<1>6. \A q \in RoomIds : HasRoom(q)' <=> HasRoom(q)
    BY <1>1, <1>2, <1>5 DEF HasRoom
<1>7. OpenRooms' = OpenRooms
    BY <1>6 DEF OpenRooms
<1>8. Inside' = Inside
    BY <1>2, <1>5, <1>6 DEF Inside, Members
<1>9. Worth' = [Worth EXCEPT ![r][t] = NoFp]
    BY <1>1, <1>3, <1>5, <1>6 DEF Worth
<1> QED BY <1>1, <1>7, <1>8, <1>9 DEF MintImage, OpenRooms, Worth

LEMMA OpenRefines ==
    ASSUME TypeOK, NEW c \in Conns, NEW r \in RoomIds, NEW t \in Tokens, NEW f \in Announces(c),
           CreateRoom(c, r, t, f)
    PROVE  OpenImage(c, r, t)
<1> DEFINE room == AddClient(AddRoom(t), c)
<1>1. /\ AddRoom(t) \in Room
      /\ AddRoom(t).clients = <<>>
      /\ AddRoom(t).tokens = [u \in Tokens |-> IF u = t THEN NoFp ELSE Absent]
    BY AddRoomType DEF AddRoom
<1>2. CanAddClient(AddRoom(t), c)
    BY <1>1, RoomConstants DEF CanAddClient, Members, ToSet
<1>3. /\ room \in Room /\ room # NoRoom
      /\ room.tokens = AddRoom(t).tokens
      /\ room.clients = Append(<<>>, c)
    BY <1>1, <1>2, AddClientType, NoRoomAssumption
<1>4. Members(room) = {c}
    BY <1>3 DEF Members, ToSet
<1>5. rooms' = [rooms EXCEPT ![r] = room] /\ ~HasRoom(r)
    BY DEF CreateRoom, HasRoom
<1> HIDE DEF room
<1>6. \A q \in RoomIds : rooms'[q] = IF q = r THEN room ELSE rooms[q]
    BY <1>5 DEF TypeOK
<1>7. \A q \in RoomIds : HasRoom(q)' <=> HasRoom(q) \/ q = r
    BY <1>3, <1>6 DEF HasRoom
<1>8. OpenRooms' = OpenRooms \cup {r} /\ r \notin OpenRooms
    BY <1>5, <1>7 DEF OpenRooms
<1>9. Inside' = [Inside EXCEPT ![r] = {c}]
    BY <1>4, <1>6, <1>7 DEF Inside
<1>10. room.tokens = [[u \in Tokens |-> Absent] EXCEPT ![t] = NoFp]
    BY <1>1, <1>3
<1>11. Worth' = [Worth EXCEPT ![r] = [[u \in Tokens |-> Absent] EXCEPT ![t] = NoFp]]
    BY <1>6, <1>7, <1>10 DEF Worth
<1> QED BY <1>8, <1>9, <1>11 DEF OpenImage

(* An entry on token t, unused or of the fingerprint f that c enters with.  *)
LEMMA EnterRefines ==
    ASSUME TypeOK, NEW c \in Conns, NEW r \in RoomIds, NEW t \in Tokens,
           NEW f \in {NoFp, Identity[c]},
           HasRoom(r), CanAddClient(rooms[r], c), rooms[r].tokens[t] \in {NoFp, f},
           NEW room \in Room, rooms' = [rooms EXCEPT ![r] = room],
           room.clients = Append(rooms[r].clients, c),
           room.tokens = rooms[r].tokens \/ room.tokens = [rooms[r].tokens EXCEPT ![t] = f]
    PROVE  EnterImage(c, r, t, f)
<1>1. /\ \A q : HasRoom(q)' <=> HasRoom(q)
      /\ Members(room) = Members(rooms[r]) \cup {c}
    BY EnterLists
<1>2. rooms[r] \in Room
    BY DEF HasRoom, TypeOK
<1>3. \A q \in RoomIds : rooms'[q] = IF q = r THEN room ELSE rooms[q]
    BY DEF TypeOK
<1>4. OpenRooms' = OpenRooms /\ r \in OpenRooms
    BY <1>1 DEF OpenRooms
<1>5. Inside[r] = Members(rooms[r]) /\ Worth[r] = rooms[r].tokens
    BY DEF Inside, Worth
<1>6. PICK owner \in {rooms[r].tokens[t], f} :
            room.tokens = [rooms[r].tokens EXCEPT ![t] = owner]
  <2>1. rooms[r].tokens = [rooms[r].tokens EXCEPT ![t] = rooms[r].tokens[t]]
      BY <1>2 DEF Room
  <2> QED BY <2>1
<1>7. Cardinality(Inside[r]) < MaxParticipants /\ c \notin Inside[r]
    BY <1>2, <1>5, MembersFit DEF CanAddClient, Members, Room
<1>8. Inside' = [Inside EXCEPT ![r] = @ \cup {c}]
  <2>1. \A q \in RoomIds : Inside'[q] = IF q = r THEN Inside[r] \cup {c} ELSE Inside[q]
    <3> TAKE q \in RoomIds
    <3>1. CASE q = r
      <4>1. Inside'[r] = Members(room)
          BY <1>1, <1>3 DEF Inside
      <4> QED BY <1>1, <1>5, <3>1, <4>1
    <3>2. CASE q # r
        BY <1>1, <1>3, <3>2 DEF Inside
    <3> QED BY <3>1, <3>2
  <2> QED BY <2>1 DEF Inside
<1>9. Worth' = [Worth EXCEPT ![r][t] = owner]
  <2>1. \A q \in RoomIds :
            Worth'[q] = IF q = r THEN [Worth[r] EXCEPT ![t] = owner] ELSE Worth[q]
      BY <1>1, <1>3, <1>5, <1>6 DEF Worth
  <2> QED BY <2>1 DEF Worth
<1> QED BY <1>4, <1>5, <1>6, <1>7, <1>8, <1>9 DEF EnterImage

LEMMA RejoinRefines ==
    ASSUME TypeOK, NEW c \in Conns, NEW r \in RoomIds, NEW t \in Tokens, NEW f \in Announces(c),
           RejoinRoom(c, r, t, f)
    PROVE  EnterImage(c, r, t, Known(c, f))
<1>1. /\ CanAddClient(rooms[r], c)
      /\ rooms[r].tokens[t] \in {NoFp, Known(c, f)}
    BY DEF RejoinRoom, CanRejoin, VerifyInviteToken
<1>2. Known(c, f) \in {NoFp, Identity[c]}
    BY KnownType
<1>3. /\ HasRoom(r) /\ rooms[r] \in Room
      /\ \E room \in Room : /\ rooms' = [rooms EXCEPT ![r] = room]
                            /\ room.clients = Append(rooms[r].clients, c)
                            /\ room.tokens = rooms[r].tokens
    BY RejoinStores
<1>4. PICK room \in Room : /\ rooms' = [rooms EXCEPT ![r] = room]
                           /\ room.clients = Append(rooms[r].clients, c)
                           /\ room.tokens = rooms[r].tokens
    BY <1>3
<1> QED BY <1>1, <1>2, <1>3, <1>4, EnterRefines

LEMMA JoinRefines ==
    ASSUME TypeOK, NEW c \in Conns, NEW r \in RoomIds, NEW t \in Tokens, NEW f \in Announces(c),
           JoinRoom(c, r, t, f)
    PROVE  EnterImage(c, r, t, f)
<1>1. /\ CanAddClient(rooms[r], c)
      /\ rooms[r].tokens[t] \in {NoFp, f}
    BY DEF JoinRoom, CanJoin, VerifyInviteToken
<1>2. f \in {NoFp, Identity[c]}
    BY DEF Announces
<1>3. HasRoom(r)
    BY JoinStores
<1>4. PICK room \in Room : /\ rooms' = [rooms EXCEPT ![r] = room]
                           /\ room.clients = Append(rooms[r].clients, c)
                           /\ room.tokens = [rooms[r].tokens EXCEPT ![t] = f]
    BY JoinStores
<1> QED BY <1>1, <1>2, <1>3, <1>4, EnterRefines

LEMMA AccessStep ==
    ASSUME MembershipInv, [Next]_vars
    PROVE  \/ SameImage
           \/ \E c \in Conns, r \in RoomIds :
                \/ DepartImage(c, r)
                \/ \E t \in Tokens :
                    \/ OpenImage(c, r, t)
                    \/ \E f \in Fps \cup {NoFp} : EnterImage(c, r, t, f)
           \/ \E r \in RoomIds, t \in Tokens : MintImage(r, t)
           \/ \E R \in SUBSET RoomIds : CloseImage(R)
<1>0. TypeOK
    BY DEF MembershipInv
<1>1. CASE KeepsRooms(rooms')
    BY <1>0, <1>1, KeepRefines
<1>2. CASE Cleanup
    BY <1>0, <1>2, CloseRefines
<1>3. ASSUME NEW c \in Conns, LeaveRoom(c) \/ Disconnect(c)
      PROVE  SameImage \/ \E r \in RoomIds : DepartImage(c, r)
    BY <1>3, DepartRefines DEF LeaveRoom, Disconnect
<1>4. ASSUME NEW c \in Conns, NEW r \in RoomIds, NEW t \in Tokens, InviteCreate(c, r, t)
      PROVE  MintImage(r, t)
    BY <1>0, <1>4, MintRefines
<1>5. ASSUME NEW c \in Conns, NEW r \in RoomIds, NEW t \in Tokens, NEW f \in Announces(c),
             CreateRoom(c, r, t, f)
      PROVE  OpenImage(c, r, t)
    BY <1>0, <1>5, OpenRefines
<1>6. ASSUME NEW c \in Conns, NEW r \in RoomIds, NEW t \in Tokens, NEW f \in Announces(c),
             RejoinRoom(c, r, t, f) \/ JoinRoom(c, r, t, f)
      PROVE  \E g \in Fps \cup {NoFp} : EnterImage(c, r, t, g)
  <2>1. f \in Fps \cup {NoFp} /\ Known(c, f) \in Fps \cup {NoFp}
      BY <1>0, KnownType
  <2>2. EnterImage(c, r, t, Known(c, f)) \/ EnterImage(c, r, t, f)
      BY <1>0, <1>6, RejoinRefines, JoinRefines
  <2> QED BY <2>1, <2>2
<1> QED BY <1>0, <1>1, <1>2, <1>3, <1>4, <1>5, <1>6, StepKinds

(* RoomAccess takes Cardinality from its own FiniteSets.                    *)
LEMMA AccessCardinality ==
    ASSUME NEW S
    PROVE  Access!Cardinality(S) = Cardinality(S)
BY DEF Access!Cardinality, Cardinality

(* The relay implements the room access specification: rooms are opened,    *)
(* entered within their capacity on a token that is unused or one's own,    *)
(* and left one connection at a time, for any number of everything.         *)
THEOREM RelayImplementsAccess == Spec => ImplementsRoomAccess
<1>1. Init => Access!Init
    BY DEF Init, Access!Init, Access!NoInvites, HasRoom
<1>2. \A c \in Conns, r \in RoomIds : DepartImage(c, r) => Access!Depart(c, r)
    BY DEF DepartImage, Access!Depart, OpenRooms, Inside, Worth
<1>3. \A c \in Conns, r \in RoomIds, t \in Tokens : OpenImage(c, r, t) => Access!Open(c, r, t)
    BY DEF OpenImage, Access!Open, Access!NoInvites, OpenRooms, Inside, Worth
<1>4. ASSUME NEW c \in Conns, NEW r \in RoomIds, NEW t \in Tokens, NEW f \in Fps \cup {NoFp},
             EnterImage(c, r, t, f)
      PROVE  Access!Enter(c, r, t, f)
    BY <1>4, AccessCardinality DEF EnterImage, Access!Enter, OpenRooms, Inside, Worth
<1>5. \A r \in RoomIds, t \in Tokens : MintImage(r, t) => Access!Mint(r, t)
    BY DEF MintImage, Access!Mint, OpenRooms, Inside, Worth
<1>6. \A R \in SUBSET RoomIds : CloseImage(R) => Access!Close(R)
    BY DEF CloseImage, Access!Close, Access!NoInvites, OpenRooms, Inside, Worth
<1>7. SameImage => UNCHANGED Access!access
    BY DEF SameImage, Access!access, OpenRooms, Inside, Worth
<1>8. MembershipInv /\ [Next]_vars => [Access!Next]_Access!access
    BY <1>2, <1>3, <1>4, <1>5, <1>6, <1>7, AccessStep DEF Access!Next
<1> QED BY <1>1, <1>8, MembershipInvariant, PTL DEF Spec, ImplementsRoomAccess, Access!Spec
=============================================================================
