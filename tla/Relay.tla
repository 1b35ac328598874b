------------------------------- MODULE Relay -------------------------------
(***************************************************************************)
(* The relay server: WebSocketHandler (backend/src/ws/handler.ts) over     *)
(* RoomManager, MessageForwarder, ReplayGuard, the message rate limiter    *)
(* and the cleanup interval.                                               *)
(*                                                                         *)
(* Node runs every handler to completion, so a handler is one action per   *)
(* outcome and concurrency is the order of frames, of the 'close' events   *)
(* of sockets and of the timer.  A socket is NEW (not connected yet), OPEN,*)
(* CLOSING (a close has begun on either side) or CLOSED (its 'close' event *)
(* has been handled).  Between the last two, frames that were already on   *)
(* their way are still handled, and nothing is sent to it any more.        *)
(*                                                                         *)
(* sent[c] is the frame the last step put on socket c, if any: no step     *)
(* sends two frames to one socket.                                         *)
(***************************************************************************)
EXTENDS RoomManager

CONSTANTS
    Nonces,                  \* message nonces
    NoRoomId,                \* client.roomId when it is undefined
    NoFrame,                 \* nothing was sent
    Identity,                \* the fingerprint of the user behind a socket
    MayOmit,                 \* sockets whose client may leave out sender_fingerprint
    MaxViolations,           \* config.maxViolationsBeforeDisconnect
    DisconnectOnViolations,  \* config.disconnectOnRepeatedViolations
    ReplayProtection,        \* config.replayProtectionEnabled
    MessageTtl,              \* config.messageTtlMinutes
    RateLimit,               \* config.rateLimitMessagesPerWindow
    RateWindow,              \* config.rateLimitMessagesWindowMs
    RoomIds                  \* room ids

ASSUME RelayConstants ==
    /\ Identity \in [Conns -> Fps]
    /\ MayOmit \subseteq Conns
    /\ NoRoomId \notin RoomIds
    /\ MaxViolations \in Nat \ {0}
    /\ DisconnectOnViolations \in BOOLEAN
    /\ ReplayProtection \in BOOLEAN
    /\ MessageTtl \in Nat
    /\ RateLimit \in Nat
    /\ RateWindow \in Nat

VARIABLES
    rooms,        \* RoomManager.rooms and inviteTokens, by room id
    ready,        \* readyState of the sockets
    roomId,       \* ClientConnection.roomId
    fingerprint,  \* ClientConnection.fingerprint
    violations,   \* ClientConnection.violations
    seen,         \* ReplayGuard.seen
    buckets,      \* WebSocketHandler.messageRateBuckets
    sent          \* what the last step sent

conn == <<ready, roomId, fingerprint, violations>>
vars == <<rooms, conn, seen, buckets, sent>>

Guard == INSTANCE ReplayGuard WITH Enabled <- ReplayProtection, Ttl <- MessageTtl
Limiter == INSTANCE FixedWindow WITH Keys <- Fps, Limit <- RateLimit, Window <- RateWindow

ReadyStates == {"NEW", "OPEN", "CLOSING", "CLOSED"}

Events == {"success", "error", "client:joined", "client:left", "key:exchange",
           "message:receive", "typing", "room:closed"}

(* A frame: its event and the fingerprint it names.                         *)
Frame == [event : Events, from : {NoFp} \cup Fps]

TypeOK ==
    /\ rooms \in [RoomIds -> Room \cup {NoRoom}]
    /\ ready \in [Conns -> ReadyStates]
    /\ roomId \in [Conns -> RoomIds \cup {NoRoomId}]
    /\ \A c \in Conns : fingerprint[c] \in {NoFp, Identity[c]}
    /\ fingerprint \in [Conns -> Fps \cup {NoFp}]
    /\ violations \in [Conns -> 0 .. MaxViolations]
    /\ Guard!TypeOK
    /\ Limiter!TypeOK
    /\ sent \in [Conns -> Frame \cup {NoFrame}]

Init ==
    /\ rooms = [r \in RoomIds |-> NoRoom]
    /\ ready = [c \in Conns |-> "NEW"]
    /\ roomId = [c \in Conns |-> NoRoomId]
    /\ fingerprint = [c \in Conns |-> NoFp]
    /\ violations = [c \in Conns |-> 0]
    /\ Guard!Init
    /\ Limiter!Init
    /\ sent = [c \in Conns |-> NoFrame]
-----------------------------------------------------------------------------
HasRoom(r) == r \in RoomIds /\ rooms[r] # NoRoom

Listed(c, r) == HasRoom(r) /\ c \in Members(rooms[r])

(* Mutant of Receiving: frames are handled after the 'close' event, too.    *)
ReceivingForever(c) == ready[c] # "NEW"

(* A frame of socket c can be handled until its 'close' event.              *)
Receiving(c) == ready[c] \in {"OPEN", "CLOSING"}

(* The fingerprints a create or join of c's client may carry.               *)
Announces(c) == {Identity[c]} \cup (IF c \in MayOmit THEN {NoFp} ELSE {})

(* client.fingerprint once the payload's fingerprint f has been looked at.  *)
Known(c, f) == IF f = NoFp THEN fingerprint[c] ELSE f

Silence == [d \in Conns |-> NoFrame]

(* ws.send: only an open socket takes the frame.                            *)
Deliver(targets, event, from) ==
    [d \in Conns |-> IF d \in targets /\ ready[d] = "OPEN"
                     THEN [event |-> event, from |-> from] ELSE NoFrame]

(* broadcastToRoom: everybody listed in the room but the sender.            *)
Peers(c, r) == {d \in Conns \ {c} : Listed(d, r)}

(* sendSuccess to c next to a broadcast that does not include c.            *)
SuccessAnd(c, broadcast) ==
    [broadcast EXCEPT ![c] = Deliver({c}, "success", NoFp)[c]]

Success(c) == SuccessAnd(c, Silence)

(* Mutant of Reject: the limit is looked at before the violation counts.    *)
RejectLate(c) ==
    LET tooMany == DisconnectOnViolations /\ violations[c] = MaxViolations
    IN  /\ violations' = IF DisconnectOnViolations /\ violations[c] < MaxViolations
                         THEN [violations EXCEPT ![c] = @ + 1] ELSE violations
        /\ ready' = IF tooMany /\ ready[c] = "OPEN"
                    THEN [ready EXCEPT ![c] = "CLOSING"] ELSE ready
        /\ sent' = IF tooMany THEN Silence ELSE Deliver({c}, "error", NoFp)

(* sendError with the client: a violation is counted, and the socket is     *)
(* closed instead of answered once there are too many.                     *)
Reject(c) ==
    LET count == IF ~DisconnectOnViolations THEN violations[c]
                 ELSE IF violations[c] < MaxViolations THEN violations[c] + 1
                 ELSE MaxViolations
        tooMany == DisconnectOnViolations /\ count = MaxViolations
    IN  /\ violations' = [violations EXCEPT ![c] = count]
        /\ ready' = IF tooMany /\ ready[c] = "OPEN"
                    THEN [ready EXCEPT ![c] = "CLOSING"] ELSE ready
        /\ sent' = IF tooMany THEN Silence ELSE Deliver({c}, "error", NoFp)

(* Mutant of Touched: a broadcast does not refresh the room.                *)
Untouched(r) == rooms

Touched(r) == IF HasRoom(r) THEN [rooms EXCEPT ![r] = UpdateLastActivity(@)] ELSE rooms
-----------------------------------------------------------------------------
(* The upgrade succeeded and handleConnection installed its handlers.       *)
Accept(c) ==
    /\ ready[c] = "NEW"
    /\ ready' = [ready EXCEPT ![c] = "OPEN"]
    /\ sent' = Silence
    /\ UNCHANGED <<rooms, roomId, fingerprint, violations, seen, buckets>>

(* room:create on a free room id.                                           *)
CreateRoom(c, r, t, f) ==
    /\ Receiving(c)
    /\ rooms[r] = NoRoom
    /\ rooms' = [rooms EXCEPT ![r] = AddClient(AddRoom(t), c)]
    /\ roomId' = [roomId EXCEPT ![c] = r]
    /\ fingerprint' = [fingerprint EXCEPT ![c] = Known(c, f)]
    /\ sent' = Success(c)
    /\ UNCHANGED <<ready, violations, seen, buckets>>

(* Mutant of CanRejoin: knowing the room id is enough.                      *)
CanWalkIn(c, r, t, f) == HasRoom(r) /\ CanAddClient(rooms[r], c)

(* room:create on a room that exists: a rejoin, the token is not bound.     *)
CanRejoin(c, r, t, f) ==
    /\ HasRoom(r)
    /\ VerifyInviteToken(rooms[r], t, Known(c, f))
    /\ CanAddClient(rooms[r], c)

RejoinRoom(c, r, t, f) ==
    /\ Receiving(c)
    /\ CanRejoin(c, r, t, f)
    /\ rooms' = [rooms EXCEPT ![r] = AddClient(@, c)]
    /\ roomId' = [roomId EXCEPT ![c] = r]
    /\ fingerprint' = [fingerprint EXCEPT ![c] = Known(c, f)]
    /\ sent' = SuccessAnd(c, Deliver(Peers(c, r), "client:joined", Known(c, f)))
    /\ UNCHANGED <<ready, violations, seen, buckets>>

(* A refused create has already taken over the announced fingerprint.       *)
RefuseCreate(c, r, t, f) ==
    /\ Receiving(c)
    /\ HasRoom(r)
    /\ ~CanRejoin(c, r, t, f)
    /\ fingerprint' = [fingerprint EXCEPT ![c] = Known(c, f)]
    /\ Reject(c)
    /\ UNCHANGED <<rooms, roomId, seen, buckets>>

(* room:join verifies and binds the fingerprint of the payload, not the     *)
(* one the connection has announced before.                                *)
CanJoin(c, r, t, f) ==
    /\ HasRoom(r)
    /\ VerifyInviteToken(rooms[r], t, f)
    /\ CanAddClient(rooms[r], c)

JoinRoom(c, r, t, f) ==
    /\ Receiving(c)
    /\ CanJoin(c, r, t, f)
    /\ rooms' = [rooms EXCEPT ![r] = BindInviteToken(AddClient(@, c), t, f)]
    /\ roomId' = [roomId EXCEPT ![c] = r]
    /\ fingerprint' = [fingerprint EXCEPT ![c] = Known(c, f)]
    /\ sent' = SuccessAnd(c, Deliver(Peers(c, r), "client:joined", Known(c, f)))
    /\ UNCHANGED <<ready, violations, seen, buckets>>

RefuseJoin(c, r, t, f) ==
    /\ Receiving(c)
    /\ ~CanJoin(c, r, t, f)
    /\ fingerprint' = [fingerprint EXCEPT ![c] = Known(c, f)]
    /\ Reject(c)
    /\ UNCHANGED <<rooms, roomId, seen, buckets>>
-----------------------------------------------------------------------------
(* key:exchange for the client's room, or for any room while it is in none. *)
KeyExchange(c, r) ==
    /\ Receiving(c)
    /\ roomId[c] \in {NoRoomId, r}
    /\ fingerprint' = [fingerprint EXCEPT ![c] = Identity[c]]
    /\ rooms' = Touched(roomId[c])
    /\ sent' = Deliver(Peers(c, roomId[c]), "key:exchange", Identity[c])
    /\ UNCHANGED <<ready, roomId, violations, seen, buckets>>

RefuseKeyExchange(c, r) ==
    /\ Receiving(c)
    /\ roomId[c] \notin {NoRoomId, r}
    /\ Reject(c)
    /\ UNCHANGED <<rooms, roomId, fingerprint, seen, buckets>>

(* checkMessageRateLimit, keyed by the connection's fingerprint; a          *)
(* connection that announced none is not limited.                          *)
WithinRate(c) == fingerprint[c] = NoFp \/ Limiter!Allows(fingerprint[c])

CountMessage(c) ==
    IF fingerprint[c] = NoFp THEN UNCHANGED buckets
                             ELSE Limiter!Count(fingerprint[c])

(* message:send for a room the client is not in, or when it is in none.     *)
RefuseMessage(c, r) ==
    /\ Receiving(c)
    /\ roomId[c] # r
    /\ Reject(c)
    /\ UNCHANGED <<rooms, roomId, fingerprint, seen, buckets>>

RateLimitMessage(c) ==
    /\ Receiving(c)
    /\ roomId[c] # NoRoomId
    /\ ~WithinRate(c)
    /\ CountMessage(c)
    /\ Reject(c)
    /\ UNCHANGED <<rooms, roomId, fingerprint, seen>>

(* A file message with a missing or too large file_size.                    *)
RefuseFile(c) ==
    /\ Receiving(c)
    /\ roomId[c] # NoRoomId
    /\ WithinRate(c)
    /\ CountMessage(c)
    /\ Reject(c)
    /\ UNCHANGED <<rooms, roomId, fingerprint, seen>>

RefuseReplay(c, n) ==
    /\ Receiving(c)
    /\ roomId[c] # NoRoomId
    /\ WithinRate(c)
    /\ ~Guard!Fresh(Identity[c], n)
    /\ CountMessage(c)
    /\ Reject(c)
    /\ UNCHANGED <<rooms, roomId, fingerprint, seen>>

(* forwardMessageToClient looks at one client only: the first in the list   *)
(* with the recipient's fingerprint, whatever the state of its socket.     *)
FirstWith(to, r) ==
    IF ~HasRoom(r) THEN {}
    ELSE LET list == rooms[r].clients
         IN  {list[i] : i \in {j \in DOMAIN list :
                /\ fingerprint[list[j]] = to
                /\ \A k \in 1 .. j - 1 : fingerprint[list[k]] # to}}

PassChecks(c, n) ==
    /\ Receiving(c)
    /\ roomId[c] # NoRoomId
    /\ WithinRate(c)
    /\ CountMessage(c)
    /\ Guard!Mark(Identity[c], n)

(* forwardMessageToClient does not touch the room.                          *)
SendTargeted(c, n, to) ==
    /\ PassChecks(c, n)
    /\ sent' = Deliver(FirstWith(to, roomId[c]), "message:receive", Identity[c])
    /\ UNCHANGED <<rooms, conn>>

SendBroadcast(c, n) ==
    /\ PassChecks(c, n)
    /\ rooms' = Touched(roomId[c])
    /\ sent' = Deliver(Peers(c, roomId[c]), "message:receive", Identity[c])
    /\ UNCHANGED conn
-----------------------------------------------------------------------------
CanInvite(c, r, t) ==
    /\ roomId[c] = r
    /\ HasRoom(r)
    /\ CanAddInviteToken(rooms[r], t)

InviteCreate(c, r, t) ==
    /\ Receiving(c)
    /\ CanInvite(c, r, t)
    /\ rooms' = [rooms EXCEPT ![r] = AddInviteToken(@, t)]
    /\ sent' = Success(c)
    /\ UNCHANGED <<conn, seen, buckets>>

RefuseInvite(c, r, t) ==
    /\ Receiving(c)
    /\ ~CanInvite(c, r, t)
    /\ Reject(c)
    /\ UNCHANGED <<rooms, roomId, fingerprint, seen, buckets>>

(* typing:start and typing:stop; ignored outside a room.                    *)
Typing(c) ==
    /\ Receiving(c)
    /\ roomId[c] # NoRoomId
    /\ rooms' = Touched(roomId[c])
    /\ sent' = Deliver(Peers(c, roomId[c]), "typing", fingerprint[c])
    /\ UNCHANGED <<conn, seen, buckets>>

(* Mutant of RoomsWithout: clients are told apart by fingerprint, not by    *)
(* socket.                                                                 *)
RoomsWithoutUser(c) ==
    IF HasRoom(roomId[c])
    THEN [rooms EXCEPT ![roomId[c]].clients =
            SelectSeq(@, LAMBDA d : fingerprint[d] # fingerprint[c])]
    ELSE rooms

(* The room without c, after the broadcast that c has left.                 *)
RoomsWithout(c) ==
    IF HasRoom(roomId[c])
    THEN [rooms EXCEPT ![roomId[c]] = UpdateLastActivity(RemoveClient(@, c))]
    ELSE rooms

PurgeReplay(c) ==
    IF fingerprint[c] = NoFp THEN UNCHANGED seen ELSE Guard!Purge(fingerprint[c])

(* Mutant of LeaveRoom: roomId is reset before the broadcast uses it.       *)
LeaveRoomSilently(c) ==
    /\ Receiving(c)
    /\ roomId[c] # NoRoomId
    /\ rooms' = RoomsWithout(c)
    /\ roomId' = [roomId EXCEPT ![c] = NoRoomId]
    /\ PurgeReplay(c)
    /\ sent' = Success(c)
    /\ UNCHANGED <<ready, fingerprint, violations, buckets>>

(* room:leave.  The message rate bucket stays.                              *)
LeaveRoom(c) ==
    /\ Receiving(c)
    /\ roomId[c] # NoRoomId
    /\ rooms' = RoomsWithout(c)
    /\ roomId' = [roomId EXCEPT ![c] = NoRoomId]
    /\ PurgeReplay(c)
    /\ sent' = SuccessAnd(c, Deliver(Peers(c, roomId[c]), "client:left", fingerprint[c]))
    /\ UNCHANGED <<ready, fingerprint, violations, buckets>>

(* A known event whose payload does not validate, or an unknown event.      *)
BadRequest(c) ==
    /\ Receiving(c)
    /\ Reject(c)
    /\ UNCHANGED <<rooms, roomId, fingerprint, seen, buckets>>

(* Not JSON, no event name or too large: answered, but not a violation.     *)
Malformed(c) ==
    /\ Receiving(c)
    /\ sent' = Deliver({c}, "error", NoFp)
    /\ UNCHANGED <<rooms, conn, seen, buckets>>
-----------------------------------------------------------------------------
(* The peer closes, or its connection is lost and the socket notices.       *)
BeginClose(c) ==
    /\ ready[c] = "OPEN"
    /\ ready' = [ready EXCEPT ![c] = "CLOSING"]
    /\ sent' = Silence
    /\ UNCHANGED <<rooms, roomId, fingerprint, violations, seen, buckets>>

(* handleClientDisconnect on the 'close' event.                             *)
Disconnect(c) ==
    /\ ready[c] = "CLOSING"
    /\ ready' = [ready EXCEPT ![c] = "CLOSED"]
    /\ rooms' = RoomsWithout(c)
    /\ sent' = Deliver(Peers(c, roomId[c]), "client:left", fingerprint[c])
    /\ IF roomId[c] = NoRoomId \/ fingerprint[c] = NoFp
       THEN UNCHANGED <<seen, buckets>>
       ELSE Guard!Purge(fingerprint[c]) /\ Limiter!Delete(fingerprint[c])
    /\ UNCHANGED <<roomId, fingerprint, violations>>

(* Mutant of Expired: a room with clients in its list is not reaped.        *)
ExpiredAndEmpty ==
    {r \in RoomIds : HasRoom(r) /\ IsExpired(rooms[r]) /\ rooms[r].clients = <<>>}

Expired == {r \in RoomIds : HasRoom(r) /\ IsExpired(rooms[r])}

(* Mutant of Evicted: sockets are closed for idleness only.                 *)
EvictedIdle ==
    {c \in Conns : ready[c] = "OPEN" /\ \E r \in Expired : Listed(c, r) /\ IsIdle(rooms[r])}

(* cleanupExpiredRooms: whoever is listed in an expired room is told and    *)
(* its socket closed, then the rooms and their tokens are dropped.         *)
Evicted == {c \in Conns : ready[c] = "OPEN" /\ \E r \in Expired : Listed(c, r)}

Cleanup ==
    /\ Expired # {}
    /\ rooms' = [r \in RoomIds |-> IF r \in Expired THEN NoRoom ELSE rooms[r]]
    /\ ready' = [c \in Conns |-> IF c \in Evicted THEN "CLOSING" ELSE ready[c]]
    /\ sent' = Deliver(Evicted, "room:closed", NoFp)
    /\ UNCHANGED <<roomId, fingerprint, violations, seen, buckets>>

(* One unit of time.                                                        *)
Tick ==
    /\ rooms' = [r \in RoomIds |-> IF HasRoom(r) THEN Aged(rooms[r]) ELSE NoRoom]
    /\ Guard!Tick
    /\ Limiter!Tick
    /\ sent' = Silence
    /\ UNCHANGED conn
-----------------------------------------------------------------------------
(* The frames that enter, open or leave a room.                             *)
RoomRequest(c) ==
    \/ \E r \in RoomIds, t \in Tokens, f \in Announces(c) :
        \/ CreateRoom(c, r, t, f)
        \/ RejoinRoom(c, r, t, f)
        \/ RefuseCreate(c, r, t, f)
        \/ JoinRoom(c, r, t, f)
        \/ RefuseJoin(c, r, t, f)
    \/ \E r \in RoomIds, t \in Tokens : InviteCreate(c, r, t) \/ RefuseInvite(c, r, t)
    \/ LeaveRoom(c)

(* The frames that are passed on to other clients, message:send excepted.   *)
PeerRequest(c) ==
    \/ \E r \in RoomIds : KeyExchange(c, r) \/ RefuseKeyExchange(c, r)
    \/ Typing(c)
    \/ BadRequest(c)
    \/ Malformed(c)

(* Every outcome of message:send; each message carries a nonce.             *)
MessageRequest(c) ==
    \E n \in Nonces :
        \/ \E r \in RoomIds : RefuseMessage(c, r)
        \/ RateLimitMessage(c)
        \/ RefuseFile(c)
        \/ RefuseReplay(c, n)
        \/ SendBroadcast(c, n)
        \/ \E to \in Fps : SendTargeted(c, n, to)

SocketEvent(c) == Accept(c) \/ BeginClose(c) \/ Disconnect(c)

Handle(c) == SocketEvent(c) \/ RoomRequest(c) \/ PeerRequest(c) \/ MessageRequest(c)

Next == Tick \/ Cleanup \/ \E c \in Conns : Handle(c)

Spec == Init /\ [][Next]_vars

(* Time passes, the cleanup interval keeps firing, and a socket that is     *)
(* closing gets its 'close' event (ws destroys it after 30 seconds).  No    *)
(* client is obliged to send anything or to close.                         *)
Fairness ==
    /\ WF_vars(Tick)
    /\ WF_vars(Cleanup)
    /\ \A c \in Conns : WF_vars(Disconnect(c))

FairSpec == Spec /\ Fairness
-----------------------------------------------------------------------------
(* A client that can still be talked to and believes it is in a room is in  *)
(* that room's list, and the room exists: nothing it sends is relayed from  *)
(* outside, and no broadcast passes it by (client.roomId against            *)
(* room.clients, which different handlers keep in step by hand).           *)
OpenMembersListed ==
    \A c \in Conns : ready[c] = "OPEN" /\ roomId[c] # NoRoomId => Listed(c, roomId[c])

(* Once its 'close' event is handled, a connection is out of the room it    *)
(* was in, although frames it sent earlier were handled until then and      *)
(* could have put it back.                                                 *)
ClosedNotListed ==
    \A c \in Conns : ready[c] = "CLOSED" => ~Listed(c, roomId[c])

(* No room exceeds its capacity and no socket is listed twice, so that      *)
(* removing one place removes the client (addClient, removeClient).        *)
RoomsWellFormed ==
    \A r \in RoomIds : HasRoom(r) =>
        /\ Len(rooms[r].clients) \in 0 .. MaxParticipants
        /\ IsInjective(rooms[r].clients)

(* A client that has used up its violations has lost its socket, whichever  *)
(* of the refusals of any handler was the last one (sendError).            *)
ViolatorsLoseTheirSocket ==
    DisconnectOnViolations =>
        \A c \in Conns : violations[c] = MaxViolations => ready[c] # "OPEN"

(* Nobody disappears from a room, or appears in it, behind the back of the  *)
(* others: whoever was inside with an open socket and stays inside is sent  *)
(* client:joined or client:left with the right fingerprint.                *)
MembershipAnnounced ==
    [][\A r \in RoomIds, c \in Conns :
        \A d \in {e \in Peers(c, r) : ready[e] = "OPEN" /\ HasRoom(r)'} :
            /\ Listed(c, r) /\ ~Listed(c, r)' =>
                sent'[d] = [event |-> "client:left", from |-> fingerprint[c]]
            /\ ~Listed(c, r) /\ Listed(c, r)' =>
                sent'[d] = [event |-> "client:joined", from |-> fingerprint'[c]]]_vars

Owns(f, r) == HasRoom(r) /\ \E t \in Tokens : rooms[r].tokens[t] = f

(* Whoever joins a room with its fingerprint owns a token of it from then   *)
(* on, until the room closes: nobody's joining, rejoining, inviting,        *)
(* leaving or reconnecting takes it away, so it can always come back        *)
(* (bindInviteToken, addInviteToken).                                       *)
JoinersOwnTokens ==
    [][\A r \in RoomIds, f \in Fps :
        /\ HasRoom(r)'
        /\ Owns(f, r) \/ \E c \in Conns, t \in Tokens : JoinRoom(c, r, t, f)
        => Owns(f, r)']_vars

(* A connection that is still open after a step in which a room closed did  *)
(* not lose the room it is in: cleanup never leaves a live client believing *)
(* in a room that is gone, and closes exactly the sockets it tells so.     *)
EvictionComplete ==
    [][\A c \in Conns, r \in RoomIds :
        roomId[c] = r /\ ready[c] = "OPEN" /\ HasRoom(r) /\ ~HasRoom(r)' =>
            ready'[c] = "CLOSING" /\ sent'[c].event = "room:closed"]_vars

(* The relay is a room access service: see RoomAccess.                      *)
Access == INSTANCE RoomAccess WITH
    open    <- {r \in RoomIds : HasRoom(r)},
    members <- [r \in RoomIds |-> IF HasRoom(r) THEN Members(rooms[r]) ELSE {}],
    invites <- [r \in RoomIds |-> IF HasRoom(r) THEN rooms[r].tokens
                                 ELSE [t \in Tokens |-> Absent]]

ImplementsRoomAccess == Access!Spec

(* Every room is removed in the end, by idleness or by its lifetime, however *)
(* busy its members keep it.                                               *)
RoomsExpire == \A r \in RoomIds : HasRoom(r) ~> ~HasRoom(r)

(* A connection that is gone is, after a while, in no list any more: the    *)
(* place it may keep in a room it moved away from lasts no longer than the  *)
(* room.                                                                   *)
GhostsVanish ==
    \A c \in Conns : ready[c] = "CLOSED" ~> [](\A r \in RoomIds : ~Listed(c, r))
=============================================================================
