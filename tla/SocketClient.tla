---------------------------- MODULE SocketClient ----------------------------
(***************************************************************************)
(* The browser's WebSocketClient (frontend/src/socket/client.ts) with the  *)
(* part of the page that drives it: which room the page is in, what it     *)
(* asks for when the connection opens, and what a user asks for while it   *)
(* is still opening.  The browser runs one callback at a time, so each     *)
(* action is a callback with everything it calls, the continuation of an   *)
(* awaited connect() included: it runs before the next callback.           *)
(*                                                                         *)
(* An attempt is one `new WebSocket`, with the timer that connect() arms   *)
(* for it.  The handlers are on the socket of `ws` alone: teardown takes   *)
(* them off and lets go of the socket in one go.                           *)
(***************************************************************************)
EXTENDS Sequences, Integers

CONSTANTS
    Attempts,  \* attempts to connect; one is used again when nothing is left of it
    NoSocket,  \* `ws` is null
    RoomIds,
    NoRoom,    \* activeRoomIdRef is '', nothing is stored, nothing is asked for
    MaxQueue,  \* maxQueueSize
    MaxWire    \* bound of the model: frames on one connection

ASSUME ClientConstants ==
    /\ NoSocket \notin Attempts
    /\ NoRoom \notin RoomIds
    /\ MaxQueue \in Nat \ {0}
    /\ MaxWire \in Nat

VARIABLES
    ws,           \* the attempt whose socket the client holds, or NoSocket
    sock,         \* readyState of each attempt's socket
    timer,        \* the attempts whose ten seconds are still counted
    reconnect,    \* reconnectTimer is armed
    intentional,  \* intentionalClose
    asked,        \* room that the caller awaiting this attempt will enter
    queue,        \* messageQueue
    wire,         \* frames given to the socket of `ws` since it opened
    room,         \* activeRoomIdRef of the page
    session,      \* room in the page's sessionStorage
    mounted,      \* the page is up, its listeners subscribed
    captured      \* rooms whose id a message or file being encrypted, or the
                  \* typing timer, has taken along

client == <<ws, sock, timer, reconnect, intentional, asked>>
page == <<room, session, mounted>>
vars == <<client, queue, wire, page, captured>>

(* What the relay is told: to enter a room (room:create, room:join), to     *)
(* leave it, or anything else.  What the page calls for on the spot, keys   *)
(* and invites, is marked with the room it is in then; what it sends after  *)
(* an await or by a timer is "late" and marked with the room it was in      *)
(* before.                                                                  *)
Enter(r) == [kind |-> "enter", room |-> r]
Leave == [kind |-> "leave", room |-> NoRoom]
Called == {"frame", "late"}
Frame == [kind : Called \cup {"enter", "leave"}, room : RoomIds \cup {NoRoom}]

Live == ws # NoSocket /\ sock[ws] = "OPEN"

(* The page mounts, with or without a room to come back to, and connects.   *)
Init ==
    /\ ws \in Attempts
    /\ sock = [a \in Attempts |-> IF a = ws THEN "CONNECTING" ELSE "CLOSED"]
    /\ timer = {ws}
    /\ reconnect = FALSE
    /\ intentional = FALSE
    /\ asked = NoRoom
    /\ queue = <<>>
    /\ wire = <<>>
    /\ room = NoRoom
    /\ session \in RoomIds \cup {NoRoom}
    /\ mounted = TRUE
    /\ captured = {}
-----------------------------------------------------------------------------
(* Mutant of Hangup: only open sockets are closed.                          *)
HangupOpenOnly(state) == IF state = "OPEN" THEN "CLOSING" ELSE state

(* teardown: the reconnect timer is cleared, the socket is closed and let   *)
(* go of.  The attempt's own timer is not cleared.                          *)
Hangup(state) == IF state \in {"CONNECTING", "OPEN"} THEN "CLOSING" ELSE state

TornDown == [a \in Attempts |-> IF a = ws THEN Hangup(sock[a]) ELSE sock[a]]

Teardown ==
    /\ sock' = TornDown
    /\ reconnect' = FALSE
    /\ ws' = NoSocket
    /\ asked' = NoRoom
    /\ wire' = <<>>

(* Nothing is left of the attempt: it stands for a new one.                 *)
Unused(a) == a # ws /\ a \notin timer /\ sock[a] \notin {"CONNECTING", "OPEN"}

(* Mutant of Dial: the pending reconnect is not taken back.                 *)
DialKeepingRetry(r) ==
    /\ ~Live
    /\ \E a \in Attempts :
        /\ Unused(a)
        /\ ws' = a
        /\ sock' = [TornDown EXCEPT ![a] = "CONNECTING"]
        /\ timer' = timer \cup {a}
    /\ intentional' = FALSE
    /\ asked' = r
    /\ wire' = <<>>
    /\ UNCHANGED <<reconnect, queue, page, captured>>

(* connect() when the client is not connected: whatever there was is torn   *)
(* down and a new attempt made, which the caller, if any, awaits.           *)
Dial(r) ==
    /\ ~Live
    /\ \E a \in Attempts :
        /\ Unused(a)
        /\ ws' = a
        /\ sock' = [TornDown EXCEPT ![a] = "CONNECTING"]
        /\ timer' = timer \cup {a}
    /\ reconnect' = FALSE
    /\ intentional' = FALSE
    /\ asked' = r
    /\ wire' = <<>>
    /\ UNCHANGED <<queue, page, captured>>

(* Mutant of Hand: the queue is found full one frame too late.              *)
HandOneMore(queued, frame) ==
    IF Live
    THEN wire' = Append(wire, frame) /\ queue' = queued
    ELSE /\ wire' = wire
         /\ queue' = IF Len(queued) <= MaxQueue THEN Append(queued, frame) ELSE queued

(* sendMessage, with what is queued before it.                              *)
Hand(queued, frame) ==
    IF Live
    THEN wire' = Append(wire, frame) /\ queue' = queued
    ELSE /\ wire' = wire
         /\ queue' = IF Len(queued) < MaxQueue THEN Append(queued, frame) ELSE queued

(* createRoom, joinRoom and leaveRoom drop what is queued.                  *)
RequestRoom(frame) == Hand(<<>>, frame)
-----------------------------------------------------------------------------
(* handleCreateRoom and handleJoinRoom: at once when the client is          *)
(* connected, else after the attempt they make has opened.  They begin on   *)
(* the home screen but await before they get here: by then the page may be  *)
(* gone, or back in a room that the 'open' listener found in the storage.   *)
AskRoom(r) ==
    \/ /\ Live
       /\ Len(wire) < MaxWire
       /\ RequestRoom(Enter(r))
       /\ room' = r
       /\ session' = r
       /\ UNCHANGED <<client, mounted, captured>>
    \/ Dial(r)

LeaveRoom ==
    /\ mounted
    /\ room # NoRoom
    /\ Len(wire) < MaxWire
    /\ RequestRoom(Leave)
    /\ room' = NoRoom
    /\ session' = NoRoom
    /\ UNCHANGED <<client, mounted, captured>>

(* Key exchange and invites, typing:start, and typing:stop on submission.   *)
Send ==
    /\ Len(wire) < MaxWire
    /\ Hand(queue, [kind |-> "frame", room |-> room])
    /\ UNCHANGED <<client, page, captured>>

(* A message or a file goes to the encryption, or the draft is edited: the  *)
(* closure keeps the room's id.                                             *)
Capture ==
    /\ mounted
    /\ room # NoRoom
    /\ captured' = captured \cup {room}
    /\ UNCHANGED <<client, queue, wire, page>>

(* An encryption for one of the recipients is done, or two seconds have     *)
(* passed since the last edit, wherever the page is by now.                 *)
SendLate(r) ==
    /\ r \in captured
    /\ captured' \in {captured, captured \ {r}}
    /\ Len(wire) < MaxWire
    /\ Hand(queue, [kind |-> "late", room |-> r])
    /\ UNCHANGED <<client, page>>

(* The page is taken down: it unsubscribes and disconnects.                 *)
Disconnect ==
    /\ mounted
    /\ mounted' = FALSE
    /\ intentional' = TRUE
    /\ queue' = <<>>
    /\ Teardown
    /\ UNCHANGED <<timer, room, session, captured>>
-----------------------------------------------------------------------------
(* The room the page asks for again when the connection opens.              *)
Resumed ==
    IF ~mounted THEN NoRoom ELSE IF room # NoRoom THEN room ELSE session

(* Mutant of Greeting: only a room found in the storage is asked for, not   *)
(* the one the page is in.                                                  *)
GreetingStored ==
    IF Resumed = NoRoom \/ room # NoRoom THEN queue ELSE <<Enter(session)>>

(* Mutant of Greeting: the queue is sent before the page is told.           *)
GreetingLast ==
    IF Resumed = NoRoom THEN queue ELSE Append(queue, Enter(Resumed))

(* onopen tells the page first, and asking for a room drops the queue; then *)
(* what is queued is sent.                                                  *)
Greeting == IF Resumed = NoRoom THEN queue ELSE <<Enter(Resumed)>>

(* onopen, with the caller that waited for the connection at its end.       *)
Established ==
    /\ ws # NoSocket
    /\ sock[ws] = "CONNECTING"
    /\ sock' = [sock EXCEPT ![ws] = "OPEN"]
    /\ timer' = timer \ {ws}
    /\ reconnect' = FALSE
    /\ wire' = Greeting \o (IF asked = NoRoom THEN <<>> ELSE <<Enter(asked)>>)
    /\ queue' = <<>>
    /\ room' = IF asked # NoRoom THEN asked ELSE IF mounted THEN Resumed ELSE room
    /\ session' = IF asked = NoRoom THEN session ELSE asked
    /\ asked' = NoRoom
    /\ UNCHANGED <<ws, intentional, mounted, captured>>

(* The closing handshake of the relay: readyState changes before onclose.   *)
ServerCloses ==
    /\ Live
    /\ sock' = [sock EXCEPT ![ws] = "CLOSING"]
    /\ UNCHANGED <<ws, timer, reconnect, intentional, asked, queue, wire, page, captured>>

(* Mutant of Closed: only a connection that had opened is retried.          *)
ClosedOnce ==
    /\ ws # NoSocket
    /\ sock' = [sock EXCEPT ![ws] = "CLOSED"]
    /\ timer' = timer \ {ws}
    /\ asked' = NoRoom
    /\ ws' = NoSocket
    /\ reconnect' = (sock[ws] # "CONNECTING")
    /\ wire' = <<>>
    /\ UNCHANGED <<intentional, queue, page, captured>>

(* onclose, after onerror when the attempt failed: the attempt's timer is   *)
(* cleared, its caller told, and another attempt is due in three seconds.   *)
Closed ==
    /\ ws # NoSocket
    /\ sock' = [sock EXCEPT ![ws] = "CLOSED"]
    /\ timer' = timer \ {ws}
    /\ asked' = NoRoom
    /\ IF intentional
       THEN UNCHANGED <<ws, reconnect, wire>>
       ELSE ws' = NoSocket /\ reconnect' = TRUE /\ wire' = <<>>
    /\ UNCHANGED <<intentional, queue, page, captured>>

(* The reconnect timer fires: connect() without anybody waiting.            *)
Reconnect == reconnect /\ Dial(NoRoom)

(* Ten seconds after attempt a was made, unless its socket has opened or    *)
(* failed with its handlers on: the client tears down whatever it holds.    *)
ConnectTimeout(a) ==
    /\ a \in timer
    /\ timer' = timer \ {a}
    /\ Teardown
    /\ UNCHANGED <<intentional, queue, page, captured>>

(* room:closed: the page goes home, without a word to the relay.            *)
RoomClosed ==
    /\ Live
    /\ mounted
    /\ room # NoRoom
    /\ room' = NoRoom
    /\ session' = NoRoom
    /\ UNCHANGED <<client, queue, wire, mounted, captured>>

Next ==
    \/ \E r \in RoomIds : AskRoom(r)
    \/ LeaveRoom
    \/ Send
    \/ Capture
    \/ \E r \in captured : SendLate(r)
    \/ Disconnect
    \/ Established
    \/ ServerCloses
    \/ Closed
    \/ Reconnect
    \/ \E a \in Attempts : ConnectTimeout(a)
    \/ RoomClosed

Spec == Init /\ [][Next]_vars
-----------------------------------------------------------------------------
TypeOK ==
    /\ ws \in Attempts \cup {NoSocket}
    /\ sock \in [Attempts -> {"CONNECTING", "OPEN", "CLOSING", "CLOSED"}]
    /\ timer \subseteq Attempts
    /\ reconnect \in BOOLEAN
    /\ intentional \in BOOLEAN
    /\ asked \in RoomIds \cup {NoRoom}
    /\ queue \in Seq(Frame) /\ Len(queue) <= MaxQueue
    /\ wire \in Seq(Frame)
    /\ room \in RoomIds \cup {NoRoom}
    /\ session \in RoomIds \cup {NoRoom}
    /\ mounted \in BOOLEAN
    /\ captured \subseteq RoomIds

(* However connects, timeouts and closes overlap, the only socket that is   *)
(* open or opening is the one the client holds: the relay never sees one    *)
(* page twice because of an attempt that teardown() let go of.              *)
OneLiveSocket ==
    \A a \in Attempts : a # ws => sock[a] \notin {"CONNECTING", "OPEN"}

(* The reconnect timer of onclose is pending only while the client has      *)
(* nothing and wants something: connect(), whoever calls it, and            *)
(* disconnect() take it back, so it never ends a later attempt.             *)
RetryDisturbsNothing == reconnect => ws = NoSocket /\ ~intentional

(* The last room request among the first n frames of the connection entered *)
(* room r.                                                                  *)
LastAsked(n, r) ==
    \E i \in 1 .. n :
        /\ wire[i] = Enter(r)
        /\ \A j \in i + 1 .. n : wire[j].kind \in Called

(* While the page is up, in a room and connected, that room is the last one *)
(* asked for on this very connection, after a reconnect, a reload and a     *)
(* join that raced with them too: the 'open' listener and the callers of    *)
(* ensureConnected see to it between them.                                  *)
RoomAskedHere == mounted /\ Live /\ room # NoRoom => LastAsked(Len(wire), room)

(* While the page is up, a frame called for on the spot in a room travels   *)
(* only on a connection where that room was the last asked for before it,   *)
(* late frames of other rooms around it or not: what waits in the queue is  *)
(* dropped or sent so that it reaches no other room, and not before the     *)
(* room is entered again.                                                   *)
FramesFollowTheirRoom ==
    mounted => \A i \in 1 .. Len(wire) :
        wire[i].kind = "frame" /\ wire[i].room # NoRoom => LastAsked(i, wire[i].room)

(* A client that has a socket or is about to try again stops doing so only  *)
(* when it is told to disconnect or a connect timer runs out: no order of   *)
(* failures, closes and retries ends the automatic reconnection.            *)
Trying == ws # NoSocket \/ reconnect

KeepsTrying ==
    [][Trying /\ ~Trying' => Disconnect \/ \E a \in Attempts : ConnectTimeout(a)]_vars

(* socket/client.ts:114 says that the connect timeout is there to "reject   *)
(* if we don't open within 10s": it has no business with a connection that  *)
(* has opened.                                                              *)
TimeoutSparesOpen ==
    [][\A a \in Attempts : a \in timer \ timer' /\ Live => Live']_vars
=============================================================================
