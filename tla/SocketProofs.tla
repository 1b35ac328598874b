---------------------------- MODULE SocketProofs ----------------------------
(***************************************************************************)
(* Type correctness and the safety properties of SocketClient.             *)
(***************************************************************************)
EXTENDS SocketClient, TLAPS

LEMMA FramesAreFrames ==
    /\ \A r \in RoomIds \cup {NoRoom} : Enter(r) \in Frame
    /\ Leave \in Frame
    /\ \A r \in RoomIds \cup {NoRoom}, k \in Called : [kind |-> k, room |-> r] \in Frame
BY DEF Enter, Leave, Frame, Called

LEMMA NothingIsFrames == <<>> \in Seq(Frame) /\ Len(<<>>) <= MaxQueue
BY ClientConstants

(* sendMessage and the room requests put frames where frames belong.        *)
LEMMA HandType ==
    ASSUME TypeOK, NEW queued \in Seq(Frame), Len(queued) <= MaxQueue,
           NEW frame \in Frame, Hand(queued, frame)
    PROVE  wire' \in Seq(Frame) /\ queue' \in Seq(Frame) /\ Len(queue') <= MaxQueue
<1>1. wire \in Seq(Frame)
    BY DEF TypeOK
<1>2. CASE Live
    BY <1>1, <1>2 DEF Hand
<1>3. CASE ~Live
  <2>1. Append(queued, frame) \in Seq(Frame) /\ Len(Append(queued, frame)) = Len(queued) + 1
      OBVIOUS
  <2>2. MaxQueue \in Nat /\ Len(queued) \in Nat
      BY ClientConstants
  <2>3. /\ wire' = wire
        /\ queue' = IF Len(queued) < MaxQueue THEN Append(queued, frame) ELSE queued
      BY <1>3, Zenon DEF Hand
  <2> QED BY <1>1, <2>1, <2>2, <2>3
<1> QED BY <1>2, <1>3

LEMMA GreetingType ==
    ASSUME TypeOK
    PROVE  Resumed \in RoomIds \cup {NoRoom} /\ Greeting \in Seq(Frame)
<1>1. Resumed \in RoomIds \cup {NoRoom}
    BY DEF TypeOK, Resumed
<1>2. Enter(Resumed) \in Frame
    BY <1>1, FramesAreFrames
<1> QED BY <1>1, <1>2 DEF Greeting, TypeOK

LEMMA TornDownType ==
    ASSUME TypeOK
    PROVE  TornDown \in [Attempts -> {"CONNECTING", "OPEN", "CLOSING", "CLOSED"}]
BY DEF TypeOK, TornDown, Hangup

LEMMA TeardownType ==
    ASSUME TypeOK, Teardown
    PROVE  /\ ws' \in Attempts \cup {NoSocket}
           /\ sock' \in [Attempts -> {"CONNECTING", "OPEN", "CLOSING", "CLOSED"}]
           /\ reconnect' \in BOOLEAN
           /\ asked' \in RoomIds \cup {NoRoom}
           /\ wire' \in Seq(Frame)
BY TornDownType, NothingIsFrames DEF Teardown

LEMMA DialType ==
    ASSUME TypeOK, NEW r \in RoomIds \cup {NoRoom}, Dial(r)
    PROVE  TypeOK'
<1>1. PICK a \in Attempts :
        /\ ws' = a
        /\ sock' = [TornDown EXCEPT ![a] = "CONNECTING"]
        /\ timer' = timer \cup {a}
    BY DEF Dial
<1> QED BY <1>1, TornDownType, NothingIsFrames DEF Dial, TypeOK, page

LEMMA InitTypeOK == Init => TypeOK
BY NothingIsFrames DEF Init, TypeOK

LEMMA NextTypeOK == TypeOK /\ [Next]_vars => TypeOK'
<1> SUFFICES ASSUME TypeOK, [Next]_vars PROVE TypeOK'
    OBVIOUS
<1>1. ASSUME NEW r \in RoomIds, AskRoom(r) PROVE TypeOK'
  <2>1. CASE Dial(r)
      BY <2>1, DialType
  <2>2. CASE RequestRoom(Enter(r)) /\ room' = r /\ session' = r /\ UNCHANGED <<client, mounted, captured>>
    <3>1. wire' \in Seq(Frame) /\ queue' \in Seq(Frame) /\ Len(queue') <= MaxQueue
        BY <2>2, HandType, NothingIsFrames, FramesAreFrames DEF RequestRoom
    <3> QED BY <2>2, <3>1 DEF TypeOK, client
  <2> QED BY <1>1, <2>1, <2>2 DEF AskRoom
<1>2. CASE LeaveRoom
  <2>1. wire' \in Seq(Frame) /\ queue' \in Seq(Frame) /\ Len(queue') <= MaxQueue
      BY <1>2, HandType, NothingIsFrames, FramesAreFrames DEF LeaveRoom, RequestRoom
  <2> QED BY <1>2, <2>1 DEF LeaveRoom, TypeOK, client
<1>3. CASE Send
  <2>1. [kind |-> "frame", room |-> room] \in Frame
      BY FramesAreFrames DEF TypeOK, Called
  <2>2. wire' \in Seq(Frame) /\ queue' \in Seq(Frame) /\ Len(queue') <= MaxQueue
      BY <1>3, <2>1, HandType DEF Send, TypeOK
  <2> QED BY <1>3, <2>2 DEF Send, TypeOK, client, page
<1>4. CASE Disconnect
    BY <1>4, TeardownType, NothingIsFrames DEF Disconnect, TypeOK
<1>5. CASE Established
  <2>1. asked # NoRoom => Enter(asked) \in Frame
      BY FramesAreFrames DEF TypeOK
  <2>2. wire' \in Seq(Frame)
      BY <1>5, <2>1, GreetingType DEF Established
  <2> QED BY <1>5, <2>2, GreetingType, NothingIsFrames DEF Established, TypeOK
<1>6. CASE ServerCloses
    BY <1>6 DEF ServerCloses, TypeOK, page
<1>7. CASE Closed
    BY <1>7, NothingIsFrames DEF Closed, TypeOK, page
<1>8. CASE Reconnect
    BY <1>8, DialType DEF Reconnect
<1>9. ASSUME NEW a \in Attempts, ConnectTimeout(a) PROVE TypeOK'
    BY <1>9, TeardownType DEF ConnectTimeout, TypeOK, page
<1>10. CASE RoomClosed
    BY <1>10 DEF RoomClosed, TypeOK, client
<1>11. CASE UNCHANGED vars
    BY <1>11 DEF vars, client, page, TypeOK
<1>12. CASE Capture
    BY <1>12 DEF Capture, TypeOK, client, page
<1>13. ASSUME NEW r \in captured, SendLate(r) PROVE TypeOK'
  <2>1. [kind |-> "late", room |-> r] \in Frame
      BY FramesAreFrames DEF TypeOK, Called
  <2>2. wire' \in Seq(Frame) /\ queue' \in Seq(Frame) /\ Len(queue') <= MaxQueue
      BY <1>13, <2>1, HandType DEF SendLate, TypeOK
  <2> QED BY <1>13, <2>2 DEF SendLate, TypeOK, client, page
<1> QED BY <1>1, <1>2, <1>3, <1>4, <1>5, <1>6, <1>7, <1>8, <1>9, <1>10, <1>11, <1>12, <1>13
        DEF Next

(* The client's state keeps its types.                                      *)
THEOREM ClientTypeCorrect == Spec => []TypeOK
BY InitTypeOK, NextTypeOK, PTL DEF Spec
-----------------------------------------------------------------------------
(* One socket.                                                              *)
LEMMA TornDownIsDown ==
    ASSUME TypeOK, OneLiveSocket
    PROVE  \A a \in Attempts : TornDown[a] \notin {"CONNECTING", "OPEN"}
<1> SUFFICES ASSUME NEW a \in Attempts PROVE TornDown[a] \notin {"CONNECTING", "OPEN"}
    OBVIOUS
<1>1. CASE a = ws
    BY <1>1 DEF TornDown, Hangup, TypeOK
<1>2. CASE a # ws
    BY <1>2 DEF TornDown, OneLiveSocket
<1> QED BY <1>1, <1>2

LEMMA DialOneSocket ==
    ASSUME TypeOK, OneLiveSocket, NEW r, Dial(r)
    PROVE  OneLiveSocket'
<1>1. PICK a \in Attempts : ws' = a /\ sock' = [TornDown EXCEPT ![a] = "CONNECTING"]
    BY DEF Dial
<1>2. \A b \in Attempts : b # a => sock'[b] = TornDown[b]
    BY <1>1 DEF TornDown
<1> QED BY <1>1, <1>2, TornDownIsDown DEF OneLiveSocket

LEMMA TeardownOneSocket ==
    ASSUME TypeOK, OneLiveSocket, Teardown
    PROVE  OneLiveSocket'
BY TornDownIsDown DEF Teardown, OneLiveSocket

LEMMA NextOneSocket == TypeOK /\ OneLiveSocket /\ [Next]_vars => OneLiveSocket'
<1> SUFFICES ASSUME TypeOK, OneLiveSocket, [Next]_vars PROVE OneLiveSocket'
    OBVIOUS
<1>1. ASSUME UNCHANGED <<ws, sock>> PROVE OneLiveSocket'
    BY <1>1 DEF OneLiveSocket
<1>2. ASSUME NEW r \in RoomIds, AskRoom(r) PROVE OneLiveSocket'
    BY <1>1, <1>2, DialOneSocket DEF AskRoom, client
<1>3. CASE LeaveRoom
    BY <1>1, <1>3 DEF LeaveRoom, client
<1>4. CASE Send
    BY <1>1, <1>4 DEF Send, client
<1>5. CASE Disconnect
    BY <1>5, TeardownOneSocket DEF Disconnect
<1>6. CASE Established
    BY <1>6 DEF Established, OneLiveSocket, TypeOK
<1>7. CASE ServerCloses
    BY <1>7 DEF ServerCloses, OneLiveSocket, TypeOK
<1>8. CASE Closed
    BY <1>8 DEF Closed, OneLiveSocket, TypeOK
<1>9. CASE Reconnect
    BY <1>9, DialOneSocket DEF Reconnect
<1>10. ASSUME NEW a \in Attempts, ConnectTimeout(a) PROVE OneLiveSocket'
    BY <1>10, TeardownOneSocket DEF ConnectTimeout
<1>11. CASE RoomClosed
    BY <1>1, <1>11 DEF RoomClosed, client
<1>12. CASE UNCHANGED vars
    BY <1>1, <1>12 DEF vars, client
<1>13. ASSUME NEW r \in captured, SendLate(r) PROVE OneLiveSocket'
    BY <1>1, <1>13 DEF SendLate, client
<1>14. CASE Capture
    BY <1>1, <1>14 DEF Capture, client
<1> QED BY <1>2, <1>3, <1>4, <1>5, <1>6, <1>7, <1>8, <1>9, <1>10, <1>11, <1>12, <1>13, <1>14
        DEF Next

(* The client never holds on to a second socket, whatever is torn down      *)
(* when: only the socket of its `ws` is open or opening.                    *)
THEOREM AlwaysOneLiveSocket == Spec => []OneLiveSocket
<1>1. Init => OneLiveSocket
    BY DEF Init, OneLiveSocket
<1> QED BY <1>1, NextOneSocket, ClientTypeCorrect, PTL DEF Spec
-----------------------------------------------------------------------------
(* The reconnect timer.                                                     *)
LEMMA NextRetry == RetryDisturbsNothing /\ [Next]_vars => RetryDisturbsNothing'
<1> SUFFICES ASSUME RetryDisturbsNothing, [Next]_vars PROVE RetryDisturbsNothing'
    OBVIOUS
<1>1. ASSUME UNCHANGED client PROVE RetryDisturbsNothing'
    BY <1>1 DEF RetryDisturbsNothing, client
<1>2. ASSUME ~reconnect' PROVE RetryDisturbsNothing'
    BY <1>2 DEF RetryDisturbsNothing
<1>3. ASSUME NEW r \in RoomIds, AskRoom(r) PROVE RetryDisturbsNothing'
    BY <1>1, <1>2, <1>3 DEF AskRoom, Dial, client
<1>4. CASE LeaveRoom
    BY <1>1, <1>4 DEF LeaveRoom
<1>5. CASE Send
    BY <1>1, <1>5 DEF Send, client
<1>6. CASE Disconnect
    BY <1>2, <1>6 DEF Disconnect, Teardown
<1>7. CASE Established
    BY <1>2, <1>7 DEF Established
<1>8. CASE ServerCloses
    BY <1>8 DEF ServerCloses, Live, RetryDisturbsNothing
<1>9. CASE Closed
    BY <1>9 DEF Closed, RetryDisturbsNothing
<1>10. CASE Reconnect
    BY <1>2, <1>10 DEF Reconnect, Dial
<1>11. ASSUME NEW a \in Attempts, ConnectTimeout(a) PROVE RetryDisturbsNothing'
    BY <1>2, <1>11 DEF ConnectTimeout, Teardown
<1>12. CASE RoomClosed
    BY <1>1, <1>12 DEF RoomClosed, client
<1>13. CASE UNCHANGED vars
    BY <1>1, <1>13 DEF vars
<1>14. ASSUME NEW r \in captured, SendLate(r) PROVE RetryDisturbsNothing'
    BY <1>1, <1>14 DEF SendLate, client
<1>15. CASE Capture
    BY <1>1, <1>15 DEF Capture
<1> QED BY <1>3, <1>4, <1>5, <1>6, <1>7, <1>8, <1>9, <1>10, <1>11, <1>12, <1>13, <1>14, <1>15
        DEF Next

(* A pending automatic reconnect has nothing to tear down, and none is      *)
(* pending after disconnect().                                              *)
THEOREM RetryNeverDisturbs == Spec => []RetryDisturbsNothing
<1>1. Init => RetryDisturbsNothing
    BY DEF Init, RetryDisturbsNothing
<1> QED BY <1>1, NextRetry, PTL DEF Spec
-----------------------------------------------------------------------------
(* Giving up.                                                               *)
LEMMA StepKeepsTrying ==
    ASSUME [Next]_vars, Trying, ~Trying'
    PROVE  Disconnect \/ \E a \in Attempts : ConnectTimeout(a)
<1>1. ASSUME UNCHANGED client PROVE FALSE
    BY <1>1 DEF Trying, client
<1>2. ASSUME NEW r, Dial(r) PROVE FALSE
    BY <1>2, ClientConstants DEF Dial, Trying
<1>3. ASSUME NEW r \in RoomIds, AskRoom(r) PROVE FALSE
    BY <1>1, <1>2, <1>3 DEF AskRoom, client
<1>4. CASE LeaveRoom
    BY <1>1, <1>4 DEF LeaveRoom
<1>5. CASE Send
    BY <1>1, <1>5 DEF Send, client
<1>6. CASE Established
    BY <1>6 DEF Established, Trying
<1>7. CASE ServerCloses
    BY <1>7 DEF ServerCloses, Trying
<1>8. CASE Closed
    BY <1>8 DEF Closed, Trying
<1>9. CASE Reconnect
    BY <1>2, <1>9 DEF Reconnect
<1>10. CASE RoomClosed
    BY <1>1, <1>10 DEF RoomClosed, client
<1>11. CASE UNCHANGED vars
    BY <1>1, <1>11 DEF vars
<1>12. ASSUME NEW r \in captured, SendLate(r) PROVE FALSE
    BY <1>1, <1>12 DEF SendLate, client
<1>13. CASE Capture
    BY <1>1, <1>13 DEF Capture
<1> QED BY <1>3, <1>4, <1>5, <1>6, <1>7, <1>8, <1>9, <1>10, <1>11, <1>12, <1>13 DEF Next

(* The client stops trying only in disconnect() or when a connect timer     *)
(* runs out.                                                                *)
THEOREM AlwaysKeepsTrying == Spec => KeepsTrying
<1>1. [Next]_vars => [Trying /\ ~Trying' => Disconnect \/ \E a \in Attempts : ConnectTimeout(a)]_vars
    BY StepKeepsTrying
<1> QED BY <1>1, PTL DEF Spec, KeepsTrying
-----------------------------------------------------------------------------
(***************************************************************************)
(* Rooms on the wire.  The two properties lean on each other and on the    *)
(* queue: it is empty while the client is connected, and what it holds     *)
(* otherwise, late frames apart, was called for in the room the page is    *)
(* in.                                                                     *)
(***************************************************************************)
QueueWaits == Live => queue = <<>>

OfRoom(frame) == frame.kind = "frame" /\ frame.room # NoRoom

QueueKeepsRoom ==
    mounted => \A i \in 1 .. Len(queue) : OfRoom(queue[i]) => queue[i].room = room

TravelInv ==
    RoomAskedHere /\ FramesFollowTheirRoom /\ QueueWaits /\ QueueKeepsRoom

LEMMA NothingWaits == Len(<<>>) = 0
OBVIOUS

(* What was asked for at a place stays so when frames follow.               *)
LEMMA AskedBefore ==
    ASSUME TypeOK, NEW f \in Frame, wire' = Append(wire, f),
           NEW n \in 1 .. Len(wire), NEW r, LastAsked(n, r)
    PROVE  LastAsked(n, r)'
<1>1. \A j \in 1 .. Len(wire) : wire'[j] = wire[j]
    BY DEF TypeOK
<1>2. PICK i \in 1 .. n : wire[i] = Enter(r) /\ \A j \in i + 1 .. n : wire[j].kind \in Called
    BY DEF LastAsked
<1>3. Len(wire) \in Nat
    BY DEF TypeOK
<1>4. wire'[i] = Enter(r)
    BY <1>1, <1>2, <1>3
<1>5. \A j \in i + 1 .. n : wire'[j].kind \in Called
    BY <1>1, <1>2, <1>3
<1> QED BY <1>2, <1>4, <1>5 DEF LastAsked, Enter

LEMMA AskedNow ==
    ASSUME TypeOK, NEW r \in RoomIds \cup {NoRoom}, wire' = Append(wire, Enter(r)),
           NEW n \in Nat, n = Len(wire) + 1
    PROVE  LastAsked(n, r)'
<1>1. Enter(r) \in Frame
    BY FramesAreFrames
<1>2. /\ Len(wire) \in Nat
      /\ wire'[Len(wire) + 1] = Enter(r)
    BY <1>1 DEF TypeOK
<1> QED BY <1>2 DEF LastAsked, Enter

LEMMA StillAsked ==
    ASSUME TypeOK, NEW f \in Frame, f.kind \in Called, wire' = Append(wire, f),
           NEW r, LastAsked(Len(wire), r), NEW n \in Nat, n = Len(wire) + 1
    PROVE  LastAsked(n, r)'
<1>1. /\ Len(wire) \in Nat
      /\ wire'[Len(wire) + 1] = f
      /\ \A j \in 1 .. Len(wire) : wire'[j] = wire[j]
    BY DEF TypeOK
<1>2. PICK i \in 1 .. Len(wire) :
        wire[i] = Enter(r) /\ \A j \in i + 1 .. Len(wire) : wire[j].kind \in Called
    BY DEF LastAsked
<1>3. wire'[i] = Enter(r) /\ i \in 1 .. n
    BY <1>1, <1>2
<1>4. ASSUME NEW j \in i + 1 .. n PROVE wire'[j].kind \in Called
  <2>1. CASE j = n
      BY <1>1, <2>1
  <2>2. CASE j # n
    <3>1. j \in 1 .. Len(wire) /\ j \in i + 1 .. Len(wire)
        BY <1>1, <1>2, <2>2
    <3> QED BY <1>1, <1>2, <3>1
  <2> QED BY <2>1, <2>2
<1> QED BY <1>3, <1>4 DEF LastAsked, Enter

(* A frame put on a connection leaves the earlier ones where they belong.   *)
LEMMA AppendFollows ==
    ASSUME TypeOK, FramesFollowTheirRoom, NEW f \in Frame, wire' = Append(wire, f),
           mounted' = mounted,
           mounted /\ OfRoom(f) => LastAsked(Len(wire), f.room)
    PROVE  FramesFollowTheirRoom'
<1> SUFFICES ASSUME mounted, NEW i \in 1 .. Len(wire'), OfRoom(wire'[i])
             PROVE  LastAsked(i, wire[i].room)'
    BY DEF FramesFollowTheirRoom, OfRoom
<1>1. Len(wire) \in Nat /\ Len(wire') = Len(wire) + 1
    BY DEF TypeOK
<1>2. CASE i = Len(wire) + 1
  <2>1. wire'[i] = f
      BY <1>1, <1>2 DEF TypeOK
  <2>2. LastAsked(Len(wire), f.room) /\ f.kind \in Called
      BY <2>1 DEF OfRoom, Called
  <2>3. i \in Nat /\ \A r : r = f.room => LastAsked(i, r)'
      BY <1>1, <1>2, <2>2, StillAsked
  <2> QED BY <1>2, <2>1, <2>3 DEF LastAsked
<1>3. CASE i # Len(wire) + 1
  <2>1. i \in 1 .. Len(wire) /\ wire'[i] = wire[i]
      BY <1>1, <1>3 DEF TypeOK
  <2>2. LastAsked(i, wire[i].room)
      BY <2>1 DEF FramesFollowTheirRoom, OfRoom
  <2>3. \A r : r = wire[i].room => LastAsked(i, r)'
      BY <2>1, <2>2, AskedBefore
  <2> QED BY <2>1, <2>3 DEF LastAsked
<1> QED BY <1>2, <1>3

(* The steps after which the client is not connected.                       *)
LEMMA NotLiveStep ==
    ASSUME ~Live', FramesFollowTheirRoom', QueueKeepsRoom'
    PROVE  TravelInv'
BY DEF TravelInv, RoomAskedHere, QueueWaits

LEMMA NothingFollows == wire' = <<>> => FramesFollowTheirRoom'
BY NothingWaits DEF FramesFollowTheirRoom

LEMMA WireUnchanged ==
    FramesFollowTheirRoom /\ UNCHANGED <<wire, mounted>> => FramesFollowTheirRoom'
BY DEF FramesFollowTheirRoom, LastAsked

LEMMA QueueUnchanged ==
    QueueKeepsRoom /\ UNCHANGED <<queue, room, mounted>> => QueueKeepsRoom'
BY DEF QueueKeepsRoom

LEMMA QueueEmptied == queue' = <<>> => QueueKeepsRoom'
BY NothingWaits DEF QueueKeepsRoom

LEMMA TeardownTravels ==
    ASSUME Teardown, QueueKeepsRoom'
    PROVE  TravelInv'
BY NothingFollows, NotLiveStep DEF Teardown, Live

LEMMA DialTravels ==
    ASSUME TypeOK, TravelInv, NEW r, Dial(r)
    PROVE  TravelInv'
<1>1. PICK a \in Attempts : ws' = a /\ sock' = [TornDown EXCEPT ![a] = "CONNECTING"]
    BY DEF Dial
<1>2. sock'[ws'] = "CONNECTING"
    BY <1>1 DEF TornDown
<1> QED BY <1>2, NothingFollows, QueueUnchanged, NotLiveStep
        DEF Dial, Live, page, TravelInv

(* A room request put on the connection or, alone, into the queue.          *)
LEMMA RequestTravels ==
    ASSUME TypeOK, TravelInv, NEW f \in Frame, ~OfRoom(f), RequestRoom(f),
           UNCHANGED <<client, mounted>>, NEW r, room' = r,
           Live /\ r # NoRoom => \A n \in Nat : n = Len(wire) + 1 => LastAsked(n, r)'
    PROVE  TravelInv'
<1>1. Live' <=> Live
    BY DEF Live, client
<1>2. CASE Live
  <2>1. wire' = Append(wire, f) /\ queue' = <<>>
      BY <1>2 DEF RequestRoom, Hand
  <2>2. FramesFollowTheirRoom'
      BY <2>1, AppendFollows DEF TravelInv
  <2>3. Len(wire') \in Nat /\ Len(wire') = Len(wire) + 1
      BY <2>1 DEF TypeOK
  <2>4. ASSUME r # NoRoom PROVE LastAsked(Len(wire), room)'
    <3>1. \A n \in Nat : n = Len(wire') => LastAsked(n, r)'
        BY <1>2, <2>3, <2>4
    <3> QED BY <2>3, <3>1 DEF LastAsked
  <2> QED BY <2>1, <2>2, <2>4, QueueEmptied DEF TravelInv, RoomAskedHere, QueueWaits
<1>3. CASE ~Live
  <2>1. wire' = wire /\ (queue' = <<f>> \/ queue' = <<>>)
      BY <1>3 DEF RequestRoom, Hand
  <2>2. QueueKeepsRoom'
      BY <2>1, QueueEmptied DEF QueueKeepsRoom
  <2> QED BY <1>1, <1>3, <2>1, <2>2, WireUnchanged, NotLiveStep DEF TravelInv
<1> QED BY <1>2, <1>3

LEMMA AskRoomTravels ==
    ASSUME TypeOK, TravelInv, NEW r \in RoomIds, AskRoom(r)
    PROVE  TravelInv'
<1>1. CASE Dial(r)
    BY <1>1, DialTravels
<1>2. CASE /\ Live /\ RequestRoom(Enter(r)) /\ room' = r
           /\ UNCHANGED <<client, mounted>>
  <2>1. wire' = Append(wire, Enter(r))
      BY <1>2 DEF RequestRoom, Hand
  <2>2. \A n \in Nat : n = Len(wire) + 1 => LastAsked(n, r)'
      BY <2>1, AskedNow
  <2>3. Enter(r) \in Frame /\ ~OfRoom(Enter(r))
      BY FramesAreFrames DEF OfRoom, Enter
  <2> QED BY <1>2, <2>2, <2>3, RequestTravels
<1> QED BY <1>1, <1>2 DEF AskRoom

LEMMA LeaveRoomTravels == TypeOK /\ TravelInv /\ LeaveRoom => TravelInv'
<1>1. Leave \in Frame /\ ~OfRoom(Leave)
    BY FramesAreFrames DEF OfRoom, Leave
<1> QED BY <1>1, RequestTravels DEF LeaveRoom

(* A frame called for on the spot names the page's room, a late one any.    *)
LEMMA HandTravels ==
    ASSUME TypeOK, TravelInv, NEW f \in Frame, f.kind \in Called,
           OfRoom(f) => f.room = room, Hand(queue, f), UNCHANGED <<client, page>>
    PROVE  TravelInv'
<1>2. (Live' <=> Live) /\ UNCHANGED page
    BY DEF Live, client
<1>3. CASE Live
  <2>1. wire' = Append(wire, f) /\ queue' = queue
      BY <1>3 DEF Hand
  <2>2. mounted /\ room # NoRoom => LastAsked(Len(wire), room)
      BY <1>3 DEF TravelInv, RoomAskedHere
  <2>3. mounted /\ OfRoom(f) => LastAsked(Len(wire), f.room)
      BY <2>2 DEF OfRoom
  <2>4. FramesFollowTheirRoom'
      BY <1>2, <2>1, <2>3, AppendFollows DEF TravelInv, page
  <2>5. Len(wire') \in Nat /\ Len(wire') = Len(wire) + 1
      BY <2>1 DEF TypeOK
  <2>6. ASSUME mounted, room # NoRoom
        PROVE  \A r, n : n = Len(wire') /\ r = room => LastAsked(n, r)'
      BY <2>1, <2>2, <2>5, <2>6, StillAsked
  <2>7. RoomAskedHere'
      BY <1>2, <2>6 DEF RoomAskedHere, LastAsked, page
  <2> QED BY <1>2, <1>3, <2>1, <2>4, <2>7, QueueUnchanged
          DEF TravelInv, QueueWaits, page
<1>4. CASE ~Live
  <2>1. wire' = wire /\ (queue' = queue \/ queue' = Append(queue, f))
      BY <1>4 DEF Hand
  <2>2. ASSUME queue' = Append(queue, f) PROVE QueueKeepsRoom'
    <3>1. /\ Len(queue) \in Nat /\ Len(queue') = Len(queue) + 1
          /\ queue'[Len(queue) + 1] = f
          /\ \A i \in 1 .. Len(queue) : queue'[i] = queue[i]
        BY <2>2 DEF TypeOK
    <3> QED BY <1>2, <3>1 DEF QueueKeepsRoom, TravelInv, page
  <2> QED BY <1>2, <1>4, <2>1, <2>2, QueueUnchanged, WireUnchanged, NotLiveStep
          DEF TravelInv, page
<1> QED BY <1>3, <1>4

LEMMA SendTravels == TypeOK /\ TravelInv /\ Send => TravelInv'
<1> SUFFICES ASSUME TypeOK, TravelInv, Send PROVE TravelInv'
    OBVIOUS
<1> DEFINE f == [kind |-> "frame", room |-> room]
<1>1. f \in Frame /\ f.kind \in Called /\ f.room = room
    BY FramesAreFrames DEF TypeOK, Called
<1> QED BY <1>1, HandTravels DEF Send

LEMMA SendLateTravels ==
    ASSUME TypeOK, TravelInv, NEW r \in captured, SendLate(r)
    PROVE  TravelInv'
<1> DEFINE f == [kind |-> "late", room |-> r]
<1>1. f \in Frame /\ f.kind \in Called /\ ~OfRoom(f)
    BY FramesAreFrames DEF TypeOK, Called, OfRoom
<1> QED BY <1>1, HandTravels DEF SendLate

(* onopen: nothing of a room is on the wire before the room is asked for,   *)
(* because asking for it has dropped what was queued.                       *)
LEMMA GreetingHasNoRoomFrames ==
    ASSUME TypeOK, QueueKeepsRoom, mounted
    PROVE  \A i \in 1 .. Len(Greeting) : ~OfRoom(Greeting[i])
<1>1. CASE Resumed = NoRoom
  <2>1. room = NoRoom
      BY <1>1 DEF Resumed
  <2> QED BY <1>1, <2>1 DEF Greeting, QueueKeepsRoom, OfRoom
<1>2. CASE Resumed # NoRoom
  <2>1. Greeting = <<Enter(Resumed)>>
      BY <1>2 DEF Greeting
  <2>2. Len(Greeting) = 1 /\ Greeting[1] = Enter(Resumed)
      BY <2>1
  <2> QED BY <2>2 DEF OfRoom, Enter
<1> QED BY <1>1, <1>2

LEMMA EstablishedTravels == TypeOK /\ TravelInv /\ Established => TravelInv'
<1> SUFFICES ASSUME TypeOK, TravelInv, Established PROVE TravelInv'
    OBVIOUS
<1>1. queue' = <<>> /\ mounted' = mounted
    BY DEF Established
<1>2. Greeting \in Seq(Frame) /\ Resumed \in RoomIds \cup {NoRoom}
    BY GreetingType
<1>3. CASE asked = NoRoom
  <2>1. wire' = Greeting
      BY <1>2, <1>3 DEF Established
  <2>2. FramesFollowTheirRoom'
    <3>1. mounted => \A i \in 1 .. Len(wire') : ~OfRoom(wire'[i])
        BY <2>1, GreetingHasNoRoomFrames DEF TravelInv
    <3> QED BY <1>1, <3>1 DEF FramesFollowTheirRoom, OfRoom
  <2>3. ASSUME mounted, room' # NoRoom PROVE LastAsked(Len(wire), room)'
    <3>1. room' = Resumed
        BY <1>3, <2>3 DEF Established
    <3>2. wire' = <<Enter(room')>>
        BY <2>1, <2>3, <3>1 DEF Greeting
    <3>3. Len(wire') = 1 /\ wire'[1] = Enter(room')
        BY <3>2
    <3> QED BY <3>3 DEF LastAsked, Enter
  <2> QED BY <1>1, <2>2, <2>3, QueueEmptied DEF TravelInv, RoomAskedHere, QueueWaits
<1>4. CASE asked # NoRoom
  <2>1. wire' = Greeting \o <<Enter(asked)>> /\ room' = asked
      BY <1>4 DEF Established
  <2>2. /\ Len(Greeting) \in Nat /\ Len(wire') = Len(Greeting) + 1
        /\ wire'[Len(Greeting) + 1] = Enter(asked)
        /\ \A i \in 1 .. Len(Greeting) : wire'[i] = Greeting[i]
    <3>1. Enter(asked) \in Frame
        BY FramesAreFrames DEF TypeOK
    <3> QED BY <1>2, <2>1, <3>1
  <2>3. FramesFollowTheirRoom'
    <3>1. ~OfRoom(Enter(asked))
        BY DEF OfRoom, Enter
    <3>2. mounted => \A i \in 1 .. Len(wire') : ~OfRoom(wire'[i])
        BY <2>2, <3>1, GreetingHasNoRoomFrames DEF TravelInv
    <3> QED BY <1>1, <3>2 DEF FramesFollowTheirRoom, OfRoom
  <2>4. LastAsked(Len(wire), room)'
      BY <2>1, <2>2 DEF LastAsked, Enter
  <2> QED BY <1>1, <2>3, <2>4, QueueEmptied DEF TravelInv, RoomAskedHere, QueueWaits
<1> QED BY <1>3, <1>4

LEMMA InitTravels == Init => TravelInv
<1> SUFFICES ASSUME Init PROVE TravelInv
    OBVIOUS
<1>1. ~Live
    BY DEF Init, Live
<1> QED BY <1>1, NothingWaits
        DEF Init, TravelInv, RoomAskedHere, FramesFollowTheirRoom, QueueWaits, QueueKeepsRoom

LEMMA NextTravels == TypeOK /\ TravelInv /\ [Next]_vars => TravelInv'
<1> SUFFICES ASSUME TypeOK, TravelInv, [Next]_vars PROVE TravelInv'
    OBVIOUS
<1>1. ASSUME NEW r \in RoomIds, AskRoom(r) PROVE TravelInv'
    BY <1>1, AskRoomTravels
<1>2. CASE LeaveRoom
    BY <1>2, LeaveRoomTravels
<1>3. CASE Send
    BY <1>3, SendTravels
<1>4. CASE Disconnect
    BY <1>4, QueueEmptied, TeardownTravels DEF Disconnect
<1>5. CASE Established
    BY <1>5, EstablishedTravels
<1>6. CASE ServerCloses
  <2>1. ~Live'
      BY <1>6 DEF ServerCloses, Live, TypeOK
  <2> QED BY <1>6, <2>1, WireUnchanged, QueueUnchanged, NotLiveStep
          DEF ServerCloses, TravelInv, page
<1>7. CASE Closed
  <2>1. ~Live'
      BY <1>7 DEF Closed, Live, TypeOK
  <2>2. FramesFollowTheirRoom'
      BY <1>7, WireUnchanged, NothingFollows DEF Closed, TravelInv, page
  <2> QED BY <1>7, <2>1, <2>2, QueueUnchanged, NotLiveStep DEF Closed, TravelInv, page
<1>8. CASE Reconnect
    BY <1>8, DialTravels DEF Reconnect
<1>9. ASSUME NEW a \in Attempts, ConnectTimeout(a) PROVE TravelInv'
    BY <1>9, QueueUnchanged, TeardownTravels DEF ConnectTimeout, TravelInv, page
<1>10. CASE RoomClosed
  <2>1. queue' = <<>> /\ room' = NoRoom /\ UNCHANGED <<wire, mounted>>
      BY <1>10 DEF RoomClosed, TravelInv, QueueWaits
  <2> QED BY <2>1, WireUnchanged, QueueEmptied
          DEF TravelInv, RoomAskedHere, QueueWaits
<1>11. CASE UNCHANGED vars
  <2>1. UNCHANGED <<ws, sock, queue, wire, room, mounted>>
      BY <1>11 DEF vars, client, page
  <2> QED BY <2>1, WireUnchanged, QueueUnchanged
          DEF TravelInv, RoomAskedHere, QueueWaits, Live, LastAsked
<1>12. ASSUME NEW r \in captured, SendLate(r) PROVE TravelInv'
    BY <1>12, SendLateTravels
<1>13. CASE Capture
  <2>1. UNCHANGED <<ws, sock, queue, wire, room, mounted>>
      BY <1>13 DEF Capture, client, page
  <2> QED BY <2>1, WireUnchanged, QueueUnchanged
          DEF TravelInv, RoomAskedHere, QueueWaits, Live, LastAsked
<1> QED BY <1>1, <1>2, <1>3, <1>4, <1>5, <1>6, <1>7, <1>8, <1>9, <1>10, <1>11, <1>12, <1>13
        DEF Next

(* The page's room is always the last one asked for on the connection it    *)
(* has.                                                                     *)
THEOREM RoomAlwaysAskedHere == Spec => []RoomAskedHere
<1>1. TravelInv => RoomAskedHere
    BY DEF TravelInv
<1> QED BY <1>1, InitTravels, NextTravels, ClientTypeCorrect, PTL DEF Spec

(* The frames called for on the spot in a room travel nowhere else,         *)
(* whatever late frames of other rooms travel among them.                   *)
THEOREM FramesAlwaysFollow == Spec => []FramesFollowTheirRoom
<1>1. TravelInv => FramesFollowTheirRoom
    BY DEF TravelInv
<1> QED BY <1>1, InitTravels, NextTravels, ClientTypeCorrect, PTL DEF Spec
=============================================================================
