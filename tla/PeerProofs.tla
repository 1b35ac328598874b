----------------------------- MODULE PeerProofs -----------------------------
(***************************************************************************)
(* The peer sessions for any number of pages, tokens, moves and exits, and *)
(* whichever keys are bad.  ReadyUsable holds because a page without a     *)
(* socket has nothing on its way and is in no list; beside that,           *)
(* ReadyPresent needs to know that a page asks for the room before         *)
(* anything else on its socket, and that whoever goes while its key is on  *)
(* its way to a page has its leaving on the way behind it.  Agreement      *)
(* needs to know, of every two pages in the room, that one that is not     *)
(* ready for the other still has an answer to get or to give, unless the   *)
(* other was overtaken by the close of its old socket.                     *)
(***************************************************************************)
EXTENDS PeerSession, SequenceTheorems, TLAPS

Sessions == [Peers -> {NoSession} \cup Session]

PageTypes ==
    /\ online \in [Peers -> BOOLEAN]
    /\ lost \in SUBSET Peers
    /\ active \in [Peers -> BOOLEAN]
    /\ held \in [Peers -> Tokens \cup {NoToken}]
    /\ stored \in [Peers -> Tokens \cup {NoToken}]
    /\ shown \in [Peers -> SUBSET Peers]

PinTypes ==
    /\ expected \in [Peers -> Peers \cup {Nobody}]
    /\ pinned \in [Peers -> Peers \cup {Nobody}]

KeyTypes ==
    /\ sess \in [Peers -> Sessions]
    /\ secrets \in [Peers -> SUBSET Peers]

UpTypes == up \in [Peers -> Seq(UpFrame)]

DownTypes == down \in [Peers -> Seq(DownFrame)]

LinkTypes == links \in [Tokens -> Peers \cup {Nobody}]

RelayTypes ==
    /\ exists \in BOOLEAN
    /\ bound \in [Tokens -> Peers \cup {Unused, NoToken}]
    /\ members \in SUBSET Peers
    /\ stray \in SUBSET Peers
    /\ ghosts \in [Peers -> Nat]
    /\ overtaken \in SUBSET members

Bounded == moves \in 0 .. MaxMoves /\ exits \in 0 .. MaxExits

Types ==
    PageTypes /\ PinTypes /\ KeyTypes /\ UpTypes /\ DownTypes /\ LinkTypes /\ RelayTypes /\ Bounded

LEMMA TypesAreTypes == Types <=> TypeOK
BY DEF Types, PageTypes, PinTypes, KeyTypes, UpTypes, DownTypes, LinkTypes, RelayTypes, Bounded,
       TypeOK, Sessions

(* The sessions of a page stay sessions.                                    *)
LEMMA SessionsTyped ==
    ASSUME NEW s \in Sessions, NEW q \in Peers
    PROVE  /\ AllTo(s, "ROOM_JOINED") \in Sessions
           /\ AllTo(s, "DISCONNECTED") \in Sessions
           /\ PeerJoined(s, q) \in Sessions
           /\ PeerLeft(s, q) \in Sessions
           /\ KeyReceived(s, q) \in Sessions
           /\ NoSessions \in Sessions
BY DEF Sessions, Session, AllTo, PeerJoined, PeerLeft, KeyReceived, NoSessions

(* What a session is not: READY when it starts again.                       *)
LEMMA NotReady ==
    ASSUME NEW s \in Sessions, NEW q \in Peers
    PROVE  /\ AllTo(s, "ROOM_JOINED")[q].state # "READY"
           /\ AllTo(s, "DISCONNECTED")[q].state # "READY"
           /\ NoSessions[q].state # "READY"
           /\ PeerJoined(s, q)[q].state # "READY"
           /\ PeerLeft(s, q)[q].state # "READY"
BY DEF AllTo, NoSessions, PeerJoined, PeerLeft, NoSession, Fresh, Sessions

(* A page that asks for the room, or leaves it, has yet to send its keys.   *)
LEMMA NotSent ==
    ASSUME NEW s \in Sessions, NEW q \in Peers
    PROVE  /\ AllTo(s, "ROOM_JOINED")[q].state \notin {"KEY_SENT", "READY"}
           /\ NoSessions[q].state \notin {"KEY_SENT", "READY"}
BY DEF AllTo, NoSessions, NoSession, Fresh, Sessions

LEMMA SendTyped ==
    ASSUME UpTypes, NEW p \in Peers, NEW f \in UpFrame, Send(p, f)
    PROVE  /\ UpTypes'
           /\ up'[p] = Append(up[p], f)
           /\ \A q \in Peers \ {p} : up'[q] = up[q]
BY AppendProperties DEF UpTypes, Send

LEMMA SendKeyTyped ==
    ASSUME UpTypes, NEW p \in Peers, SendKey(p)
    PROVE  /\ UpTypes'
           /\ up'[p] = up[p] \/ up'[p] = Append(up[p], Ask("key", NoToken))
           /\ \A q \in Peers \ {p} : up'[q] = up[q]
<1>1. Ask("key", NoToken) \in UpFrame
    BY DEF Ask, UpFrame
<1> QED BY <1>1, SendTyped DEF SendKey, UpTypes

LEMMA BroadcastTyped ==
    ASSUME DownTypes, NEW p \in Peers, NEW kind \in {"joined", "left", "key"}, NEW to,
           Broadcast(kind, p, to)
    PROVE  /\ DownTypes'
           /\ \A q \in Peers \cap to : down'[q] = Append(down[q], Notice(kind, p))
           /\ \A q \in Peers \ to : down'[q] = down[q]
<1>1. Notice(kind, p) \in DownFrame
    BY DEF Notice, DownFrame
<1>2. \A q \in Peers : Append(down[q], Notice(kind, p)) \in Seq(DownFrame)
    BY <1>1, AppendProperties DEF DownTypes
<1> QED BY <1>2 DEF DownTypes, Broadcast

LEMMA ArrivesTyped ==
    ASSUME DownTypes, NEW p \in Peers, Arrives(p)
    PROVE  /\ DownTypes'
           /\ Head(down[p]) \in DownFrame
           /\ down'[p] = Tail(down[p])
           /\ \A q \in Peers \ {p} : down'[q] = down[q]
BY HeadTailProperties DEF DownTypes, Arrives

LEMMA TailTyped ==
    ASSUME UpTypes, NEW p \in Peers, up[p] # <<>>, up' = [up EXCEPT ![p] = Tail(@)]
    PROVE  /\ UpTypes'
           /\ Head(up[p]) \in UpFrame
           /\ up'[p] = Tail(up[p])
           /\ \A q \in Peers \ {p} : up'[q] = up[q]
BY HeadTailProperties DEF UpTypes

LEMMA UnpluggedTyped ==
    ASSUME PageTypes, UpTypes, DownTypes, NEW ps, Unplugged(ps)
    PROVE  /\ online' \in [Peers -> BOOLEAN] /\ UpTypes' /\ DownTypes'
           /\ \A p \in Peers \cap ps : ~online'[p] /\ up'[p] = <<>> /\ down'[p] = <<>>
           /\ \A p \in Peers \ ps :
                online'[p] = online[p] /\ up'[p] = up[p] /\ down'[p] = down[p]
<1>1. <<>> \in Seq(UpFrame) /\ <<>> \in Seq(DownFrame)
    BY EmptySeq
<1> QED BY <1>1 DEF Unplugged, PageTypes, UpTypes, DownTypes

LEMMA TwoMore ==
    ASSUME NEW S, NEW x \in S, NEW y \in S, NEW s \in Seq(S)
    PROVE  s \o <<x, y>> \in Seq(S)
<1>1. <<x, y>> \in Seq(S)
    OBVIOUS
<1> QED BY <1>1, ConcatProperties

LEMMA StaysBounded ==
    ASSUME Bounded, Move \/ Exit \/ UNCHANGED bounds
    PROVE  Bounded'
BY PeerConstants DEF Bounded, Move, Exit, bounds

(* The page's socket is gone, and the relay has an old one of it.           *)
Departs(p) == Drop(p) \/ Teardown(p) \/ Reload(p) \/ ReceiveBye(p)

LEMMA DepartsUnplugged ==
    ASSUME NEW p \in Peers, Departs(p)
    PROVE  Unplugged({p}) /\ Abandoned(p)
BY DEF Departs, Drop, Teardown, Reload, ReceiveBye
-----------------------------------------------------------------------------
(* The types.                                                               *)

LEMMA InitTypes == Init => Types
<1> SUFFICES ASSUME Init PROVE Types
    OBVIOUS
<1>1. <<>> \in Seq(UpFrame) /\ <<>> \in Seq(DownFrame)
    BY EmptySeq
<1>2. UpTypes /\ DownTypes
    BY <1>1 DEF Init, UpTypes, DownTypes
<1>3. KeyTypes
    BY DEF Init, KeyTypes, NoSessions, Sessions
<1>4. PageTypes /\ PinTypes /\ Bounded
    BY PeerConstants DEF Init, PageTypes, PinTypes, Bounded
<1>5. LinkTypes /\ RelayTypes
    BY DEF Init, LinkTypes, RelayTypes
<1> QED BY <1>2, <1>3, <1>4, <1>5 DEF Types

LEMMA EnterTypes ==
    ASSUME Types, NEW p \in Peers, NEW kind \in {"create", "join"}, NEW t \in Tokens,
           Enter(p, kind, t), PinTypes', LinkTypes'
    PROVE  Types'
<1> USE DEF Types, Enter
<1>1. Ask(kind, t) \in UpFrame
    BY DEF Ask, UpFrame
<1>2. UpTypes'
    BY <1>1, SendTyped
<1>3. Bounded'
    BY StaysBounded
<1>4. PageTypes'
    BY DEF PageTypes
<1>5. AllTo(sess[p], "ROOM_JOINED") \in Sessions
    BY SessionsTyped DEF KeyTypes
<1>6. KeyTypes'
    BY <1>5 DEF KeyTypes
<1>7. DownTypes' /\ RelayTypes'
    BY DEF DownTypes, RelayTypes, relay
<1> QED BY <1>2, <1>3, <1>4, <1>6, <1>7

LEMMA ResetTypes ==
    ASSUME PageTypes, PinTypes, KeyTypes, NEW p \in Peers, ResetRoomLocal(p),
           UNCHANGED <<online, lost>>
    PROVE  PageTypes' /\ PinTypes' /\ KeyTypes'
<1>1. KeyTypes'
    BY SessionsTyped DEF KeyTypes, ResetRoomLocal
<1>2. PageTypes' /\ PinTypes'
    BY DEF PageTypes, PinTypes, ResetRoomLocal
<1> QED BY <1>1, <1>2

LEMMA UserTypes ==
    ASSUME Types, NEW p \in Peers,
           CreateRoom(p) \/ JoinRoom(p) \/ Redial(p) \/ Invite(p) \/ LeaveRoom(p)
    PROVE  Types'
<1>1. CASE CreateRoom(p)
  <2>1. PICK t \in Tokens : links' = [links EXCEPT ![t] = p] /\ Enter(p, "create", t)
      BY <1>1 DEF CreateRoom
  <2>2. PinTypes' /\ LinkTypes'
      BY <1>1, <2>1 DEF CreateRoom, Types, PinTypes, LinkTypes
  <2> QED BY <2>1, <2>2, EnterTypes
<1>2. CASE JoinRoom(p)
  <2>1. PICK t \in Invites(p) : /\ Enter(p, "join", t)
                                /\ expected' = [expected EXCEPT ![p] = links[t]]
                                /\ pinned' = [pinned EXCEPT ![p] = expected[p]]
                                /\ UNCHANGED links
      BY <1>2 DEF JoinRoom
  <2>2. t \in Tokens /\ links[t] \in Peers \cup {Nobody}
      BY DEF Invites, Types, LinkTypes
  <2>3. PinTypes' /\ LinkTypes'
      BY <2>1, <2>2 DEF Types, PinTypes, LinkTypes
  <2> QED BY <2>1, <2>2, <2>3, EnterTypes
<1>3. CASE Redial(p)
  <2>1. Bounded'
      BY <1>3, StaysBounded DEF Redial, Types
  <2>2. PICK q \in {expected[p]} \cup {links[t] : t \in Invites(p)} :
            expected' = [expected EXCEPT ![p] = q]
      BY <1>3 DEF Redial
  <2>3. q \in Peers \cup {Nobody}
      BY DEF Types, PinTypes, LinkTypes, Invites
  <2>4. PageTypes' /\ PinTypes'
      BY <1>3, <2>2, <2>3 DEF Redial, Types, PageTypes, PinTypes
  <2> QED BY <1>3, <2>1, <2>4
          DEF Redial, Types, KeyTypes, UpTypes, DownTypes, LinkTypes, RelayTypes, keys, relay
<1>4. CASE Invite(p)
  <2>1. PICK t \in Tokens :
            /\ links' = [links EXCEPT ![t] = p]
            /\ held' = [held EXCEPT ![p] = t]
            /\ IF online[p] THEN Send(p, Ask("invite", t)) ELSE UNCHANGED up
      BY <1>4 DEF Invite
  <2>2. Ask("invite", t) \in UpFrame
      BY DEF Ask, UpFrame
  <2>3. UpTypes'
      BY <2>1, <2>2, SendTyped DEF Types, UpTypes
  <2>4. Bounded'
      BY <1>4, StaysBounded DEF Types, Invite
  <2>5. PageTypes' /\ PinTypes' /\ LinkTypes' /\ RelayTypes'
      BY <1>4, <2>1 DEF Types, PageTypes, PinTypes, LinkTypes, RelayTypes, Invite, relay
  <2>6. KeyTypes' /\ DownTypes'
      BY <1>4 DEF Types, KeyTypes, DownTypes, Invite, keys
  <2> QED BY <2>3, <2>4, <2>5, <2>6 DEF Types
<1>5. CASE LeaveRoom(p)
  <2>1. Ask("leave", NoToken) \in UpFrame
      BY DEF Ask, UpFrame
  <2>2. UpTypes'
      BY <1>5, <2>1, SendTyped DEF Types, LeaveRoom, UpTypes
  <2>3. Bounded'
      BY <1>5, StaysBounded DEF Types, LeaveRoom
  <2>4. PageTypes' /\ PinTypes' /\ KeyTypes'
      BY <1>5, ResetTypes DEF Types, LeaveRoom
  <2>5. DownTypes' /\ LinkTypes' /\ RelayTypes'
      BY <1>5 DEF Types, DownTypes, LinkTypes, RelayTypes, LeaveRoom, relay
  <2> QED BY <2>2, <2>3, <2>4, <2>5 DEF Types
<1> QED BY <1>1, <1>2, <1>3, <1>4, <1>5

LEMMA OpenTypes ==
    ASSUME Types, NEW p \in Peers, Open(p)
    PROVE  Types'
<1>1. Ask("create", held[p]) \in UpFrame
    BY DEF Types, PageTypes, Ask, UpFrame
<1>2. AllTo(sess[p], "ROOM_JOINED") \in Sessions
    BY SessionsTyped DEF Types, KeyTypes
<1>3. UpTypes'
    BY <1>1, SendTyped DEF Open, Types, UpTypes
<1>4. KeyTypes'
    BY <1>2 DEF Open, Types, KeyTypes
<1>5. PageTypes' /\ PinTypes' /\ DownTypes' /\ LinkTypes' /\ RelayTypes'
    BY DEF Open, Types, PageTypes, PinTypes, DownTypes, LinkTypes, RelayTypes, relay
<1>6. Bounded'
    BY StaysBounded DEF Open, Types
<1> QED BY <1>3, <1>4, <1>5, <1>6 DEF Types

LEMMA AbandonedTyped ==
    ASSUME RelayTypes, NEW p \in Peers, Abandoned(p)
    PROVE  RelayTypes'
<1>1. ghosts[p] \in Nat
    BY DEF RelayTypes
<1>2. ghosts' \in [Peers -> Nat]
    BY <1>1 DEF RelayTypes, Abandoned
<1> QED BY <1>2 DEF RelayTypes, Abandoned

LEMMA DepartTypes ==
    ASSUME Types, NEW p \in Peers, Departs(p)
    PROVE  Types'
<1> USE DEF Departs, Drop, Teardown, Reload, ReceiveBye
<1>1. online' \in [Peers -> BOOLEAN] /\ UpTypes' /\ DownTypes'
    BY UnpluggedTyped DEF Types
<1>2. Bounded'
    BY StaysBounded DEF Types
<1>3. AllTo(sess[p], "DISCONNECTED") \in Sessions /\ NoSessions \in Sessions
    BY SessionsTyped DEF Types, KeyTypes
<1>4. PageTypes' /\ PinTypes'
    BY <1>1 DEF Types, PageTypes, PinTypes
<1>5. KeyTypes'
    BY <1>3 DEF Types, KeyTypes, CloseStatus, keys
<1>6. LinkTypes' /\ RelayTypes'
    BY AbandonedTyped DEF Types, LinkTypes
<1> QED BY <1>1, <1>2, <1>4, <1>5, <1>6 DEF Types

LEMMA ReceiveTypes ==
    ASSUME Types, NEW p \in Peers, Receive(p)
    PROVE  Types'
<1> DEFINE frame == Head(down[p])
<1> DEFINE q == frame.about
<1>1. DownTypes' /\ q \in Peers
    BY ArrivesTyped DEF Receive, Types, DownFrame
<1>2. LinkTypes' /\ RelayTypes' /\ online' = online /\ lost' = lost
    BY DEF Receive, Types, LinkTypes, RelayTypes, relay
<1>3. sess[p] \in Sessions
    BY DEF Types, KeyTypes
<1>4. ASSUME ReceiveJoined(p, q) PROVE UpTypes' /\ KeyTypes' /\ shown' \in [Peers -> SUBSET Peers]
  <2>1. UpTypes'
      BY <1>4, SendKeyTyped DEF ReceiveJoined, Types
  <2> QED BY <1>1, <1>3, <1>4, <2>1, SessionsTyped DEF ReceiveJoined, Types, KeyTypes, PageTypes
<1>5. ASSUME ReceiveLeft(p, q) PROVE UpTypes' /\ KeyTypes' /\ shown' \in [Peers -> SUBSET Peers]
    BY <1>1, <1>3, <1>5, SessionsTyped DEF ReceiveLeft, Types, UpTypes, KeyTypes, PageTypes
<1>6. ASSUME ReceiveKey(p, q) PROVE UpTypes' /\ KeyTypes' /\ shown' \in [Peers -> SUBSET Peers]
  <2>1. UpTypes'
      BY <1>6, SendKeyTyped DEF ReceiveKey, Types, UpTypes
  <2> QED BY <1>1, <1>3, <1>6, <2>1, SessionsTyped
          DEF ReceiveKey, Derive, Types, KeyTypes, PageTypes
<1>7. ASSUME IgnoreKey(p, q) PROVE UpTypes' /\ KeyTypes' /\ shown' \in [Peers -> SUBSET Peers]
    BY <1>7 DEF IgnoreKey, Types, UpTypes, KeyTypes, PageTypes, keys
<1>8. Bounded'
    BY StaysBounded DEF Receive, Types
<1>9. CASE ResetRoomLocal(p) /\ UNCHANGED up
  <2>1. PageTypes' /\ PinTypes' /\ KeyTypes'
      BY <1>2, <1>9, ResetTypes DEF Types
  <2> QED BY <1>1, <1>2, <1>8, <1>9, <2>1 DEF Types, UpTypes
<1>10. CASE /\ ReceiveJoined(p, q) \/ ReceiveLeft(p, q) \/ ReceiveKey(p, q) \/ IgnoreKey(p, q)
            /\ UNCHANGED <<active, held, stored, expected, pinned>>
    BY <1>1, <1>2, <1>4, <1>5, <1>6, <1>7, <1>8, <1>10 DEF Types, PageTypes, PinTypes
<1> QED BY <1>9, <1>10 DEF Receive

LEMMA AdmitTyped ==
    ASSUME Types, NEW p \in Peers, Admit(p)
    PROVE  DownTypes' /\ members' \in SUBSET Peers /\ overtaken' \in SUBSET members'
BY BroadcastTyped DEF Types, RelayTypes, Admit

LEMMA ServeTypes ==
    ASSUME Types, NEW p \in Peers, Serve(p)
    PROVE  Types'
<1> DEFINE frame == Head(up[p])
<1>1. UpTypes' /\ frame \in UpFrame
    BY TailTyped DEF Serve, Types
<1>2. Bounded'
    BY StaysBounded DEF Serve, Types
<1>3. PageTypes' /\ PinTypes' /\ KeyTypes' /\ LinkTypes'
    BY DEF Serve, Types, PageTypes, PinTypes, KeyTypes, LinkTypes, page, keys
<1> DEFINE t == frame.token
<1>4. CASE ServeFirst(p, t)
    BY <1>1, <1>2, <1>3, <1>4 DEF ServeFirst, Types, RelayTypes, DownTypes
<1>5. CASE ServeRejoin(p, t)
    BY <1>1, <1>2, <1>3, <1>5, AdmitTyped DEF ServeRejoin, Types, RelayTypes
<1>6. CASE ServeJoin(p, t)
    BY <1>1, <1>2, <1>3, <1>6, AdmitTyped DEF ServeJoin, Types, RelayTypes
<1>7. CASE ServeLeave(p)
    BY <1>1, <1>2, <1>3, <1>7, BroadcastTyped DEF ServeLeave, Types, RelayTypes
<1>8. CASE ServeKey(p)
    BY <1>1, <1>2, <1>3, <1>8, BroadcastTyped DEF ServeKey, Types, RelayTypes, relay
<1>9. CASE ServeInvite(p, t)
    BY <1>1, <1>2, <1>3, <1>9 DEF ServeInvite, Types, RelayTypes, DownTypes
<1>10. CASE UNCHANGED <<down, relay>>
    BY <1>1, <1>2, <1>3, <1>10 DEF Types, RelayTypes, DownTypes, relay
<1> QED BY <1>4, <1>5, <1>6, <1>7, <1>8, <1>9, <1>10 DEF Serve

LEMMA RelayStepTypes ==
    ASSUME Types, Expire \/ Restart \/ \E p \in Peers : ServeClose(p)
    PROVE  Types'
<1>1. CASE Expire
  <2>2. \A p \in Peers : down[p] \o <<Notice("closed", p), Notice("bye", p)>> \in Seq(DownFrame)
    <3>1. \A p \in Peers : Notice("closed", p) \in DownFrame /\ Notice("bye", p) \in DownFrame
        BY DEF Notice, DownFrame
    <3> QED BY <3>1, TwoMore DEF Types, DownTypes
  <2>3. DownTypes'
      BY <1>1, <2>2 DEF Expire, Types, DownTypes
  <2>4. Bounded'
      BY <1>1, StaysBounded DEF Types, Expire
  <2>5. PageTypes' /\ PinTypes' /\ KeyTypes' /\ UpTypes' /\ LinkTypes' /\ RelayTypes'
      BY <1>1 DEF Expire, Types, PageTypes, PinTypes, KeyTypes, UpTypes, LinkTypes, RelayTypes,
                  page, keys
  <2> QED BY <2>3, <2>4, <2>5 DEF Types
<1>2. CASE Restart
  <2>1. online' \in [Peers -> BOOLEAN] /\ UpTypes' /\ DownTypes'
      BY <1>2, UnpluggedTyped DEF Restart, Types
  <2>2. Bounded'
      BY <1>2, StaysBounded DEF Types, Restart
  <2>3. \A p \in Peers : AllTo(sess[p], "DISCONNECTED") \in Sessions
      BY SessionsTyped DEF Types, KeyTypes
  <2>4. KeyTypes'
      BY <1>2, <2>3 DEF Types, KeyTypes, Restart
  <2>5. PageTypes' /\ PinTypes' /\ LinkTypes' /\ RelayTypes'
      BY <1>2, <2>1 DEF Restart, Types, PageTypes, PinTypes, LinkTypes, RelayTypes
  <2> QED BY <2>1, <2>2, <2>4, <2>5 DEF Types
<1>3. ASSUME NEW p \in Peers, ServeClose(p) PROVE Types'
  <2>1. DownTypes'
      BY <1>3, BroadcastTyped DEF ServeClose, Types
  <2>2. ghosts' \in [Peers -> Nat]
    <3>1. ghosts[p] - 1 \in Nat
        BY <1>3 DEF ServeClose, Types, RelayTypes
    <3> QED BY <1>3, <3>1 DEF ServeClose, Types, RelayTypes
  <2>3. RelayTypes'
      BY <1>3, <2>2 DEF ServeClose, Types, RelayTypes
  <2>4. Bounded'
      BY <1>3, StaysBounded DEF ServeClose, Types
  <2> QED BY <1>3, <2>1, <2>3, <2>4
          DEF ServeClose, Types, PageTypes, PinTypes, KeyTypes, UpTypes, LinkTypes, page, keys
<1> QED BY <1>1, <1>2, <1>3

LEMMA NextTypes == Types /\ [Next]_vars => Types'
<1>1. CASE UNCHANGED vars
    BY <1>1 DEF vars, page, keys, relay, bounds, Types, PageTypes, PinTypes, KeyTypes, UpTypes,
                DownTypes, LinkTypes, RelayTypes, Bounded
<1> QED BY <1>1, UserTypes, OpenTypes, DepartTypes, ReceiveTypes, ServeTypes, RelayStepTypes
        DEF Next, Departs

(* The state of the pages, the frames between them and the relay, and the   *)
(* relay's room keep their types.                                           *)
THEOREM PeersTypeCorrect == Spec => []TypeOK
BY InitTypes, NextTypes, TypesAreTypes, PTL DEF Spec
-----------------------------------------------------------------------------
(* A page without a socket.                                                 *)

Offline ==
    \A p \in Peers : ~online[p] => up[p] = <<>> /\ down[p] = <<>> /\ ~Inside(p)

LEMMA InitOffline == Init => Offline
BY DEF Init, Offline

(* What a page does that has a socket, and what the relay does for others.  *)
LEMMA OnlineStep ==
    ASSUME Offline, NEW p \in Peers, online[p], online' = online,
           \A q \in Peers \ {p} : up'[q] = up[q],
           \A q \in Peers \ {p} : q \notin members => down'[q] = down[q],
           members' \ {p} \subseteq members, stray' \subseteq stray
    PROVE  Offline'
BY DEF Offline, Inside

LEMMA UserOffline ==
    ASSUME Types, Offline, NEW p \in Peers,
           CreateRoom(p) \/ JoinRoom(p) \/ Redial(p) \/ Invite(p) \/ LeaveRoom(p)
    PROVE  Offline'
<1>1. ASSUME NEW kind \in {"create", "join"}, NEW t \in Tokens, Enter(p, kind, t)
      PROVE  Offline'
  <2>1. Ask(kind, t) \in UpFrame
      BY DEF Ask, UpFrame
  <2>2. \A q \in Peers \ {p} : up'[q] = up[q]
      BY <1>1, <2>1, SendTyped DEF Enter, Types
  <2> QED BY <1>1, <2>2, OnlineStep DEF Enter, relay
<1>2. CASE Invite(p) /\ online[p]
  <2>1. PICK t \in Tokens : Send(p, Ask("invite", t))
      BY <1>2 DEF Invite
  <2>2. Ask("invite", t) \in UpFrame
      BY DEF Ask, UpFrame
  <2>3. \A q \in Peers \ {p} : up'[q] = up[q]
      BY <2>1, <2>2, SendTyped DEF Types
  <2> QED BY <1>2, <2>3, OnlineStep DEF Invite, relay
<1>3. CASE LeaveRoom(p) /\ online[p]
  <2>1. Ask("leave", NoToken) \in UpFrame
      BY DEF Ask, UpFrame
  <2>2. \A q \in Peers \ {p} : up'[q] = up[q]
      BY <1>3, <2>1, SendTyped DEF Types, LeaveRoom
  <2> QED BY <1>3, <2>2, OnlineStep DEF LeaveRoom, relay
<1>4. CASE UNCHANGED <<online, up, down, relay>>
    BY <1>4 DEF Offline, Inside, relay
<1>5. CASE CreateRoom(p)
    BY <1>1, <1>5 DEF CreateRoom
<1>6. CASE JoinRoom(p)
    BY <1>1, <1>6 DEF JoinRoom, Invites
<1> QED BY <1>2, <1>3, <1>4, <1>5, <1>6 DEF Redial, Invite, LeaveRoom

LEMMA OpenOffline ==
    ASSUME Types, Offline, NEW p \in Peers, Open(p)
    PROVE  Offline'
<1>1. /\ \A q \in Peers \ {p} : online'[q] = online[q]
      /\ online'[p]
      /\ down' = down /\ members' = members /\ stray' = stray
    BY DEF Open, relay, Types, PageTypes
<1>2. \A q \in Peers \ {p} : up'[q] = up[q]
  <2>1. Ask("create", held[p]) \in UpFrame
      BY DEF Types, PageTypes, Ask, UpFrame
  <2> QED BY <2>1, SendTyped DEF Open, Types
<1> QED BY <1>1, <1>2 DEF Offline, Inside

(* What is left of a page whose socket is gone.                             *)
LEMMA DepartsGone ==
    ASSUME Types, NEW p \in Peers, Departs(p)
    PROVE  /\ ~online'[p] /\ up'[p] = <<>> /\ down'[p] = <<>>
           /\ \A q \in Peers \ {p} :
                online'[q] = online[q] /\ up'[q] = up[q] /\ down'[q] = down[q]
           /\ members' = members \ {p} /\ stray' = stray \ {p} /\ overtaken' = overtaken \ {p}
<1>1. Unplugged({p}) /\ Abandoned(p)
    BY DepartsUnplugged
<1> QED BY <1>1, UnpluggedTyped DEF Types, Abandoned

LEMMA DepartOffline ==
    ASSUME Types, Offline, NEW p \in Peers, Departs(p)
    PROVE  Offline'
BY DepartsGone DEF Offline, Inside

LEMMA ReceiveOffline ==
    ASSUME Types, Offline, NEW p \in Peers, Receive(p)
    PROVE  Offline'
<1>1. online[p]
    BY DEF Receive, Arrives, Offline
<1>2. \A q \in Peers \ {p} : down'[q] = down[q]
    BY ArrivesTyped DEF Receive, Types
<1>3. \A q \in Peers \ {p} : up'[q] = up[q]
  <2>1. up' = up \/ SendKey(p)
      BY DEF Receive, ReceiveJoined, ReceiveLeft, ReceiveKey, IgnoreKey
  <2> QED BY <2>1, SendKeyTyped DEF Types
<1> QED BY <1>1, <1>2, <1>3, OnlineStep DEF Receive, relay

(* What the relay puts on the way when it handles a frame, and to whom.     *)
LEMMA ServeDelivers ==
    ASSUME Types, NEW p \in Peers, Serve(p)
    PROVE  /\ members' \ {p} \subseteq members
           /\ stray' \subseteq stray
           /\ \A q \in Peers : q \notin members \ {p} => down'[q] = down[q]
<1> DEFINE t == Head(up[p]).token
<1>1. CASE ServeFirst(p, t)
    BY <1>1 DEF ServeFirst
<1>2. CASE Admit(p) /\ stray' = stray
    BY <1>2, BroadcastTyped DEF Admit, Types
<1>3. CASE ServeLeave(p)
    BY <1>3, BroadcastTyped DEF ServeLeave, Types
<1>4. CASE ServeKey(p)
    BY <1>4, BroadcastTyped DEF ServeKey, Types, relay
<1>5. CASE UNCHANGED <<members, stray, down>>
    BY <1>5
<1> QED BY <1>1, <1>2, <1>3, <1>4, <1>5 DEF Serve, ServeRejoin, ServeJoin, ServeInvite, relay

LEMMA ServeOffline ==
    ASSUME Types, Offline, NEW p \in Peers, Serve(p)
    PROVE  Offline'
<1>1. online[p] /\ online' = online
    BY DEF Serve, Offline, page
<1>2. \A q \in Peers \ {p} : up'[q] = up[q]
    BY TailTyped DEF Serve, Types
<1> QED BY <1>1, <1>2, ServeDelivers, OnlineStep

LEMMA RelayStepOffline ==
    ASSUME Types, Offline, Expire \/ Restart \/ \E p \in Peers : ServeClose(p)
    PROVE  Offline'
<1>1. CASE Expire
    BY <1>1 DEF Expire, Offline, Inside, page, Types, DownTypes
<1>2. CASE Restart
    BY <1>2, UnpluggedTyped DEF Restart, Offline, Inside, Types
<1>3. ASSUME NEW p \in Peers, ServeClose(p) PROVE Offline'
  <2>1. \A q \in Peers \ members : down'[q] = down[q]
      BY <1>3, BroadcastTyped DEF ServeClose, Types
  <2> QED BY <1>3, <2>1 DEF ServeClose, Offline, Inside, page
<1> QED BY <1>1, <1>2, <1>3

LEMMA NextOffline == Types /\ Offline /\ [Next]_vars => Offline'
<1>1. CASE UNCHANGED vars
    BY <1>1 DEF vars, page, relay, Offline, Inside
<1> QED BY <1>1, UserOffline, OpenOffline, DepartOffline, ReceiveOffline, ServeOffline,
           RelayStepOffline DEF Next, Departs
-----------------------------------------------------------------------------
(* Whoever is ready can be sent to.                                         *)

Usable(p, q) ==
    /\ q \in shown[p]
    /\ q \in secrets[p] \cup BadKeys
    /\ active[p] => online[p] \/ p \in lost

LEMMA InitUsable == Init => ReadyUsable
BY DEF Init, ReadyUsable, IsReady, NoSessions, NoSession, Fresh

(* Nothing but the sessions of a page, its socket and what it keeps of its  *)
(* peers and its room matters.                                              *)
LEMMA UsableElsewhere ==
    ASSUME ReadyUsable, NEW p \in Peers,
           \A q \in Peers \ {p} : /\ sess'[q] = sess[q] /\ online'[q] = online[q]
                                 /\ shown'[q] = shown[q] /\ secrets'[q] = secrets[q]
                                 /\ active'[q] = active[q] /\ (q \in lost => q \in lost'),
           \A q \in Peers : IsReady(p, q)' => Usable(p, q)'
    PROVE  ReadyUsable'
BY DEF ReadyUsable, IsReady, Usable

LEMMA UserUsable ==
    ASSUME Types, ReadyUsable, NEW p \in Peers,
           CreateRoom(p) \/ JoinRoom(p) \/ Redial(p) \/ Invite(p) \/ LeaveRoom(p)
    PROVE  ReadyUsable'
<1>1. ASSUME NEW kind, NEW t, Enter(p, kind, t) PROVE ReadyUsable'
  <2>1. \A q \in Peers : ~IsReady(p, q)'
      BY <1>1, NotReady DEF Enter, Types, KeyTypes, IsReady
  <2>2. \A q \in Peers \ {p} : sess'[q] = sess[q] /\ shown'[q] = shown[q] /\ active'[q] = active[q]
      BY <1>1 DEF Enter, Types, KeyTypes, PageTypes
  <2> QED BY <1>1, <2>1, <2>2, UsableElsewhere DEF Enter
<1>2. CASE Invite(p)
    BY <1>2 DEF Invite, ReadyUsable, IsReady, keys
<1>3. CASE LeaveRoom(p)
  <2>1. \A q \in Peers : ~IsReady(p, q)'
      BY <1>3, NotReady DEF LeaveRoom, ResetRoomLocal, Types, KeyTypes, IsReady
  <2>2. \A q \in Peers \ {p} : sess'[q] = sess[q] /\ shown'[q] = shown[q] /\ active'[q] = active[q]
      BY <1>3 DEF LeaveRoom, ResetRoomLocal, Types, KeyTypes, PageTypes
  <2> QED BY <1>3, <2>1, <2>2, UsableElsewhere DEF LeaveRoom, ResetRoomLocal
<1>4. CASE Redial(p)
  <2>1. \A q \in Peers \ {p} : q \in lost => q \in lost'
      BY <1>4 DEF Redial
  <2>2. \A q \in Peers : IsReady(p, q)' => Usable(p, q)'
      BY <1>4 DEF Redial, keys, IsReady, Usable, ReadyUsable
  <2> QED BY <1>4, <2>1, <2>2, UsableElsewhere DEF Redial, keys
<1> QED BY <1>1, <1>2, <1>3, <1>4 DEF CreateRoom, JoinRoom

LEMMA OpenUsable ==
    ASSUME Types, ReadyUsable, NEW p \in Peers, Open(p)
    PROVE  ReadyUsable'
<1>1. \A q \in Peers : IsReady(p, q)' => sess'[p] = sess[p]
    BY NotReady DEF Open, Types, KeyTypes, IsReady
<1>2. online'[p]
    BY DEF Open, Types, PageTypes
<1>3. \A q \in Peers : IsReady(p, q)' => Usable(p, q)'
    BY <1>1, <1>2 DEF Open, ReadyUsable, Usable, IsReady
<1>4. \A q \in Peers \ {p} : sess'[q] = sess[q] /\ online'[q] = online[q]
    BY DEF Open, Types, KeyTypes, PageTypes
<1> QED BY <1>3, <1>4, UsableElsewhere DEF Open

LEMMA DepartUsable ==
    ASSUME Types, ReadyUsable, NEW p \in Peers, Departs(p)
    PROVE  ReadyUsable'
<1>1. \A q \in Peers \ {p} : online'[q] = online[q]
    BY DepartsGone
<1>2. \A q \in Peers \ {p} :
          /\ sess'[q] = sess[q] /\ shown'[q] = shown[q] /\ secrets'[q] = secrets[q]
          /\ active'[q] = active[q] /\ (q \in lost => q \in lost')
    BY DEF Departs, Drop, Teardown, Reload, ReceiveBye, CloseStatus, keys,
           Types, KeyTypes, PageTypes
<1>3. CASE Teardown(p)
  <2>1. \A q \in Peers : IsReady(p, q)' => Usable(p, q)'
      BY <1>3 DEF Teardown, ReadyUsable, Usable, IsReady, keys
  <2> QED BY <1>1, <1>2, <2>1, UsableElsewhere
<1>4. CASE ~Teardown(p)
  <2>1. \A q \in Peers : ~IsReady(p, q)'
      BY <1>4, NotReady DEF Departs, Drop, Reload, ReceiveBye, CloseStatus, Types, KeyTypes, IsReady
  <2> QED BY <1>1, <1>2, <2>1, UsableElsewhere
<1> QED BY <1>3, <1>4

(* Whom a page that handles a frame holds for ready afterwards.             *)
LEMMA ReceiveReady ==
    ASSUME Types, NEW p \in Peers, Receive(p), NEW q \in Peers, IsReady(p, q)'
    PROVE  \/ /\ IsReady(p, q)
              /\ Head(down[p]) # Notice("left", q)
              /\ q \in shown[p] => q \in shown'[p]
              /\ q \in secrets[p] => q \in secrets'[p]
           \/ /\ Head(down[p]) = Notice("key", q)
              /\ q \in shown'[p] /\ q \in secrets'[p] \cup BadKeys
<1> DEFINE frame == Head(down[p])
<1> DEFINE r == frame.about
<1>0. r \in Peers /\ frame \in DownFrame /\ sess[p] \in Sessions
    BY ArrivesTyped DEF Receive, Types, KeyTypes, DownFrame
<1>1. CASE ReceiveJoined(p, r) /\ frame.kind = "joined"
  <2>1. sess'[p] = PeerJoined(sess[p], r)
      BY <1>1 DEF ReceiveJoined, Types, KeyTypes
  <2>2. q # r /\ sess'[p][q] = sess[p][q]
      BY <1>0, <2>1, NotReady DEF IsReady, PeerJoined, Sessions
  <2> QED BY <1>1, <2>2 DEF ReceiveJoined, IsReady, Types, KeyTypes, PageTypes, Notice
<1>2. CASE ReceiveLeft(p, r) /\ frame.kind = "left"
  <2>1. sess'[p] = PeerLeft(sess[p], r)
      BY <1>2 DEF ReceiveLeft, Types, KeyTypes
  <2>2. q # r /\ sess'[p][q] = sess[p][q]
      BY <1>0, <2>1, NotReady DEF IsReady, PeerLeft, Sessions
  <2> QED BY <1>2, <2>2 DEF ReceiveLeft, IsReady, Types, KeyTypes, PageTypes, Notice
<1>3. CASE ReceiveKey(p, r) /\ frame.kind = "key"
  <2>1. sess'[p] = KeyReceived(sess[p], r)
      BY <1>3 DEF ReceiveKey, Types, KeyTypes
  <2>2. CASE q = r
    <3>1. frame = Notice("key", q)
        BY <1>0, <1>3, <2>2 DEF Notice, DownFrame
    <3> QED BY <1>3, <2>2, <3>1 DEF ReceiveKey, Derive, Types, KeyTypes, PageTypes
  <2>3. CASE q # r
    <3>1. sess'[p][q] = sess[p][q]
        BY <1>0, <2>1, <2>3 DEF KeyReceived, Sessions
    <3> QED BY <1>3, <3>1 DEF ReceiveKey, Derive, IsReady, Types, KeyTypes, PageTypes, Notice
  <2> QED BY <2>2, <2>3
<1>4. CASE IgnoreKey(p, r) /\ frame.kind = "key"
    BY <1>4 DEF IgnoreKey, keys, IsReady, Notice
<1>5. CASE ResetRoomLocal(p)
    BY <1>0, <1>5, NotReady DEF ResetRoomLocal, Types, KeyTypes, IsReady
<1> QED BY <1>1, <1>2, <1>3, <1>4, <1>5 DEF Receive

LEMMA ReceiveElsewhere ==
    ASSUME Types, NEW p \in Peers, Receive(p), NEW q \in Peers \ {p}
    PROVE  sess'[q] = sess[q] /\ shown'[q] = shown[q] /\ secrets'[q] = secrets[q]
BY DEF Receive, ReceiveJoined, ReceiveLeft, ReceiveKey, IgnoreKey, ResetRoomLocal, Derive,
       keys, Types, KeyTypes, PageTypes

LEMMA ReceiveUsable ==
    ASSUME Types, Offline, ReadyUsable, NEW p \in Peers, Receive(p)
    PROVE  ReadyUsable'
<1>1. online[p] /\ online' = online /\ lost' = lost
    BY DEF Receive, Arrives, Offline
<1>2. \A q \in Peers : IsReady(p, q)' => q \in shown'[p] /\ q \in secrets'[p] \cup BadKeys
    BY ReceiveReady DEF ReadyUsable
<1>3. \A q \in Peers \ {p} : active'[q] = active[q]
    BY DEF Receive, ResetRoomLocal, Types, PageTypes
<1> QED BY <1>1, <1>2, <1>3, ReceiveElsewhere, UsableElsewhere DEF Usable

LEMMA RestartUsable ==
    ASSUME Types, ReadyUsable, Restart
    PROVE  ReadyUsable'
<1> SUFFICES ASSUME NEW p \in Peers, NEW q \in Peers, IsReady(p, q)' PROVE Usable(p, q)'
    BY DEF ReadyUsable, Usable
<1>1. ~online[p] /\ sess'[p] = sess[p]
    BY NotReady DEF Restart, IsReady, Types, KeyTypes
<1> QED BY <1>1 DEF Restart, ReadyUsable, Usable, IsReady

LEMMA NextUsable == Types /\ Offline /\ ReadyUsable /\ [Next]_vars => ReadyUsable'
<1> SUFFICES ASSUME Types, Offline, ReadyUsable, [Next]_vars PROVE ReadyUsable'
    OBVIOUS
<1>1. CASE UNCHANGED vars \/ Expire \/ \E p \in Peers : Serve(p) \/ ServeClose(p)
    BY <1>1 DEF Expire, Serve, ServeClose, vars, page, keys, ReadyUsable, IsReady
<1> QED BY <1>1, UserUsable, OpenUsable, DepartUsable, ReceiveUsable, RestartUsable
        DEF Next, Departs

(* Whatever closes, is torn down or reloaded, whoever comes and goes, and   *)
(* whichever keys yield no secret: a peer that is ready is listed, has a    *)
(* secret if there can be one, and a page in a room then has a socket or    *)
(* has lost it to its connect timer.                                        *)
THEOREM ReadyAlwaysUsable == Spec => []ReadyUsable
BY InitTypes, NextTypes, InitOffline, NextOffline, InitUsable, NextUsable, PTL DEF Spec
-----------------------------------------------------------------------------
(* Who is in the room.                                                      *)

Entries == {"create", "join"}

(* The key of p is, for its part, sent to q.                                *)
Sent(p, q) == sess[p][q].state \in {"KEY_SENT", "READY"}

Outside(p) == p \notin members /\ down[p] = <<>> /\ \A q \in Peers : ~Sent(p, q)

(* A page asks for the room first, and hears nothing before it is answered. *)
EntryAt(p) ==
    /\ \A i \in 2 .. Len(up[p]) : up[p][i].kind \notin Entries
    /\ up[p] # <<>> /\ up[p][1].kind \in Entries => Outside(p)

(* A page that has left is not in the room, or its leaving is on the way.   *)
InactiveAt(p) ==
    ~active[p] /\ (\A i \in 1 .. Len(up[p]) : up[p][i].kind # "leave") =>
        /\ p \notin members
        /\ up[p] # <<>> => up[p][1].kind \notin Entries

ClosedAt(p) == \A i \in 1 .. Len(down[p]) : down[p][i].kind = "closed" => p \notin members

(* Whose leaving has not been announced.                                    *)
Here == {q \in Peers : Inside(q) \/ ghosts[q] > 0}

KeysAt(p) ==
    \A q \in Peers, i \in 1 .. Len(down[p]) :
        down[p][i] = Notice("key", q) =>
            q \in Here \/ \E j \in i + 1 .. Len(down[p]) : down[p][j] = Notice("left", q)

ReadyAt(p) ==
    \A q \in Peers : IsReady(p, q) => q \in Here \/ OnItsWay(Notice("left", q), down[p])

PresentAt(p) == p \in members => KeysAt(p) /\ ReadyAt(p)

PlaceAt(p) == EntryAt(p) /\ InactiveAt(p) /\ ClosedAt(p)

RoomInv == \A p \in Peers : PlaceAt(p) /\ PresentAt(p)

LEMMA SeqFirst ==
    ASSUME NEW S, NEW s \in Seq(S), s # <<>>
    PROVE  Head(s) = s[1] /\ Len(s) \in Nat \ {0} /\ s[1] \in S
BY EmptySeq, LenProperties

(* Frames that are put behind others.                                       *)
LEMMA AppendUp ==
    ASSUME Types, NEW p \in Peers, NEW f \in UpFrame, up'[p] = Append(up[p], f)
    PROVE  /\ Len(up'[p]) = Len(up[p]) + 1 /\ Len(up[p]) \in Nat
           /\ \A i \in 1 .. Len(up[p]) : up'[p][i] = up[p][i]
           /\ up'[p][Len(up[p]) + 1] = f
           /\ up'[p] # <<>>
           /\ up[p] = <<>> <=> Len(up[p]) = 0
<1>1. up[p] \in Seq(UpFrame)
    BY DEF Types, UpTypes
<1> QED BY <1>1, AppendProperties, EmptySeq, LenProperties

LEMMA AppendDown ==
    ASSUME Types, NEW p \in Peers, NEW f \in DownFrame, down'[p] = Append(down[p], f)
    PROVE  /\ Len(down'[p]) = Len(down[p]) + 1 /\ Len(down[p]) \in Nat
           /\ \A i \in 1 .. Len(down[p]) : down'[p][i] = down[p][i]
           /\ down'[p][Len(down[p]) + 1] = f
<1>1. down[p] \in Seq(DownFrame)
    BY DEF Types, DownTypes
<1> QED BY <1>1, AppendProperties, LenProperties

(* A page whose frames, sessions and place do not change.                   *)
LEMMA SamePage ==
    ASSUME NEW p \in Peers, PlaceAt(p), PresentAt(p),
           up'[p] = up[p], down'[p] = down[p], sess'[p] = sess[p], active'[p] = active[p],
           p \in members' => p \in members, p \in members' => Here \subseteq Here'
    PROVE  PlaceAt(p)' /\ PresentAt(p)'
<1>1. PlaceAt(p)'
    BY DEF PlaceAt, EntryAt, InactiveAt, ClosedAt, Outside, Sent
<1>2. PresentAt(p)'
    BY DEF PresentAt, KeysAt, ReadyAt, IsReady, OnItsWay
<1> QED BY <1>1, <1>2

(* A page in the room that is sent something.                               *)
LEMMA PageHears ==
    ASSUME Types, NEW p \in Peers, PlaceAt(p), PresentAt(p), p \in members,
           NEW f \in DownFrame, f.kind # "closed", down'[p] = Append(down[p], f),
           up'[p] = up[p], sess'[p] = sess[p], active'[p] = active[p],
           \A q \in Peers : f = Notice("key", q) => q \in Here',
           \A q \in Peers : q \in Here /\ q \notin Here' => f = Notice("left", q)
    PROVE  PlaceAt(p)' /\ PresentAt(p)'
<1> DEFINE n == Len(down[p])
<1>1. /\ Len(down'[p]) = n + 1 /\ n \in Nat
      /\ \A i \in 1 .. n : down'[p][i] = down[p][i]
      /\ down'[p][n + 1] = f
    BY AppendDown
<1>2. EntryAt(p)'
    BY DEF PlaceAt, EntryAt, Outside, Sent
<1>3. InactiveAt(p)'
    BY DEF PlaceAt, InactiveAt, EntryAt, Outside
<1>4. ClosedAt(p)'
    BY <1>1 DEF PlaceAt, ClosedAt
<1>5. KeysAt(p)'
  <2> SUFFICES ASSUME NEW q \in Peers, NEW i \in 1 .. n + 1, down'[p][i] = Notice("key", q),
                      q \notin Here'
               PROVE  \E j \in i + 1 .. n + 1 : down'[p][j] = Notice("left", q)
      BY <1>1 DEF KeysAt
  <2>1. i \in 1 .. n /\ down[p][i] = Notice("key", q)
      BY <1>1
  <2>2. CASE q \in Here
      BY <1>1, <2>1, <2>2
  <2>3. CASE q \notin Here
    <3>1. PICK j \in i + 1 .. n : down[p][j] = Notice("left", q)
        BY <2>1, <2>3 DEF PresentAt, KeysAt
    <3>2. j \in i + 1 .. n + 1 /\ down'[p][j] = Notice("left", q)
        BY <1>1, <2>1, <3>1
    <3> QED BY <3>2
  <2> QED BY <2>2, <2>3
<1>6. ReadyAt(p)'
  <2> SUFFICES ASSUME NEW q \in Peers, IsReady(p, q), q \notin Here'
               PROVE  \E j \in 1 .. n + 1 : down'[p][j] = Notice("left", q)
      BY <1>1 DEF ReadyAt, OnItsWay, IsReady
  <2>1. CASE q \in Here
      BY <1>1, <2>1
  <2>2. CASE q \notin Here
    <3>1. PICK j \in 1 .. n : down[p][j] = Notice("left", q)
        BY <2>2 DEF PresentAt, ReadyAt, OnItsWay
    <3>2. j \in 1 .. n + 1 /\ down'[p][j] = Notice("left", q)
        BY <1>1, <3>1
    <3> QED BY <3>2
  <2> QED BY <2>1, <2>2
<1> QED BY <1>2, <1>3, <1>4, <1>5, <1>6 DEF PlaceAt, PresentAt

(* A page that is not in the room.                                          *)
LEMMA AbsentPresent ==
    ASSUME NEW p \in Peers, p \notin members'
    PROVE  PresentAt(p)' /\ ClosedAt(p)'
BY DEF PresentAt, ClosedAt

(* A page that sends something else than its asking for the room.           *)
LEMMA SendsOther ==
    ASSUME Types, NEW p \in Peers, EntryAt(p), NEW f \in UpFrame, f.kind \notin Entries,
           up'[p] = Append(up[p], f), members' = members,
           down'[p] = down[p] \/ down[p] # <<>>,
           \A q \in Peers : Sent(p, q)' => Sent(p, q) \/ down[p] # <<>>
    PROVE  EntryAt(p)'
<1> DEFINE n == Len(up[p])
<1>1. /\ Len(up'[p]) = n + 1 /\ n \in Nat
      /\ \A i \in 1 .. n : up'[p][i] = up[p][i]
      /\ up'[p][n + 1] = f
      /\ up[p] = <<>> <=> n = 0
    BY AppendUp
<1>2. \A i \in 2 .. Len(up'[p]) : up'[p][i].kind \notin Entries
    BY <1>1 DEF EntryAt
<1>3. ASSUME up'[p][1].kind \in Entries PROVE Outside(p)'
  <2>1. n # 0 /\ up'[p][1] = up[p][1]
      BY <1>1, <1>3
  <2>2. Outside(p)
      BY <1>1, <1>3, <2>1 DEF EntryAt
  <2> QED BY <2>2 DEF Outside
<1> QED BY <1>2, <1>3 DEF EntryAt

LEMMA SendsInactive ==
    ASSUME Types, NEW p \in Peers, InactiveAt(p), NEW f \in UpFrame, f.kind \notin Entries,
           up'[p] = Append(up[p], f), members' = members,
           active'[p] = active[p] \/ f.kind = "leave"
    PROVE  InactiveAt(p)'
<1> DEFINE n == Len(up[p])
<1>1. /\ Len(up'[p]) = n + 1 /\ n \in Nat
      /\ \A i \in 1 .. n : up'[p][i] = up[p][i]
      /\ up'[p][n + 1] = f
      /\ up[p] = <<>> <=> n = 0
    BY AppendUp
<1> SUFFICES ASSUME ~active'[p], \A i \in 1 .. n + 1 : up'[p][i].kind # "leave"
             PROVE  p \notin members /\ up'[p][1].kind \notin Entries
    BY <1>1 DEF InactiveAt
<1>2. f.kind # "leave" /\ \A i \in 1 .. n : up[p][i].kind # "leave"
    BY <1>1
<1>3. p \notin members /\ (up[p] # <<>> => up[p][1].kind \notin Entries)
    BY <1>2 DEF InactiveAt
<1>4. up'[p][1] = IF n = 0 THEN f ELSE up[p][1]
    BY <1>1
<1> QED BY <1>1, <1>3, <1>4

LEMMA InitRoom == Init => RoomInv
<1> SUFFICES ASSUME Init, NEW p \in Peers PROVE PlaceAt(p) /\ PresentAt(p)
    BY DEF RoomInv
<1>1. up[p] = <<>> /\ down[p] = <<>> /\ p \notin members /\ Len(<<>>) = 0
    BY EmptySeq DEF Init
<1> QED BY <1>1 DEF PlaceAt, PresentAt, EntryAt, InactiveAt, ClosedAt

(* The others, when a page does something by itself.                        *)
LEMMA OthersSame ==
    ASSUME RoomInv, NEW p \in Peers, UNCHANGED <<members, stray, ghosts>>,
           \A q \in Peers \ {p} : /\ up'[q] = up[q] /\ down'[q] = down[q]
                                 /\ sess'[q] = sess[q] /\ active'[q] = active[q],
           PlaceAt(p)' /\ PresentAt(p)'
    PROVE  RoomInv'
<1>1. Here' = Here
    BY DEF Here, Inside
<1> QED BY <1>1, SamePage DEF RoomInv

LEMMA EnterRoom ==
    ASSUME Types, RoomInv, NEW p \in Peers, NEW kind \in Entries, NEW t \in Tokens,
           Enter(p, kind, t)
    PROVE  RoomInv'
<1> DEFINE f == Ask(kind, t)
<1>0. f \in UpFrame /\ f.kind # "leave"
    BY DEF Ask, UpFrame, Entries
<1>1. up'[p] = Append(up[p], f) /\ \A q \in Peers \ {p} : up'[q] = up[q]
    BY <1>0, SendTyped DEF Enter, Types
<1>2. Len(<<>>) = 0
    BY EmptySeq
<1>3. p \notin members /\ down[p] = <<>> /\ UNCHANGED <<members, stray, ghosts, down>>
    BY <1>2 DEF Enter, RoomInv, PlaceAt, InactiveAt, relay
<1>4. \A q \in Peers : ~Sent(p, q)'
    BY NotSent DEF Enter, Types, KeyTypes, Sent
<1>5. Len(up'[p]) = 1
    BY <1>0, <1>1, <1>2, AppendUp DEF Enter
<1>6. EntryAt(p)'
    BY <1>3, <1>4, <1>5 DEF EntryAt, Outside
<1>7. InactiveAt(p)'
    BY DEF InactiveAt, Enter, Types, PageTypes
<1>8. PlaceAt(p)' /\ PresentAt(p)'
    BY <1>3, <1>6, <1>7, AbsentPresent DEF PlaceAt
<1>9. \A q \in Peers \ {p} : sess'[q] = sess[q] /\ active'[q] = active[q]
    BY DEF Enter, Types, KeyTypes, PageTypes
<1> QED BY <1>1, <1>3, <1>8, <1>9, OthersSame

LEMMA RedialRoom ==
    ASSUME RoomInv, NEW p \in Peers, Redial(p)
    PROVE  RoomInv'
<1>1. PlaceAt(p) /\ PresentAt(p)
    BY DEF RoomInv
<1>2. /\ UNCHANGED <<members, stray, ghosts, down, up, active>>
      /\ sess' = sess /\ Here' = Here
    BY DEF Redial, relay, keys, Here, Inside
<1>3. PlaceAt(p)' /\ PresentAt(p)'
    BY <1>1, <1>2, SamePage
<1> QED BY <1>2, <1>3, OthersSame

LEMMA InviteRoom ==
    ASSUME Types, RoomInv, NEW p \in Peers, Invite(p)
    PROVE  RoomInv'
<1>1. PICK t \in Tokens : IF online[p] THEN Send(p, Ask("invite", t)) ELSE UNCHANGED up
    BY DEF Invite
<1> DEFINE f == Ask("invite", t)
<1>2. f \in UpFrame /\ f.kind \notin Entries
    BY DEF Ask, UpFrame, Entries
<1>3. /\ up'[p] = up[p] \/ up'[p] = Append(up[p], f)
      /\ \A q \in Peers \ {p} : up'[q] = up[q]
    BY <1>1, <1>2, SendTyped DEF Types
<1>4. /\ UNCHANGED <<members, stray, ghosts, down, active>>
      /\ sess' = sess /\ Here' = Here
    BY DEF Invite, relay, keys, Here, Inside
<1>5. EntryAt(p) /\ InactiveAt(p) /\ ClosedAt(p) /\ PresentAt(p)
    BY DEF RoomInv, PlaceAt
<1>6. EntryAt(p)'
  <2>1. CASE up'[p] = up[p]
      BY <1>4, <1>5, <2>1 DEF EntryAt, Outside, Sent
  <2>2. CASE up'[p] = Append(up[p], f)
      BY <1>2, <1>4, <1>5, <2>2, SendsOther DEF Sent
  <2> QED BY <1>3, <2>1, <2>2
<1>7. InactiveAt(p)'
  <2>1. CASE up'[p] = up[p]
      BY <1>4, <1>5, <2>1 DEF InactiveAt
  <2>2. CASE up'[p] = Append(up[p], f)
      BY <1>2, <1>4, <1>5, <2>2, SendsInactive
  <2> QED BY <1>3, <2>1, <2>2
<1>8. ClosedAt(p)' /\ PresentAt(p)'
    BY <1>4, <1>5 DEF PresentAt, ClosedAt, KeysAt, ReadyAt, IsReady, OnItsWay
<1> QED BY <1>3, <1>4, <1>6, <1>7, <1>8, OthersSame DEF PlaceAt

LEMMA LeaveRoomKeeps ==
    ASSUME Types, Offline, RoomInv, NEW p \in Peers, LeaveRoom(p)
    PROVE  RoomInv'
<1>1. \A q \in Peers : ~IsReady(p, q)' /\ ~Sent(p, q)'
    BY NotSent DEF LeaveRoom, ResetRoomLocal, Types, KeyTypes, IsReady, Sent
<1>2. \A q \in Peers \ {p} : sess'[q] = sess[q] /\ active'[q] = active[q]
    BY DEF LeaveRoom, ResetRoomLocal, Types, KeyTypes, PageTypes
<1>3. UNCHANGED <<members, stray, ghosts, down>>
    BY DEF LeaveRoom, relay
<1>4. ClosedAt(p)' /\ PresentAt(p)'
    BY <1>1, <1>3 DEF RoomInv, PlaceAt, PresentAt, ClosedAt, KeysAt, ReadyAt, Here, Inside
<1>5. CASE online[p]
  <2> DEFINE f == Ask("leave", NoToken)
  <2>1. f \in UpFrame /\ f.kind = "leave" /\ f.kind \notin Entries
      BY DEF Ask, UpFrame, Entries
  <2>2. up'[p] = Append(up[p], f) /\ \A q \in Peers \ {p} : up'[q] = up[q]
      BY <1>5, <2>1, SendTyped DEF Types, LeaveRoom
  <2>3. EntryAt(p)'
      BY <1>1, <1>3, <2>1, <2>2, SendsOther DEF RoomInv, PlaceAt
  <2>4. InactiveAt(p)'
      BY <1>3, <2>1, <2>2, SendsInactive DEF RoomInv, PlaceAt
  <2> QED BY <1>2, <1>3, <1>4, <2>2, <2>3, <2>4, OthersSame DEF PlaceAt
<1>6. CASE ~online[p]
  <2>1. up' = up /\ up[p] = <<>> /\ p \notin members /\ Len(<<>>) = 0
      BY <1>6, EmptySeq DEF LeaveRoom, Offline, Inside
  <2>2. EntryAt(p)' /\ InactiveAt(p)'
      BY <1>3, <2>1 DEF EntryAt, InactiveAt
  <2> QED BY <1>2, <1>3, <1>4, <2>1, <2>2, OthersSame DEF PlaceAt
<1> QED BY <1>5, <1>6

LEMMA OpenRoom ==
    ASSUME Types, Offline, RoomInv, NEW p \in Peers, Open(p)
    PROVE  RoomInv'
<1>1. up[p] = <<>> /\ down[p] = <<>> /\ p \notin members /\ Len(<<>>) = 0
    BY EmptySeq DEF Open, Offline, Inside
<1>2. UNCHANGED <<members, stray, ghosts, down, active>>
    BY DEF Open, relay
<1>3. \A q \in Peers \ {p} : sess'[q] = sess[q]
    BY DEF Open, Types, KeyTypes
<1> DEFINE f == Ask("create", held[p])
<1>4. f \in UpFrame
    BY DEF Types, PageTypes, Ask, UpFrame
<1>5. CASE active[p]
  <2>1. up'[p] = Append(up[p], f) /\ \A q \in Peers \ {p} : up'[q] = up[q]
      BY <1>4, <1>5, SendTyped DEF Open, Types
  <2>2. \A q \in Peers : ~Sent(p, q)'
      BY <1>5, NotSent DEF Open, Types, KeyTypes, Sent
  <2>3. Len(up'[p]) = 1
      BY <1>1, <1>4, <2>1, AppendUp
  <2>4. EntryAt(p)' /\ InactiveAt(p)'
      BY <1>1, <1>2, <1>5, <2>2, <2>3 DEF EntryAt, Outside, InactiveAt
  <2> QED BY <1>1, <1>2, <1>3, <2>1, <2>4, AbsentPresent, OthersSame DEF PlaceAt
<1>6. CASE ~active[p]
  <2>1. up' = up
      BY <1>6 DEF Open
  <2>2. EntryAt(p)' /\ InactiveAt(p)'
      BY <1>1, <1>2, <2>1 DEF EntryAt, InactiveAt
  <2> QED BY <1>1, <1>2, <1>3, <2>1, <2>2, AbsentPresent, OthersSame DEF PlaceAt
<1> QED BY <1>5, <1>6

LEMMA DepartRoom ==
    ASSUME Types, RoomInv, NEW p \in Peers, Departs(p)
    PROVE  RoomInv'
<1>1. /\ up'[p] = <<>> /\ p \notin members' /\ members' = members \ {p}
      /\ \A q \in Peers \ {p} : up'[q] = up[q] /\ down'[q] = down[q]
    BY DepartsGone
<1>2. Here \subseteq Here'
  <2>1. Abandoned(p)
      BY DepartsUnplugged
  <2> SUFFICES ASSUME NEW q \in Peers, Inside(q) \/ ghosts[q] > 0
               PROVE  Inside(q)' \/ ghosts'[q] > 0
      BY DEF Here
  <2>2. CASE q = p
    <3>1. ghosts[p] \in Nat
        BY DEF Types, RelayTypes
    <3>2. ghosts'[p] = IF Inside(p) THEN ghosts[p] + 1 ELSE ghosts[p]
        BY <2>1 DEF Abandoned, Types, RelayTypes, Inside
    <3> QED BY <2>2, <3>1, <3>2
  <2>3. CASE q # p
      BY <2>1, <2>3 DEF Abandoned, Inside, Types, RelayTypes
  <2> QED BY <2>2, <2>3
<1>3. Len(<<>>) = 0
    BY EmptySeq
<1>4. PlaceAt(p)' /\ PresentAt(p)'
    BY <1>1, <1>3, AbsentPresent DEF PlaceAt, EntryAt, InactiveAt
<1>5. \A q \in Peers \ {p} : sess'[q] = sess[q] /\ active'[q] = active[q]
    BY DEF Departs, Drop, Teardown, Reload, ReceiveBye, CloseStatus, keys, Types, KeyTypes
<1> QED BY <1>1, <1>2, <1>4, <1>5, SamePage DEF RoomInv

(* A page handles a frame: what was behind it keeps its order.              *)
LEMMA ReceiveRoom ==
    ASSUME Types, RoomInv, NEW p \in Peers, Receive(p)
    PROVE  RoomInv'
<1> DEFINE n == Len(down[p])
<1> DEFINE frame == down[p][1]
<1>1. /\ down[p] # <<>> /\ down[p] \in Seq(DownFrame) /\ down'[p] = Tail(down[p])
      /\ \A q \in Peers \ {p} : down'[q] = down[q]
    BY ArrivesTyped DEF Receive, Arrives, Types, DownTypes
<1>2. Head(down[p]) = frame /\ n \in Nat \ {0}
    BY <1>1, SeqFirst
<1>3. Len(down'[p]) = n - 1 /\ \A i \in 1 .. n - 1 : down'[p][i] = down[p][i + 1]
    BY <1>1, HeadTailProperties
<1>4. UNCHANGED <<members, stray, ghosts>> /\ Here' = Here
    BY DEF Receive, relay, Here, Inside
<1>5. PlaceAt(p) /\ PresentAt(p)
    BY DEF RoomInv
<1>6. ClosedAt(p)'
  <2>1. SUFFICES ASSUME NEW i \in 1 .. n - 1, down'[p][i].kind = "closed"
                 PROVE  p \notin members
      BY <1>3, <1>4 DEF ClosedAt
  <2>2. i + 1 \in 1 .. n /\ down[p][i + 1].kind = "closed"
      BY <1>2, <1>3, <2>1
  <2> QED BY <1>5, <2>2 DEF PlaceAt, ClosedAt
<1>7. ASSUME p \in members PROVE KeysAt(p)'
  <2> SUFFICES ASSUME NEW q \in Peers, NEW i \in 1 .. n - 1, down'[p][i] = Notice("key", q),
                      q \notin Here
               PROVE  \E j \in i + 1 .. n - 1 : down'[p][j] = Notice("left", q)
      BY <1>3, <1>4 DEF KeysAt
  <2>1. i + 1 \in 1 .. n /\ down[p][i + 1] = Notice("key", q)
      BY <1>2, <1>3
  <2>2. PICK j \in i + 2 .. n : down[p][j] = Notice("left", q)
      BY <1>5, <1>7, <2>1 DEF PresentAt, KeysAt
  <2>3. j - 1 \in i + 1 .. n - 1 /\ down'[p][j - 1] = down[p][j]
      BY <1>2, <1>3, <2>2
  <2> QED BY <2>2, <2>3
<1>8. ASSUME p \in members PROVE ReadyAt(p)'
  <2> SUFFICES ASSUME NEW q \in Peers, IsReady(p, q)', q \notin Here
               PROVE  \E j \in 1 .. n - 1 : down'[p][j] = Notice("left", q)
      BY <1>3, <1>4 DEF ReadyAt, OnItsWay
  <2>1. \E j \in 2 .. n : down[p][j] = Notice("left", q)
    <3>1. CASE IsReady(p, q) /\ frame # Notice("left", q)
      <4>1. PICK j \in 1 .. n : down[p][j] = Notice("left", q)
          BY <1>5, <1>8, <3>1 DEF PresentAt, ReadyAt, OnItsWay
      <4>2. j # 1
          BY <3>1, <4>1
      <4> QED BY <1>2, <4>1, <4>2
    <3>2. CASE frame = Notice("key", q)
        BY <1>2, <1>5, <1>8, <3>2 DEF PresentAt, KeysAt
    <3> QED BY <1>2, <3>1, <3>2, ReceiveReady
  <2>2. PICK j \in 2 .. n : down[p][j] = Notice("left", q)
      BY <2>1
  <2>3. j - 1 \in 1 .. n - 1 /\ down'[p][j - 1] = down[p][j]
      BY <1>2, <1>3, <2>2
  <2> QED BY <2>2, <2>3
<1>9. PresentAt(p)'
    BY <1>4, <1>7, <1>8 DEF PresentAt
<1>10. up' = up \/ SendKey(p)
    BY DEF Receive, ReceiveJoined, ReceiveLeft, ReceiveKey, IgnoreKey
<1> DEFINE f == Ask("key", NoToken)
<1>11. f \in UpFrame /\ f.kind \notin Entries
    BY DEF Ask, UpFrame, Entries
<1>12. /\ up'[p] = up[p] \/ up'[p] = Append(up[p], f)
       /\ \A q \in Peers \ {p} : up'[q] = up[q]
    BY <1>10, SendKeyTyped DEF Types
<1>13. EntryAt(p)'
  <2>1. CASE up'[p] = up[p]
      BY <1>1, <1>5, <2>1 DEF PlaceAt, EntryAt, Outside
  <2>2. CASE up'[p] = Append(up[p], f)
      BY <1>1, <1>4, <1>5, <1>11, <2>2, SendsOther DEF PlaceAt
  <2> QED BY <1>12, <2>1, <2>2
<1>14. InactiveAt(p)'
  <2>1. CASE frame.kind = "closed"
    <3>1. p \notin members /\ 1 \in 1 .. n
        BY <1>2, <1>5, <2>1 DEF PlaceAt, ClosedAt
    <3>2. up'[p] # <<>> => up'[p][1].kind \notin Entries
      <4>1. CASE up'[p] = up[p]
          BY <1>1, <1>5, <4>1 DEF PlaceAt, EntryAt, Outside
      <4>2. CASE up'[p] = Append(up[p], f)
          BY <1>1, <1>13, <4>2, <2>1 DEF EntryAt, Outside, Receive, Arrives,
             ReceiveJoined, ReceiveLeft, ReceiveKey, IgnoreKey
      <4> QED BY <1>12, <4>1, <4>2
    <3> QED BY <1>4, <3>1, <3>2 DEF InactiveAt
  <2>2. CASE frame.kind # "closed"
    <3>1. active' = active
        BY <1>2, <2>2 DEF Receive
    <3>2. CASE up'[p] = up[p]
        BY <1>4, <1>5, <3>1, <3>2 DEF PlaceAt, InactiveAt
    <3>3. CASE up'[p] = Append(up[p], f)
        BY <1>4, <1>5, <1>11, <3>1, <3>3, SendsInactive DEF PlaceAt
    <3> QED BY <1>12, <3>2, <3>3
  <2> QED BY <2>1, <2>2
<1>15. \A q \in Peers \ {p} : sess'[q] = sess[q] /\ active'[q] = active[q]
    BY ReceiveElsewhere DEF Receive, ResetRoomLocal, Types, PageTypes
<1> QED BY <1>1, <1>4, <1>6, <1>9, <1>12, <1>13, <1>14, <1>15, OthersSame DEF PlaceAt

(* A page whose first frame the relay has handled.                          *)
LEMMA ServedPlace ==
    ASSUME Types, RoomInv, NEW p \in Peers, Serve(p)
    PROVE  /\ EntryAt(p)'
           /\ up[p][1].kind \in Entries =>
                /\ Outside(p)
                /\ active'[p] \/ \E i \in 1 .. Len(up'[p]) : up'[p][i].kind = "leave"
           /\ up[p][1].kind \notin Entries =>
                /\ members' \subseteq members
                /\ InactiveAt(p)'
           /\ Head(up[p]) = up[p][1]
<1> DEFINE n == Len(up[p])
<1>1. /\ up[p] # <<>> /\ up[p] \in Seq(UpFrame) /\ up'[p] = Tail(up[p])
      /\ active' = active /\ sess' = sess
    BY TailTyped DEF Serve, Types, UpTypes, page, keys
<1>2. Head(up[p]) = up[p][1] /\ n \in Nat \ {0}
    BY <1>1, SeqFirst
<1>3. Len(up'[p]) = n - 1 /\ \A i \in 1 .. n - 1 : up'[p][i] = up[p][i + 1]
    BY <1>1, HeadTailProperties
<1>4. EntryAt(p) /\ InactiveAt(p)
    BY DEF RoomInv, PlaceAt
<1>5. up'[p] # <<>> => 1 \in 1 .. n - 1
  <2>1. up'[p] \in Seq(UpFrame)
      BY <1>1, HeadTailProperties
  <2> QED BY <1>2, <1>3, <2>1, EmptySeq
<1>6. ASSUME NEW i \in 1 .. n - 1 PROVE up'[p][i].kind \notin Entries
  <2>1. i + 1 \in 2 .. n /\ up'[p][i] = up[p][i + 1]
      BY <1>2, <1>3
  <2> QED BY <1>4, <2>1 DEF EntryAt
<1>7. EntryAt(p)'
  <2>1. \A i \in 2 .. n - 1 : up'[p][i].kind \notin Entries
      BY <1>2, <1>6
  <2>2. up'[p] # <<>> => up'[p][1].kind \notin Entries
      BY <1>5, <1>6
  <2> QED BY <1>3, <2>1, <2>2 DEF EntryAt
<1>8. ASSUME up[p][1].kind # "leave", \A i \in 1 .. n - 1 : up'[p][i].kind # "leave"
      PROVE  \A i \in 1 .. n : up[p][i].kind # "leave"
  <2> SUFFICES ASSUME NEW i \in 1 .. n, i # 1 PROVE up[p][i].kind # "leave"
      BY <1>8
  <2>1. i - 1 \in 1 .. n - 1 /\ up'[p][i - 1] = up[p][i]
      BY <1>2, <1>3
  <2> QED BY <1>8, <2>1
<1>9. ASSUME up[p][1].kind \in Entries
      PROVE  /\ Outside(p)
             /\ active'[p] \/ \E i \in 1 .. Len(up'[p]) : up'[p][i].kind = "leave"
    BY <1>1, <1>3, <1>4, <1>8, <1>9 DEF EntryAt, InactiveAt, Entries
<1>10. ASSUME up[p][1].kind \notin Entries
       PROVE  members' \subseteq members /\ InactiveAt(p)'
  <2>1. \/ ServeLeave(p)
        \/ up[p][1].kind = "leave" /\ p \notin members /\ members' = members
        \/ up[p][1].kind # "leave" /\ members' = members
      BY <1>2, <1>10 DEF Serve, Refused, ServeKey, ServeInvite, Inside, relay, Entries
  <2>2. members' \subseteq members /\ (up[p][1].kind = "leave" => p \notin members')
      BY <1>2, <2>1 DEF ServeLeave
  <2>3. ASSUME ~active[p], \A i \in 1 .. n - 1 : up'[p][i].kind # "leave"
        PROVE  p \notin members'
      BY <1>4, <1>8, <2>2, <2>3 DEF InactiveAt
  <2>4. InactiveAt(p)'
      BY <1>1, <1>3, <1>5, <1>6, <2>3 DEF InactiveAt
  <2> QED BY <2>2, <2>4
<1> QED BY <1>2, <1>7, <1>9, <1>10

LEMMA ServeOthers ==
    ASSUME Types, RoomInv, NEW p \in Peers, Serve(p), NEW q \in Peers \ {p}
    PROVE  PlaceAt(q)' /\ PresentAt(q)'
<1>1. /\ up'[q] = up[q] /\ sess'[q] = sess[q] /\ active'[q] = active[q]
      /\ PlaceAt(q) /\ PresentAt(q)
    BY TailTyped DEF Serve, Types, page, keys, RoomInv
<1>2. ASSUME NEW kind \in {"joined", "left", "key"}, Broadcast(kind, p, members \ {p}),
             kind = "key" => p \in Here', ghosts' = ghosts,
             \/ members' = members \cup {p} /\ stray' = stray
             \/ kind = "left" /\ members' = members \ {p} /\ stray' = stray \ {p}
             \/ UNCHANGED <<members, stray>>
      PROVE  PlaceAt(q)' /\ PresentAt(q)'
  <2> DEFINE f == Notice(kind, p)
  <2>1. f \in DownFrame /\ f.kind # "closed"
      BY DEF Notice, DownFrame
  <2>2. \A r \in Peers : r \in Here /\ r \notin Here' => kind = "left" /\ r = p
      BY <1>2 DEF Here, Inside
  <2>3. CASE q \in members
    <3>1. down'[q] = Append(down[q], f)
        BY <1>2, <2>3, BroadcastTyped DEF Types
    <3>2. \A r \in Peers : f = Notice("key", r) => r \in Here'
        BY <1>2 DEF Notice
    <3> QED BY <1>1, <2>1, <2>2, <2>3, <3>1, <3>2, PageHears
  <2>4. CASE q \notin members
    <3>1. down'[q] = down[q] /\ q \notin members'
        BY <1>2, <2>4, BroadcastTyped DEF Types
    <3> QED BY <1>1, <3>1, SamePage
  <2> QED BY <2>3, <2>4
<1> DEFINE t == Head(up[p]).token
<1>3. CASE ServeFirst(p, t)
    BY <1>1, <1>3, SamePage DEF ServeFirst
<1>4. CASE ServeRejoin(p, t) \/ ServeJoin(p, t)
    BY <1>2, <1>4 DEF ServeRejoin, ServeJoin, Admit
<1>5. CASE ServeLeave(p)
    BY <1>2, <1>5 DEF ServeLeave
<1>6. CASE ServeKey(p)
    BY <1>2, <1>6 DEF ServeKey, relay, Here, Inside
<1>7. CASE UNCHANGED <<down, members, stray, ghosts>>
    BY <1>1, <1>7, SamePage DEF Here, Inside
<1> QED BY <1>3, <1>4, <1>5, <1>6, <1>7 DEF Serve, ServeInvite, relay

LEMMA ServeRoom ==
    ASSUME Types, RoomInv, NEW p \in Peers, Serve(p)
    PROVE  RoomInv'
<1>1. PlaceAt(p) /\ PresentAt(p) /\ down'[p] = down[p] /\ sess' = sess
    BY ServeDelivers DEF RoomInv, Serve, keys
<1>2. CASE up[p][1].kind \in Entries
  <2>1. Outside(p) /\ EntryAt(p)' /\ InactiveAt(p)'
      BY <1>2, ServedPlace DEF InactiveAt
  <2>2. Len(<<>>) = 0
      BY EmptySeq
  <2>3. ClosedAt(p)' /\ PresentAt(p)'
      BY <1>1, <2>1, <2>2 DEF Outside, ClosedAt, PresentAt, KeysAt, ReadyAt, IsReady, Sent
  <2> QED BY <2>1, <2>3, ServeOthers DEF RoomInv, PlaceAt
<1>3. CASE up[p][1].kind \notin Entries
  <2>1. EntryAt(p)' /\ InactiveAt(p)' /\ members' \subseteq members
      BY <1>3, ServedPlace
  <2>2. ClosedAt(p)'
      BY <1>1, <2>1 DEF PlaceAt, ClosedAt
  <2>3. PresentAt(p)'
    <3>1. p \in members' => UNCHANGED <<members, stray, ghosts>>
        BY <1>3, ServedPlace
           DEF Serve, ServeLeave, ServeKey, ServeInvite, relay, Entries
    <3> QED BY <1>1, <2>1, <3>1 DEF PresentAt, KeysAt, ReadyAt, IsReady, OnItsWay, Here, Inside
  <2> QED BY <2>1, <2>2, <2>3, ServeOthers DEF RoomInv, PlaceAt
<1> QED BY <1>2, <1>3

LEMMA RelayStepRoom ==
    ASSUME Types, RoomInv, Expire \/ Restart \/ \E p \in Peers : ServeClose(p)
    PROVE  RoomInv'
<1>1. CASE Expire
  <2> SUFFICES ASSUME NEW q \in Peers PROVE PlaceAt(q)' /\ PresentAt(q)'
      BY DEF RoomInv
  <2>1. PlaceAt(q) /\ up' = up /\ sess' = sess /\ active' = active /\ q \notin members'
      BY <1>1 DEF Expire, page, keys, RoomInv
  <2>2. q \notin members => down'[q] = down[q]
      BY <1>1 DEF Expire
  <2>3. EntryAt(q)' /\ InactiveAt(q)'
      BY <2>1, <2>2 DEF PlaceAt, EntryAt, InactiveAt, Outside, Sent
  <2> QED BY <2>1, <2>3, AbsentPresent DEF PlaceAt
<1>2. CASE Restart
  <2> SUFFICES ASSUME NEW q \in Peers PROVE PlaceAt(q)' /\ PresentAt(q)'
      BY DEF RoomInv
  <2>1. up'[q] = <<>> /\ q \notin members' /\ Len(<<>>) = 0
      BY <1>2, UnpluggedTyped, EmptySeq DEF Restart, Types
  <2> QED BY <2>1, AbsentPresent DEF PlaceAt, EntryAt, InactiveAt
<1>3. ASSUME NEW p \in Peers, ServeClose(p) PROVE RoomInv'
  <2> SUFFICES ASSUME NEW q \in Peers PROVE PlaceAt(q)' /\ PresentAt(q)'
      BY DEF RoomInv
  <2> DEFINE f == Notice("left", p)
  <2>1. /\ up' = up /\ sess' = sess /\ active' = active /\ members' = members
        /\ PlaceAt(q) /\ PresentAt(q)
      BY <1>3 DEF ServeClose, page, keys, RoomInv
  <2>2. CASE q \in members
    <3>1. down'[q] = Append(down[q], f)
        BY <1>3, <2>2, BroadcastTyped DEF ServeClose, Types
    <3>2. f \in DownFrame /\ f.kind # "closed" /\ \A r \in Peers : f # Notice("key", r)
        BY DEF Notice, DownFrame
    <3>3. \A r \in Peers : r \in Here /\ r \notin Here' => f = Notice("left", r)
        BY <1>3 DEF ServeClose, Here, Inside, Types, RelayTypes
    <3> QED BY <2>1, <2>2, <3>1, <3>2, <3>3, PageHears
  <2>3. CASE q \notin members
    <3>1. down'[q] = down[q]
        BY <1>3, <2>3, BroadcastTyped DEF ServeClose, Types
    <3> QED BY <2>1, <2>3, <3>1, SamePage
  <2> QED BY <2>2, <2>3
<1> QED BY <1>1, <1>2, <1>3
-----------------------------------------------------------------------------
LEMMA NextRoom == Types /\ Offline /\ RoomInv /\ [Next]_vars => RoomInv'
<1> SUFFICES ASSUME Types, Offline, RoomInv, [Next]_vars PROVE RoomInv'
    OBVIOUS
<1>1. ASSUME NEW p \in Peers, CreateRoom(p) PROVE RoomInv'
    BY <1>1, EnterRoom DEF CreateRoom, Entries
<1>2. ASSUME NEW p \in Peers, JoinRoom(p) PROVE RoomInv'
  <2>1. PICK t \in Invites(p) : Enter(p, "join", t)
      BY <1>2 DEF JoinRoom
  <2> QED BY <2>1, EnterRoom DEF Invites, Entries
<1>3. CASE UNCHANGED vars
    BY <1>3, SamePage DEF vars, page, keys, relay, RoomInv, Here, Inside
<1> QED BY <1>1, <1>2, <1>3, RedialRoom, InviteRoom, LeaveRoomKeeps, OpenRoom, DepartRoom,
           ReceiveRoom, ServeRoom, RelayStepRoom DEF Next, Departs

LEMMA RoomPresent == Types /\ RoomInv => ReadyPresent
BY DEF Types, RelayTypes, RoomInv, PresentAt, ReadyAt, ReadyPresent, Here, Inside

(* No page in the room holds somebody for ready who has left it for good    *)
(* and whose leaving it will not hear of: for every number of pages, and    *)
(* whenever the relay sees an old socket close.                             *)
THEOREM ReadyAlwaysPresent == Spec => []ReadyPresent
BY RoomPresent, InitTypes, NextTypes, InitOffline, NextOffline, InitRoom, NextRoom, PTL DEF Spec
-----------------------------------------------------------------------------
(* What is on the way, and what is left of it.                              *)

(* A page that has this session with q, and these frames to handle, ends up *)
(* ready for it: nothing behind the key takes it back.                      *)
Settles(s, frames, q) ==
    \E i \in 0 .. Len(frames) :
        /\ IF i = 0 THEN s = ReadySession ELSE frames[i] = Notice("key", q)
        /\ \A j \in i + 1 .. Len(frames) : frames[j] \notin {Notice("joined", q), Notice("left", q)}

LEMMA NothingOnItsWay ==
    ASSUME NEW s, NEW q, NEW f
    PROVE  ~OnItsWay(f, <<>>) /\ (Settles(s, <<>>, q) => s = ReadySession)
<1>1. Len(<<>>) = 0
    BY EmptySeq
<1> QED BY <1>1 DEF OnItsWay, Settles

LEMMA OneMore ==
    ASSUME NEW S, NEW frames \in Seq(S), NEW x \in S, NEW f
    PROVE  OnItsWay(f, Append(frames, x)) <=> OnItsWay(f, frames) \/ f = x
<1> DEFINE n == Len(frames)
<1> DEFINE more == Append(frames, x)
<1>1. /\ n \in Nat /\ Len(more) = n + 1
      /\ \A i \in 1 .. n : more[i] = frames[i]
      /\ more[n + 1] = x
    BY AppendProperties, LenProperties
<1> HIDE DEF more
<1>2. OnItsWay(f, more) <=> OnItsWay(f, frames) \/ f = x
    BY <1>1 DEF OnItsWay
<1> QED BY <1>2 DEF more

LEMMA SettlesMore ==
    ASSUME NEW S, NEW frames \in Seq(S), NEW x \in S, NEW s, NEW q
    PROVE  /\ x = Notice("key", q) => Settles(s, Append(frames, x), q)
           /\ x \notin {Notice("joined", q), Notice("left", q)} /\ Settles(s, frames, q) =>
                Settles(s, Append(frames, x), q)
<1> DEFINE n == Len(frames)
<1> DEFINE more == Append(frames, x)
<1>1. /\ n \in Nat /\ Len(more) = n + 1
      /\ \A i \in 1 .. n : more[i] = frames[i]
      /\ more[n + 1] = x
    BY AppendProperties, LenProperties
<1> HIDE DEF more
<1>3. ASSUME x = Notice("key", q) PROVE Settles(s, more, q)
  <2>1. n + 1 \in 0 .. Len(more) /\ n + 1 # 0 /\ more[n + 1] = Notice("key", q)
      BY <1>1, <1>3
  <2> QED BY <1>1, <2>1 DEF Settles
<1>4. ASSUME x \notin {Notice("joined", q), Notice("left", q)}, Settles(s, frames, q)
      PROVE  Settles(s, more, q)
  <2>1. PICK i \in 0 .. n :
            /\ IF i = 0 THEN s = ReadySession ELSE frames[i] = Notice("key", q)
            /\ \A j \in i + 1 .. n : frames[j] \notin {Notice("joined", q), Notice("left", q)}
      BY <1>4 DEF Settles
  <2>2. i \in 0 .. n + 1 /\ IF i = 0 THEN s = ReadySession ELSE more[i] = Notice("key", q)
      BY <1>1, <2>1
  <2>3. \A j \in i + 1 .. n + 1 : more[j] \notin {Notice("joined", q), Notice("left", q)}
      BY <1>1, <1>4, <2>1
  <2> QED BY <1>1, <2>2, <2>3 DEF Settles
<1> QED BY <1>3, <1>4 DEF more

LEMMA OneLess ==
    ASSUME NEW S, NEW frames \in Seq(S), frames # <<>>, NEW f
    PROVE  OnItsWay(f, frames) <=> f = Head(frames) \/ OnItsWay(f, Tail(frames))
<1> DEFINE n == Len(frames)
<1> DEFINE rest == Tail(frames)
<1>1. Head(frames) = frames[1] /\ n \in Nat \ {0}
    BY SeqFirst
<1>2. Len(rest) = n - 1 /\ \A i \in 1 .. n - 1 : rest[i] = frames[i + 1]
    BY HeadTailProperties
<1> HIDE DEF rest
<1>3. ASSUME NEW i \in 1 .. n, frames[i] = f, i # 1 PROVE OnItsWay(f, rest)
  <2>1. i - 1 \in 1 .. n - 1 /\ rest[i - 1] = f
      BY <1>1, <1>2, <1>3
  <2> QED BY <1>2, <2>1 DEF OnItsWay
<1>4. ASSUME NEW i \in 1 .. n - 1, rest[i] = f PROVE OnItsWay(f, frames)
  <2>1. i + 1 \in 1 .. n /\ frames[i + 1] = f
      BY <1>1, <1>2, <1>4
  <2> QED BY <2>1 DEF OnItsWay
<1>5. 1 \in 1 .. n
    BY <1>1
<1>6. OnItsWay(f, frames) <=> f = Head(frames) \/ OnItsWay(f, rest)
    BY <1>1, <1>2, <1>3, <1>4, <1>5 DEF OnItsWay
<1> QED BY <1>6 DEF rest

(* The first one is handled: a key makes it ready, and what is not about q  *)
(* leaves it so.                                                            *)
LEMMA SettlesLess ==
    ASSUME NEW S, NEW frames \in Seq(S), frames # <<>>, NEW s, NEW t, NEW q,
           Head(frames) = Notice("key", q) => t = ReadySession,
           s = ReadySession =>
               Head(frames) \in {Notice("joined", q), Notice("left", q)} \/ t = ReadySession,
           Settles(s, frames, q)
    PROVE  Settles(t, Tail(frames), q)
<1> DEFINE n == Len(frames)
<1> DEFINE rest == Tail(frames)
<1>1. Head(frames) = frames[1] /\ n \in Nat \ {0}
    BY SeqFirst
<1>2. Len(rest) = n - 1 /\ \A i \in 1 .. n - 1 : rest[i] = frames[i + 1]
    BY HeadTailProperties
<1> HIDE DEF rest
<1>3. PICK i \in 0 .. n :
          /\ IF i = 0 THEN s = ReadySession ELSE frames[i] = Notice("key", q)
          /\ \A j \in i + 1 .. n : frames[j] \notin {Notice("joined", q), Notice("left", q)}
    BY DEF Settles
<1>4. ASSUME NEW k \in 0 .. n - 1, k \in {i - 1, i},
             IF k = 0 THEN t = ReadySession ELSE rest[k] = Notice("key", q)
      PROVE  Settles(t, rest, q)
  <2>1. ASSUME NEW j \in k + 1 .. n - 1
        PROVE  rest[j] \notin {Notice("joined", q), Notice("left", q)}
    <3>1. j + 1 \in i + 1 .. n /\ rest[j] = frames[j + 1]
        BY <1>1, <1>2, <1>4
    <3> QED BY <1>3, <3>1
  <2> QED BY <1>2, <1>4, <2>1 DEF Settles
<1>5. ASSUME i = 0 PROVE Settles(t, rest, q)
  <2>1. 1 \in i + 1 .. n
      BY <1>1, <1>5
  <2> QED BY <1>1, <1>3, <1>4, <1>5, <2>1
<1>6. ASSUME i = 1 PROVE Settles(t, rest, q)
    BY <1>1, <1>3, <1>4, <1>6
<1>7. ASSUME i \notin {0, 1} PROVE Settles(t, rest, q)
  <2>1. i - 1 \in 1 .. n - 1 /\ i - 1 # 0 /\ rest[i - 1] = frames[i]
      BY <1>1, <1>2, <1>7
  <2> QED BY <1>1, <1>3, <1>4, <1>7, <2>1
<1>8. Settles(t, rest, q)
    BY <1>5, <1>6, <1>7
<1> QED BY <1>8 DEF rest
-----------------------------------------------------------------------------
(* Two pages in the room.                                                   *)

In(p) == p \in members /\ active[p]

Joined(p, q) == OnItsWay(Notice("joined", q), down[p])
KeyTo(p, q) == OnItsWay(Notice("key", q), down[p])
KeyFrom(p) == OnItsWay(Ask("key", NoToken), up[p])
Settled(p, q) == Settles(sess[p][q], down[p], q)

(* The key that p has sent q has arrived, or is to come: q has the secret   *)
(* there is in it, or will be sent the key once more.                       *)
Reached(p, q) == p \in secrets[q] \cup BadKeys \/ KeyTo(q, p) \/ Joined(p, q) \/ KeyFrom(p)

SentAt(p, q) == In(p) /\ In(q) /\ Trusts(q, p) /\ Sent(p, q) => Reached(p, q)

(* q has not sent p its key, and will when it hears of p.                   *)
WillAnswer(q, p) == ~Sent(q, p) /\ (Joined(p, q) \/ KeyFrom(p) \/ KeyTo(q, p))

(* p gets ready for q once it has handled what is on its way, or q's key is *)
(* still to be sent.                                                        *)
Agreeing(p, q) == Settled(p, q) \/ KeyFrom(q) \/ Joined(q, p) \/ WillAnswer(q, p)

AgreeAt(p, q) ==
    In(p) /\ In(q) /\ q \notin overtaken /\ Trusts(p, q) /\ Trusts(q, p) => Agreeing(p, q)

PairAt(p, q) == SentAt(p, q) /\ AgreeAt(p, q)

AllPairs == \A p \in Peers : \A q \in Peers \ {p} : PairAt(p, q)

LEMMA InitPair == Init => AllPairs
BY DEF Init, AllPairs, PairAt, SentAt, AgreeAt, In

(* A step that takes nothing back of what the two are waiting for.          *)
LEMMA PairStays ==
    ASSUME NEW p \in Peers, NEW q \in Peers \ {p}, PairAt(p, q),
           In(p)' => In(p), In(q)' => In(q),
           expected'[p] = expected[p], expected'[q] = expected[q],
           sess'[p] = sess[p], sess'[q] = sess[q], p \in secrets[q] => p \in secrets'[q],
           Joined(p, q) => Joined(p, q)', Joined(q, p) => Joined(q, p)',
           KeyTo(q, p) => KeyTo(q, p)',
           KeyFrom(p) => KeyFrom(p)' \/ KeyTo(q, p)',
           q \in members' /\ q \in overtaken => q \in overtaken',
           q \in overtaken' \/ (Settled(p, q) => Settled(p, q)'),
           q \in overtaken' \/ (KeyFrom(q) => KeyFrom(q)' \/ Settled(p, q)')
    PROVE  PairAt(p, q)'
<1>1. SentAt(p, q)'
    BY DEF PairAt, SentAt, Reached, Sent, Trusts
<1>2. AgreeAt(p, q)'
    BY DEF PairAt, AgreeAt, Agreeing, WillAnswer, Sent, Trusts, In
<1> QED BY <1>1, <1>2 DEF PairAt

(* One of the two is not in the room.                                       *)
LEMMA PairGone ==
    ASSUME NEW p, NEW q, ~In(p)' \/ ~In(q)'
    PROVE  PairAt(p, q)'
BY DEF PairAt, SentAt, AgreeAt

(* The same after a step.                                                   *)
LEMMA OnItsWayNext ==
    ASSUME NEW p, NEW q
    PROVE  /\ Joined(p, q)' <=> OnItsWay(Notice("joined", q), down'[p])
           /\ KeyTo(p, q)' <=> OnItsWay(Notice("key", q), down'[p])
           /\ KeyFrom(p)' <=> OnItsWay(Ask("key", NoToken), up'[p])
           /\ Settled(p, q)' <=> Settles(sess'[p][q], down'[p], q)
BY DEF Joined, KeyTo, KeyFrom, Settled, OnItsWay, Settles

(* What is on the way to a page, or from it, when more is put behind it.    *)
LEMMA HearsMore ==
    ASSUME Types, NEW p \in Peers, NEW q \in Peers, NEW f \in DownFrame,
           down'[p] = down[p] \/ down'[p] = Append(down[p], f)
    PROVE  /\ Joined(p, q) => Joined(p, q)'
           /\ KeyTo(p, q) => KeyTo(p, q)'
           /\ sess'[p] = sess[p] /\ f \notin {Notice("joined", q), Notice("left", q)} =>
                (Settled(p, q) => Settled(p, q)')
<1>1. down[p] \in Seq(DownFrame)
    BY DEF Types, DownTypes
<1>2. ASSUME NEW g, OnItsWay(g, down[p]) PROVE OnItsWay(g, down'[p])
  <2>1. OnItsWay(g, Append(down[p], f))
      BY <1>1, <1>2, OneMore
  <2> QED BY <1>2, <2>1
<1>3. ASSUME sess'[p] = sess[p], f \notin {Notice("joined", q), Notice("left", q)}, Settled(p, q)
      PROVE  Settles(sess'[p][q], down'[p], q)
    BY <1>1, <1>3, SettlesMore DEF Settled
<1> QED BY <1>2, <1>3, OnItsWayNext DEF Joined, KeyTo

LEMMA SendsMore ==
    ASSUME Types, NEW p \in Peers, NEW f \in UpFrame,
           up'[p] = up[p] \/ up'[p] = Append(up[p], f)
    PROVE  KeyFrom(p) => KeyFrom(p)'
<1>1. up[p] \in Seq(UpFrame)
    BY DEF Types, UpTypes
<1>2. ASSUME NEW g, OnItsWay(g, up[p]) PROVE OnItsWay(g, up'[p])
  <2>1. OnItsWay(g, Append(up[p], f))
      BY <1>1, <1>2, OneMore
  <2> QED BY <1>2, <2>1
<1>3. KeyFrom(p)' <=> OnItsWay(Ask("key", NoToken), up'[p])
    BY OnItsWayNext
<1> QED BY <1>2, <1>3 DEF KeyFrom

(* What a step of r, or about r, leaves the others.                         *)
OthersKeep(r) ==
    /\ members' \ {r} \subseteq members
    /\ (overtaken \cap members') \ {r} \subseteq overtaken'
    /\ \A x \in Peers \ {r} :
        /\ active'[x] = active[x] /\ expected'[x] = expected[x]
        /\ sess'[x] = sess[x] /\ secrets'[x] = secrets[x] /\ up'[x] = up[x]
        /\ \/ down'[x] = down[x]
           \/ \E kind \in {"joined", "left", "key"} : down'[x] = Append(down[x], Notice(kind, r))

LEMMA PairOthers ==
    ASSUME Types, AllPairs, NEW r \in Peers, OthersKeep(r),
           \A x \in Peers \ {r} : PairAt(r, x)' /\ PairAt(x, r)'
    PROVE  AllPairs'
<1> SUFFICES ASSUME NEW p \in Peers \ {r}, NEW q \in Peers \ {p, r} PROVE PairAt(p, q)'
    BY DEF AllPairs
<1>1. (In(p)' => In(p)) /\ (In(q)' => In(q))
    BY DEF In, OthersKeep
<1>2. ASSUME NEW x \in {p, q}
      PROVE  \E f \in DownFrame : f.about = r /\ (down'[x] = down[x] \/ down'[x] = Append(down[x], f))
  <2>1. \A kind \in {"joined", "left", "key"} : Notice(kind, r) \in DownFrame
      BY DEF Notice, DownFrame
  <2>2. \A kind : Notice(kind, r).about = r
      BY DEF Notice
  <2> QED BY <2>1, <2>2 DEF OthersKeep
<1>3. PICK f \in DownFrame : f.about = r /\ (down'[p] = down[p] \/ down'[p] = Append(down[p], f))
    BY <1>2
<1>4. PICK g \in DownFrame : g.about = r /\ (down'[q] = down[q] \/ down'[q] = Append(down[q], g))
    BY <1>2
<1>5. f \notin {Notice("joined", q), Notice("left", q)}
    BY <1>3 DEF Notice
<1>6. sess'[p] = sess[p] /\ sess'[q] = sess[q]
    BY DEF OthersKeep
<1>7. (Joined(p, q) => Joined(p, q)') /\ (Settled(p, q) => Settled(p, q)')
    BY <1>3, <1>5, <1>6, HearsMore
<1>8. (Joined(q, p) => Joined(q, p)') /\ (KeyTo(q, p) => KeyTo(q, p)')
    BY <1>4, HearsMore
<1>9. KeyFrom(p)' = KeyFrom(p) /\ KeyFrom(q)' = KeyFrom(q)
    BY DEF KeyFrom, OnItsWay, OthersKeep
<1>10. PairAt(p, q) /\ expected'[p] = expected[p] /\ expected'[q] = expected[q] /\ secrets'[q] = secrets[q]
    BY DEF AllPairs, OthersKeep
<1>11. q \in members' /\ q \in overtaken => q \in overtaken'
    BY DEF OthersKeep
<1> QED BY <1>1, <1>6, <1>7, <1>8, <1>9, <1>10, <1>11, PairStays

LEMMA PairOutside ==
    ASSUME Types, AllPairs, NEW r \in Peers, OthersKeep(r), ~In(r)'
    PROVE  AllPairs'
BY PairGone, PairOthers

LEMMA InvitePair ==
    ASSUME Types, AllPairs, NEW r \in Peers, Invite(r)
    PROVE  AllPairs'
<1>1. PICK t \in Tokens : IF online[r] THEN Send(r, Ask("invite", t)) ELSE UNCHANGED up
    BY DEF Invite
<1>2. Ask("invite", t) \in UpFrame
    BY DEF Ask, UpFrame
<1>3. /\ up'[r] = up[r] \/ up'[r] = Append(up[r], Ask("invite", t))
      /\ \A x \in Peers \ {r} : up'[x] = up[x]
    BY <1>1, <1>2, SendTyped DEF Types
<1>4. /\ active' = active /\ expected' = expected /\ sess' = sess /\ secrets' = secrets
      /\ down' = down /\ members' = members /\ overtaken' = overtaken
    BY DEF Invite, keys, relay
<1>5. \A x \in Peers : KeyFrom(x) => KeyFrom(x)'
    BY <1>2, <1>3, SendsMore DEF KeyFrom, OnItsWay
<1>6. ASSUME NEW p \in Peers, NEW q \in Peers \ {p} PROVE PairAt(p, q)'
  <2>1. PairAt(p, q)
      BY DEF AllPairs
  <2>2. In(p)' = In(p) /\ In(q)' = In(q)
      BY <1>4 DEF In
  <2>3. /\ Joined(p, q)' = Joined(p, q) /\ Joined(q, p)' = Joined(q, p)
        /\ KeyTo(q, p)' = KeyTo(q, p) /\ Settled(p, q)' = Settled(p, q)
      BY <1>4 DEF Joined, KeyTo, Settled, OnItsWay, Settles
  <2> QED BY <1>4, <1>5, <2>1, <2>2, <2>3, PairStays
<1> QED BY <1>6 DEF AllPairs

(* Entering, with whatever else that changes of the page that enters.       *)
LEMMA EnterPair ==
    ASSUME Types, RoomInv, AllPairs, NEW r \in Peers, NEW kind \in Entries, NEW t \in Tokens,
           Enter(r, kind, t), \A x \in Peers \ {r} : expected'[x] = expected[x]
    PROVE  AllPairs'
<1>1. r \notin members /\ members' = members /\ overtaken' = overtaken
  <2>1. Len(<<>>) = 0
      BY EmptySeq
  <2> QED BY <2>1 DEF Enter, RoomInv, PlaceAt, InactiveAt, relay
<1>2. Ask(kind, t) \in UpFrame
    BY DEF Ask, UpFrame, Entries
<1>3. \A x \in Peers \ {r} : up'[x] = up[x]
    BY <1>2, SendTyped DEF Enter, Types
<1>4. OthersKeep(r)
    BY <1>1, <1>3 DEF OthersKeep, Enter, Types, KeyTypes, PageTypes
<1> QED BY <1>1, <1>4, PairOutside DEF In

(* What is typed while there is no socket.                                  *)
LEMMA RedialPair ==
    ASSUME Types, Offline, AllPairs, NEW r \in Peers, Redial(r)
    PROVE  AllPairs'
<1>1. r \notin members /\ UNCHANGED <<members, overtaken, down, up, active>>
      /\ sess' = sess /\ secrets' = secrets
    BY DEF Redial, Offline, Inside, relay, keys
<1>2. OthersKeep(r)
    BY <1>1 DEF Redial, OthersKeep, Types, PinTypes
<1> QED BY <1>1, <1>2, PairOutside DEF In

LEMMA LeaveRoomPair ==
    ASSUME Types, AllPairs, NEW r \in Peers, LeaveRoom(r)
    PROVE  AllPairs'
<1>1. Ask("leave", NoToken) \in UpFrame
    BY DEF Ask, UpFrame
<1>2. \A x \in Peers \ {r} : up'[x] = up[x]
    BY <1>1, SendTyped DEF LeaveRoom, Types
<1>3. OthersKeep(r)
    BY <1>2 DEF OthersKeep, LeaveRoom, ResetRoomLocal, relay, Types, KeyTypes, PageTypes
<1>4. ~active'[r]
    BY DEF LeaveRoom, ResetRoomLocal, Types, PageTypes
<1> QED BY <1>3, <1>4, PairOutside DEF In

LEMMA OpenPair ==
    ASSUME Types, Offline, AllPairs, NEW r \in Peers, Open(r)
    PROVE  AllPairs'
<1>1. Ask("create", held[r]) \in UpFrame
    BY DEF Types, PageTypes, Ask, UpFrame
<1>2. \A x \in Peers \ {r} : up'[x] = up[x]
    BY <1>1, SendTyped DEF Open, Types
<1>3. OthersKeep(r)
    BY <1>2 DEF OthersKeep, Open, relay, Types, KeyTypes
<1>4. r \notin members'
    BY DEF Open, Offline, Inside, relay
<1> QED BY <1>3, <1>4, PairOutside DEF In

LEMMA DepartPair ==
    ASSUME Types, AllPairs, NEW r \in Peers, Departs(r)
    PROVE  AllPairs'
<1>1. /\ \A x \in Peers \ {r} : up'[x] = up[x] /\ down'[x] = down[x]
      /\ members' = members \ {r} /\ overtaken' = overtaken \ {r}
    BY DepartsGone
<1>2. \A x \in Peers \ {r} :
          /\ active'[x] = active[x] /\ expected'[x] = expected[x]
          /\ sess'[x] = sess[x] /\ secrets'[x] = secrets[x]
    BY DEF Departs, Drop, Teardown, Reload, ReceiveBye, CloseStatus, keys, Types, KeyTypes, PinTypes
<1>3. OthersKeep(r)
    BY <1>1, <1>2 DEF OthersKeep
<1> QED BY <1>1, <1>3, PairOutside DEF In

(* An old socket is seen to close: a page that is in the room with a new    *)
(* one is overtaken by it, and no key is lost with it.                      *)
LEMMA ServeClosePair ==
    ASSUME Types, AllPairs, NEW r \in Peers, ServeClose(r)
    PROVE  AllPairs'
<1> DEFINE f == Notice("left", r)
<1>1. f \in DownFrame
    BY DEF Notice, DownFrame
<1>2. \A x \in Peers : down'[x] = down[x] \/ down'[x] = Append(down[x], f)
    BY BroadcastTyped DEF ServeClose, Types
<1>3. /\ active' = active /\ expected' = expected /\ sess' = sess /\ secrets' = secrets
      /\ up' = up /\ members' = members /\ overtaken' = overtaken \cup ({r} \cap members)
    BY DEF ServeClose, page, keys
<1>5. ASSUME NEW p \in Peers, NEW q \in Peers \ {p}, In(p), In(q) PROVE PairAt(p, q)'
  <2>1. q \in overtaken' \/ f \notin {Notice("joined", q), Notice("left", q)}
      BY <1>3, <1>5 DEF Notice, In
  <2>2. /\ Joined(p, q) => Joined(p, q)'
        /\ q \in overtaken' \/ (Settled(p, q) => Settled(p, q)')
      BY <1>1, <1>2, <1>3, <2>1, HearsMore
  <2>3. (Joined(q, p) => Joined(q, p)') /\ (KeyTo(q, p) => KeyTo(q, p)')
      BY <1>1, <1>2, HearsMore
  <2>4. KeyFrom(p)' = KeyFrom(p) /\ KeyFrom(q)' = KeyFrom(q)
      BY <1>3 DEF KeyFrom, OnItsWay
  <2>5. PairAt(p, q)
      BY DEF AllPairs
  <2> QED BY <1>3, <1>5, <2>2, <2>3, <2>4, <2>5, PairStays
<1>6. \A x : In(x)' = In(x)
    BY <1>3 DEF In
<1> QED BY <1>5, <1>6, PairGone DEF AllPairs
-----------------------------------------------------------------------------
(* What a page makes of a frame, as to one of its peers.                    *)
LEMMA ReceiveSession ==
    ASSUME Types, NEW r \in Peers, Receive(r), NEW q \in Peers, Head(down[r]).kind # "closed"
    PROVE  \/ /\ sess'[r][q] = sess[r][q]
              /\ Head(down[r]) \notin {Notice("joined", q), Notice("left", q)}
              /\ Head(down[r]) = Notice("key", q) => ~Trusts(r, q)
           \/ Head(down[r]) = Notice("joined", q) /\ Sent(r, q)' /\ SendKey(r)
           \/ Head(down[r]) = Notice("left", q) /\ ~Sent(r, q)'
           \/ /\ Head(down[r]) = Notice("key", q)
              /\ sess'[r][q] = ReadySession /\ q \in secrets'[r] \cup BadKeys
              /\ Sent(r, q) \/ SendKey(r)
<1> DEFINE frame == Head(down[r])
<1> DEFINE x == frame.about
<1>0. x \in Peers /\ frame \in DownFrame /\ sess[r] \in Sessions
    BY ArrivesTyped DEF Receive, Types, KeyTypes, DownFrame
<1>1. frame.kind \in {"joined", "left", "key"} => frame = Notice(frame.kind, x)
    BY <1>0 DEF Notice, DownFrame
<1>2. CASE ReceiveJoined(r, x) /\ frame.kind = "joined"
  <2>1. sess'[r] = PeerJoined(sess[r], x) /\ SendKey(r)
      BY <1>2 DEF ReceiveJoined, Types, KeyTypes
  <2>2. IF x = q THEN Sent(r, q)' ELSE sess'[r][q] = sess[r][q]
      BY <1>0, <2>1 DEF PeerJoined, Sessions, Fresh, Sent
  <2> QED BY <1>1, <1>2, <2>1, <2>2 DEF Notice
<1>3. CASE ReceiveLeft(r, x) /\ frame.kind = "left"
  <2>1. sess'[r] = PeerLeft(sess[r], x)
      BY <1>3 DEF ReceiveLeft, Types, KeyTypes
  <2>2. IF x = q THEN ~Sent(r, q)' ELSE sess'[r][q] = sess[r][q]
      BY <1>0, <2>1 DEF PeerLeft, Sessions, NoSession, Fresh, Sent
  <2> QED BY <1>1, <1>3, <2>2 DEF Notice
<1>4. CASE ReceiveKey(r, x) /\ frame.kind = "key"
  <2>1. sess'[r] = KeyReceived(sess[r], x) /\ (Sent(r, x) \/ SendKey(r))
      /\ x \in secrets'[r] \cup BadKeys
      BY <1>0, <1>4 DEF ReceiveKey, Derive, MustAnswer, Sent, Types, KeyTypes
  <2>2. sess'[r][q] = IF x = q THEN ReadySession ELSE sess[r][q]
      BY <1>0, <2>1 DEF KeyReceived, Sessions
  <2> QED BY <1>1, <1>4, <2>1, <2>2 DEF Notice
<1>5. CASE IgnoreKey(r, x) /\ frame.kind = "key"
    BY <1>1, <1>5 DEF IgnoreKey, keys, Notice
<1> QED BY <1>2, <1>3, <1>4, <1>5 DEF Receive

LEMMA ReceivePair ==
    ASSUME Types, RoomInv, AllPairs, NEW r \in Peers, Receive(r)
    PROVE  AllPairs'
<1> DEFINE frame == Head(down[r])
<1>1. /\ down[r] # <<>> /\ down[r] \in Seq(DownFrame) /\ down'[r] = Tail(down[r])
      /\ \A x \in Peers \ {r} : down'[x] = down[x]
    BY ArrivesTyped DEF Receive, Arrives, Types, DownTypes
<1>2. up' = up \/ SendKey(r)
    BY DEF Receive, ReceiveJoined, ReceiveLeft, ReceiveKey, IgnoreKey
<1>3. /\ up'[r] = up[r] \/ up'[r] = Append(up[r], Ask("key", NoToken))
      /\ \A x \in Peers \ {r} : up'[x] = up[x]
    BY <1>2, SendKeyTyped DEF Types
<1>4. members' = members /\ overtaken' = overtaken
    BY DEF Receive, relay
<1>5. \A x \in Peers \ {r} :
          /\ sess'[x] = sess[x] /\ secrets'[x] = secrets[x]
          /\ active'[x] = active[x] /\ expected'[x] = expected[x]
    BY ReceiveElsewhere DEF Receive, ResetRoomLocal, Types, PageTypes, PinTypes
<1>6. OthersKeep(r)
    BY <1>1, <1>3, <1>4, <1>5 DEF OthersKeep
<1>7. CASE ~In(r)
  <2>1. active'[r] => active[r]
      BY DEF Receive, ResetRoomLocal, Types, PageTypes
  <2> QED BY <1>4, <1>6, <1>7, <2>1, PairOutside DEF In
<1>8. CASE In(r)
  <2>1. frame.kind # "closed"
    <3>1. frame = down[r][1] /\ 1 \in 1 .. Len(down[r])
        BY <1>1, SeqFirst
    <3> QED BY <1>8, <3>1 DEF In, RoomInv, PlaceAt, ClosedAt
  <2>2. active' = active /\ expected' = expected
      BY <2>1 DEF Receive
  <2>3. KeyFrom(r) => KeyFrom(r)'
    <3>1. Ask("key", NoToken) \in UpFrame
        BY DEF Ask, UpFrame
    <3> QED BY <1>3, <3>1, SendsMore
  <2>4. ASSUME SendKey(r) PROVE KeyFrom(r)'
    <3>1. Ask("key", NoToken) \in UpFrame /\ up[r] \in Seq(UpFrame)
        BY DEF Ask, UpFrame, Types, UpTypes
    <3>2. up'[r] = Append(up[r], Ask("key", NoToken))
        BY <1>8, <2>4, <3>1, SendTyped DEF SendKey, In, Types
    <3>3. OnItsWay(Ask("key", NoToken), Append(up[r], Ask("key", NoToken)))
        BY <3>1, OneMore
    <3> QED BY <3>2, <3>3, OnItsWayNext
  <2>5. secrets[r] \subseteq secrets'[r]
      BY <2>1 DEF Receive, ReceiveJoined, ReceiveLeft, ReceiveKey, IgnoreKey, Derive, keys,
         Types, KeyTypes
  <2>6. ASSUME NEW x \in Peers
        PROVE  /\ Joined(r, x) => frame = Notice("joined", x) \/ Joined(r, x)'
               /\ KeyTo(r, x) => frame = Notice("key", x) \/ KeyTo(r, x)'
    <3>1. \A g : OnItsWay(g, down[r]) => g = frame \/ OnItsWay(g, down'[r])
        BY <1>1, OneLess
    <3> QED BY <3>1, OnItsWayNext DEF Joined, KeyTo
  <2>7. ASSUME NEW x \in Peers \ {r}
        PROVE  /\ Joined(x, r)' = Joined(x, r) /\ KeyTo(x, r)' = KeyTo(x, r)
               /\ KeyFrom(x)' = KeyFrom(x) /\ Settled(x, r)' = Settled(x, r)
               /\ Sent(x, r)' = Sent(x, r) /\ In(x)' = In(x) /\ In(r)' = In(r)
      BY <1>1, <1>3, <1>4, <1>5, <2>2
         DEF Joined, KeyTo, KeyFrom, Settled, Sent, In, OnItsWay, Settles
  <2>8. ASSUME NEW x \in Peers \ {r}
        PROVE  \/ /\ sess'[r][x] = sess[r][x]
                  /\ frame \notin {Notice("joined", x), Notice("left", x)}
                  /\ frame = Notice("key", x) => ~Trusts(r, x)
               \/ frame = Notice("joined", x) /\ KeyFrom(r)'
               \/ frame = Notice("left", x) /\ ~Sent(r, x)'
               \/ /\ frame = Notice("key", x) /\ sess'[r][x] = ReadySession
                  /\ x \in secrets'[r] \cup BadKeys
                  /\ Sent(r, x) \/ KeyFrom(r)'
      BY <2>1, <2>4, ReceiveSession
  <2>9. \A x \in Peers : Trusts(r, x)' = Trusts(r, x) /\ Trusts(x, r)' = Trusts(x, r)
      BY <2>2 DEF Trusts
  <2>10. \A x : /\ Notice("joined", x) # Notice("key", x) /\ Notice("joined", x) # Notice("left", x)
                /\ Notice("left", x) # Notice("key", x)
      BY DEF Notice
  <2>11. ASSUME NEW x \in Peers \ {r}, In(x) PROVE SentAt(r, x)'
    <3> SUFFICES ASSUME Trusts(x, r), Sent(r, x)', ~KeyFrom(r)' PROVE Reached(r, x)'
        BY <2>9 DEF SentAt, Reached
    <3>1. frame # Notice("joined", x)
        BY <2>8, <2>10
    <3>2. Sent(r, x)
        BY <2>8, <2>10 DEF Sent
    <3>3. Reached(r, x)
        BY <1>8, <2>11, <3>2 DEF AllPairs, PairAt, SentAt
    <3> QED BY <1>5, <2>3, <2>6, <2>7, <3>1, <3>3 DEF Reached
  <2>12. ASSUME NEW x \in Peers \ {r}, In(x) PROVE SentAt(x, r)'
    <3> SUFFICES ASSUME Trusts(r, x), Sent(x, r) PROVE Reached(x, r)'
        BY <2>7, <2>9 DEF SentAt
    <3>1. Reached(x, r)
        BY <1>8, <2>12 DEF AllPairs, PairAt, SentAt
    <3>2. frame = Notice("key", x) => x \in secrets'[r] \cup BadKeys
        BY <2>8, <2>10
    <3> QED BY <2>5, <2>6, <2>7, <3>1, <3>2 DEF Reached
  <2>13. ASSUME NEW x \in Peers \ {r}, In(x), x \notin overtaken PROVE AgreeAt(r, x)'
    <3> SUFFICES ASSUME Trusts(r, x), Trusts(x, r) PROVE Agreeing(r, x)'
        BY <2>9 DEF AgreeAt
    <3>1. Agreeing(r, x)
        BY <1>8, <2>13 DEF AllPairs, PairAt, AgreeAt
    <3>2. ASSUME Settled(r, x) PROVE Settled(r, x)'
      <4>1. frame = Notice("key", x) => sess'[r][x] = ReadySession
          BY <2>8, <2>10
      <4>2. sess[r][x] = ReadySession =>
                frame \in {Notice("joined", x), Notice("left", x)} \/ sess'[r][x] = ReadySession
          BY <2>8
      <4>3. Settles(sess'[r][x], Tail(down[r]), x)
          BY <1>1, <3>2, <4>1, <4>2, SettlesLess DEF Settled
      <4> QED BY <1>1, <4>3, OnItsWayNext
    <3>3. frame = Notice("joined", x) => KeyFrom(r)'
        BY <2>8, <2>10
    <3> QED BY <2>3, <2>6, <2>7, <3>1, <3>2, <3>3 DEF Agreeing, WillAnswer
  <2>14. ASSUME NEW x \in Peers \ {r}, In(x), r \notin overtaken PROVE AgreeAt(x, r)'
    <3> SUFFICES ASSUME Trusts(r, x), Trusts(x, r), ~KeyFrom(r)' PROVE Agreeing(x, r)'
        BY <2>9 DEF AgreeAt, Agreeing
    <3>1. Agreeing(x, r)
        BY <1>8, <2>14 DEF AllPairs, PairAt, AgreeAt
    <3>2. frame # Notice("joined", x)
        BY <2>8, <2>10
    <3>3. ASSUME WillAnswer(r, x) PROVE WillAnswer(r, x)'
      <4>1. ~Sent(r, x)' /\ frame # Notice("key", x)
          BY <2>8, <2>10, <3>3 DEF WillAnswer, Sent
      <4> QED BY <2>6, <2>7, <3>3, <4>1 DEF WillAnswer
    <3> QED BY <2>3, <2>6, <2>7, <3>1, <3>2, <3>3 DEF Agreeing
  <2>15. ASSUME NEW x \in Peers \ {r} PROVE PairAt(r, x)' /\ PairAt(x, r)'
      BY <1>4, <2>7, <2>11, <2>12, <2>13, <2>14, PairGone DEF PairAt, AgreeAt
  <2> QED BY <1>6, <2>15, PairOthers
<1> QED BY <1>7, <1>8

LEMMA ServeKeeps ==
    ASSUME Types, NEW r \in Peers, Serve(r)
    PROVE  /\ OthersKeep(r)
           /\ down'[r] = down[r]
           /\ active' = active /\ expected' = expected /\ sess' = sess /\ secrets' = secrets
<1>1. \A x \in Peers \ {r} : up'[x] = up[x]
    BY TailTyped DEF Serve, Types
<1>2. members' \ {r} \subseteq members /\ down'[r] = down[r]
    BY ServeDelivers
<1>4. (overtaken \cap members') \ {r} \subseteq overtaken'
    BY DEF Serve, ServeFirst, ServeRejoin, ServeJoin, Admit, ServeLeave, ServeKey, ServeInvite, relay
<1>3. ASSUME NEW x \in Peers \ {r}
      PROVE  \/ down'[x] = down[x]
             \/ \E kind \in {"joined", "left", "key"} : down'[x] = Append(down[x], Notice(kind, r))
  <2>1. ASSUME NEW kind \in {"joined", "left", "key"}, Broadcast(kind, r, members \ {r})
        PROVE  down'[x] = down[x] \/ down'[x] = Append(down[x], Notice(kind, r))
      BY <2>1, BroadcastTyped DEF Types
  <2>2. \/ down' = down
        \/ \E kind \in {"joined", "left", "key"} : Broadcast(kind, r, members \ {r})
      BY DEF Serve, ServeFirst, ServeRejoin, ServeJoin, Admit, ServeLeave, ServeKey, ServeInvite
  <2> QED BY <2>1, <2>2
<1> QED BY <1>1, <1>2, <1>3, <1>4 DEF OthersKeep, Serve, page, keys

(* A page is let in: it has sent no key, and whoever is there is told.      *)
LEMMA AdmittedPair ==
    ASSUME Types, RoomInv, AllPairs, NEW r \in Peers, Serve(r), up[r][1].kind \in Entries,
           r \in members'
    PROVE  AllPairs'
<1>1. Outside(r) /\ Head(up[r]).kind \in Entries
    BY ServedPlace
<1>2. members' = {r} \/ Admit(r)
    BY <1>1 DEF Serve, ServeFirst, ServeRejoin, ServeJoin, Refused, relay, Entries, Outside
<1>3. ASSUME NEW x \in Peers \ {r} PROVE ~Sent(r, x)'
    BY <1>1, ServeKeeps DEF Outside, Sent
<1>4. ASSUME NEW x \in Peers \ {r}, In(x)' PROVE Joined(x, r)'
  <2>1. x \in members' /\ Admit(r)
      BY <1>2, <1>4 DEF In
  <2>2. down'[x] = Append(down[x], Notice("joined", r))
      BY <2>1, BroadcastTyped DEF Admit, Types
  <2>3. Notice("joined", r) \in DownFrame /\ down[x] \in Seq(DownFrame)
      BY DEF Notice, DownFrame, Types, DownTypes
  <2>4. OnItsWay(Notice("joined", r), Append(down[x], Notice("joined", r)))
      BY <2>3, OneMore
  <2> QED BY <2>2, <2>4, OnItsWayNext
<1>5. ASSUME NEW x \in Peers \ {r} PROVE PairAt(r, x)' /\ PairAt(x, r)'
  <2>1. SentAt(r, x)' /\ AgreeAt(r, x)'
      BY <1>3, <1>4 DEF SentAt, AgreeAt, Agreeing
  <2>2. SentAt(x, r)' /\ AgreeAt(x, r)'
      BY <1>3, <1>4 DEF SentAt, Reached, AgreeAt, Agreeing, WillAnswer
  <2> QED BY <2>1, <2>2 DEF PairAt
<1> QED BY <1>5, ServeKeeps, PairOthers

(* The key of a page in the room reaches everybody else there.              *)
LEMMA ServeKeyPair ==
    ASSUME Types, AllPairs, NEW r \in Peers, Serve(r), ServeKey(r)
    PROVE  AllPairs'
<1>1. /\ OthersKeep(r) /\ down'[r] = down[r] /\ members' = members /\ overtaken' = overtaken
      /\ active' = active /\ expected' = expected /\ sess' = sess /\ secrets' = secrets
    BY ServeKeeps DEF ServeKey, relay
<1>2. ASSUME NEW x \in Peers \ {r}, In(x) PROVE PairAt(r, x)' /\ PairAt(x, r)'
  <2> DEFINE f == Notice("key", r)
  <2>1. down'[x] = Append(down[x], f)
      BY <1>2, BroadcastTyped DEF ServeKey, In, Types
  <2>2. f \in DownFrame /\ down[x] \in Seq(DownFrame)
      BY DEF Notice, DownFrame, Types, DownTypes
  <2>3. KeyTo(x, r)' /\ Settled(x, r)'
    <3>1. OnItsWay(f, Append(down[x], f)) /\ Settles(sess'[x][r], Append(down[x], f), r)
        BY <2>2, OneMore, SettlesMore
    <3> QED BY <2>1, <3>1, OnItsWayNext
  <2>4. Joined(x, r) => Joined(x, r)'
      BY <2>1, <2>2, HearsMore
  <2>5. /\ Joined(r, x)' = Joined(r, x) /\ KeyTo(r, x)' = KeyTo(r, x)
        /\ Settled(r, x)' = Settled(r, x)
      BY <1>1 DEF Joined, KeyTo, Settled, OnItsWay, Settles
  <2>6. KeyFrom(x)' = KeyFrom(x)
      BY <1>1 DEF OthersKeep, KeyFrom, OnItsWay
  <2>7. In(x)' = In(x) /\ In(r)' = In(r)
      BY <1>1 DEF In
  <2>8. PairAt(r, x) /\ PairAt(x, r)
      BY DEF AllPairs
  <2> QED BY <1>1, <2>3, <2>4, <2>5, <2>6, <2>7, <2>8, PairStays
<1>3. \A x : In(x)' = In(x)
    BY <1>1 DEF In
<1> QED BY <1>1, <1>2, <1>3, PairGone, PairOthers

LEMMA ServePair ==
    ASSUME Types, Offline, RoomInv, AllPairs, NEW r \in Peers, Serve(r)
    PROVE  AllPairs'
<1>1. CASE r \notin members'
    BY <1>1, ServeKeeps, PairOutside DEF In
<1>2. CASE r \in members' /\ up[r][1].kind \in Entries
    BY <1>2, AdmittedPair
<1>3. CASE ServeKey(r)
    BY <1>3, ServeKeyPair
<1>4. CASE r \in members' /\ up[r][1].kind \notin Entries /\ ~ServeKey(r)
  <2>1. Head(up[r]) = up[r][1] /\ members' \subseteq members
      BY <1>4, ServedPlace
  <2>2. /\ Head(up[r]).kind = "invite"
        /\ ServeInvite(r, Head(up[r]).token) \/ UNCHANGED <<down, relay>>
      BY <1>4, <2>1 DEF Serve, Refused, ServeLeave, Inside, Entries, relay
  <2>3. /\ down' = down /\ members' = members /\ overtaken' = overtaken /\ OthersKeep(r)
        /\ active' = active /\ expected' = expected /\ sess' = sess /\ secrets' = secrets
      BY <2>2, ServeKeeps DEF ServeInvite, relay
  <2>4. KeyFrom(r) => KeyFrom(r)'
    <3>1. up[r] \in Seq(UpFrame) /\ up[r] # <<>> /\ up'[r] = Tail(up[r])
        BY TailTyped DEF Serve, Types, UpTypes
    <3>2. Head(up[r]) # Ask("key", NoToken)
        BY <2>2 DEF Ask
    <3>3. OnItsWay(Ask("key", NoToken), up[r]) => OnItsWay(Ask("key", NoToken), Tail(up[r]))
        BY <3>1, <3>2, OneLess
    <3> QED BY <3>1, <3>3, OnItsWayNext DEF KeyFrom
  <2>5. \A x \in Peers \ {r} : KeyFrom(x)' = KeyFrom(x)
      BY <2>3 DEF OthersKeep, KeyFrom, OnItsWay
  <2>6. \A p, q : /\ Joined(p, q)' = Joined(p, q) /\ KeyTo(p, q)' = KeyTo(p, q)
                  /\ Settled(p, q)' = Settled(p, q) /\ In(p)' = In(p)
      BY <2>3 DEF Joined, KeyTo, Settled, OnItsWay, Settles, In
  <2>7. ASSUME NEW x \in Peers \ {r} PROVE PairAt(r, x)' /\ PairAt(x, r)'
    <3>1. PairAt(r, x) /\ PairAt(x, r)
        BY DEF AllPairs
    <3> QED BY <2>3, <2>4, <2>5, <2>6, <3>1, PairStays
  <2> QED BY <2>3, <2>7, PairOthers
<1> QED BY <1>1, <1>2, <1>3, <1>4

LEMMA NextPair ==
    Types /\ Offline /\ RoomInv /\ AllPairs /\ [Next]_vars => AllPairs'
<1> SUFFICES ASSUME Types, Offline, RoomInv, AllPairs, [Next]_vars PROVE AllPairs'
    OBVIOUS
<1>1. CASE UNCHANGED vars
    BY <1>1 DEF vars, page, keys, relay, AllPairs, PairAt, SentAt, AgreeAt, In, Trusts, Sent,
       Reached, Agreeing, WillAnswer, Joined, KeyTo, KeyFrom, Settled, OnItsWay, Settles
<1>2. CASE Expire \/ Restart
  <2>1. members' = {}
      BY <1>2 DEF Expire, Restart
  <2> QED BY <2>1, PairGone DEF In, AllPairs
<1>3. ASSUME NEW p \in Peers, CreateRoom(p) PROVE AllPairs'
    BY <1>3, EnterPair DEF CreateRoom, Entries
<1>4. ASSUME NEW p \in Peers, JoinRoom(p) PROVE AllPairs'
  <2>1. PICK t \in Invites(p) : Enter(p, "join", t) /\ expected' = [expected EXCEPT ![p] = links[t]]
      BY <1>4 DEF JoinRoom
  <2>2. \A x \in Peers \ {p} : expected'[x] = expected[x]
      BY <2>1 DEF Types, PinTypes
  <2> QED BY <2>1, <2>2, EnterPair DEF Invites, Entries
<1> QED BY <1>1, <1>2, <1>3, <1>4, InvitePair, RedialPair, LeaveRoomPair, OpenPair, DepartPair,
           ReceivePair, ServePair, ServeClosePair DEF Next, Departs

LEMMA PairsAgree == Types /\ RoomInv /\ AllPairs => Agreement
<1> SUFFICES ASSUME Types, RoomInv, AllPairs, NEW p \in members, NEW q \in members,
                    p # q, Calm(p), Calm(q), Trusts(p, q), Trusts(q, p), q \notin overtaken
             PROVE  IsReady(p, q)
    BY DEF Agreement
<1>1. p \in Peers /\ q \in Peers \ {p}
    BY DEF Types, RelayTypes
<1>2. Len(<<>>) = 0
    BY EmptySeq
<1>3. In(p) /\ In(q)
    BY <1>1, <1>2 DEF RoomInv, PlaceAt, InactiveAt, Calm, In
<1>4. Agreeing(p, q)
    BY <1>1, <1>3 DEF AllPairs, PairAt, AgreeAt
<1>5. sess[p][q] = ReadySession
    BY <1>4, NothingOnItsWay DEF Agreeing, WillAnswer, Joined, KeyTo, KeyFrom, Settled, Calm
<1> QED BY <1>5 DEF IsReady, ReadySession

(* Whatever joins, reconnects, reloads and answers crossed, and whenever    *)
(* the relay sees an old socket close: two pages in the room that trust     *)
(* each other are ready for each other as soon as nothing is on its way to  *)
(* or from either, but for who was overtaken by its old socket's close, for *)
(* every number of pages.                                                   *)
THEOREM AlwaysAgreement == Spec => []Agreement
BY PairsAgree, InitTypes, NextTypes, InitOffline, NextOffline, InitRoom, NextRoom,
   InitPair, NextPair, PTL DEF Spec
=============================================================================
