---------------------------- MODULE PeerSession ----------------------------
(***************************************************************************)
(* How the pages in a room agree on keys: the peer sessions of each page   *)
(* (frontend/services/peer-session.service.ts), the callbacks of the page  *)
(* that drive them (frontend/app/page.tsx), the shared secrets they end in *)
(* (frontend/src/crypto/session.ts), and of the relay what they can see:   *)
(* who may enter the room, and which frames are sent to whom.              *)
(*                                                                         *)
(* There is one room.  A page is named by its fingerprint, which survives  *)
(* a reload as its key pair does; a key:exchange is told by its sender.  A *)
(* connection carries frames in order both ways.  What a page has sent     *)
(* when its socket drops is handled before the drop or lost.               *)
(***************************************************************************)
EXTENDS Sequences, Integers

CONSTANTS
    Peers,     \* pages
    Nobody,    \* no fingerprint is expected
    Tokens,    \* invite tokens
    NoToken,   \* latestInviteTokenRef is ''
    BadKeys,   \* pages whose public key, as announced, yields no secret
    Kinds,     \* what pages send each other besides, which is for ChatPage
    MaxMoves,  \* bounds of the model: attempts to enter a room, and messages
    MaxExits   \* rooms left, sockets closed, pages loaded again, ends of the
               \* room and of the relay

ASSUME PeerConstants ==
    /\ Nobody \notin Peers
    /\ NoToken \notin Tokens
    /\ BadKeys \subseteq Peers
    /\ Kinds \subseteq {"text", "file"}
    /\ MaxMoves \in Nat
    /\ MaxExits \in Nat

VARIABLES
    online,    \* the socket of the page's WebSocketClient is open
    lost,      \* pages without a socket that will not try again by themselves
    active,    \* activeRoomIdRef is set, and the room is in sessionStorage
    held,      \* latestInviteTokenRef
    stored,    \* the invite token in sessionStorage
    expected,  \* expectedFingerprint of the page
    pinned,    \* the expected fingerprint in sessionStorage
    sess,      \* PeerSessionManager.sessions
    secrets,   \* SessionManager.sharedSecrets: the peers there is one with
    shown,     \* peers of the page
    up, down,  \* frames on the way to the relay and to the page
    links,     \* tokens handed out in invite links: who made them
    exists,    \* the relay has the room
    bound,     \* RoomManager.inviteTokens: NoToken when it knows no such token
    members,   \* pages whose socket is in the relay's list of the room
    stray,     \* pages whose socket the relay took for a member's until the
               \* room expired, and which has yet to hear of its end
    ghosts,    \* how many old sockets of a page, the room theirs, have a
               \* close that the relay has not handled
    overtaken, \* history: members one of whose old sockets was seen to close
               \* after they were let in again
    moves, exits

page == <<online, lost, active, held, stored, expected, pinned, shown>>
keys == <<sess, secrets>>
relay == <<exists, bound, members, stray, ghosts, overtaken>>
bounds == <<moves, exits>>
vars == <<page, keys, up, down, links, relay, bounds>>

(* A session has the peer's key, and the secret, exactly when it is READY.  *)
Fresh(state) == [state |-> state, key |-> FALSE, ready |-> FALSE]

ReadySession == [state |-> "READY", key |-> TRUE, ready |-> TRUE]

NoSession == Fresh("NONE")

Session == {Fresh("DISCONNECTED"), Fresh("ROOM_JOINED"), Fresh("KEY_SENT"), ReadySession}

NoSessions == [q \in Peers |-> NoSession]

Unused == Nobody

Ask(kind, t) == [kind |-> kind, token |-> t]
Notice(kind, q) == [kind |-> kind, about |-> q]

Message(kind, q) == [kind |-> kind, to |-> q]

UpFrame ==
    [kind : {"create", "join", "leave", "key", "invite"}, token : Tokens \cup {NoToken}]
        \cup [kind : Kinds, to : Peers]
DownFrame == [kind : {"joined", "left", "key", "closed", "bye"} \cup Kinds, about : Peers]

TypeOK ==
    /\ online \in [Peers -> BOOLEAN]
    /\ lost \subseteq Peers
    /\ active \in [Peers -> BOOLEAN]
    /\ held \in [Peers -> Tokens \cup {NoToken}]
    /\ stored \in [Peers -> Tokens \cup {NoToken}]
    /\ expected \in [Peers -> Peers \cup {Nobody}]
    /\ pinned \in [Peers -> Peers \cup {Nobody}]
    /\ sess \in [Peers -> [Peers -> {NoSession} \cup Session]]
    /\ secrets \in [Peers -> SUBSET Peers]
    /\ shown \in [Peers -> SUBSET Peers]
    /\ up \in [Peers -> Seq(UpFrame)]
    /\ down \in [Peers -> Seq(DownFrame)]
    /\ links \in [Tokens -> Peers \cup {Nobody}]
    /\ exists \in BOOLEAN
    /\ bound \in [Tokens -> Peers \cup {Unused, NoToken}]
    /\ members \subseteq Peers
    /\ stray \subseteq Peers
    /\ ghosts \in [Peers -> Nat]
    /\ overtaken \subseteq members
    /\ moves \in 0 .. MaxMoves
    /\ exits \in 0 .. MaxExits

Init ==
    /\ online = [p \in Peers |-> TRUE]
    /\ lost = {}
    /\ active = [p \in Peers |-> FALSE]
    /\ held = [p \in Peers |-> NoToken]
    /\ stored = [p \in Peers |-> NoToken]
    /\ expected = [p \in Peers |-> Nobody]
    /\ pinned = [p \in Peers |-> Nobody]
    /\ sess = [p \in Peers |-> NoSessions]
    /\ secrets = [p \in Peers |-> {}]
    /\ shown = [p \in Peers |-> {}]
    /\ up = [p \in Peers |-> <<>>]
    /\ down = [p \in Peers |-> <<>>]
    /\ links = [t \in Tokens |-> Nobody]
    /\ exists = FALSE
    /\ bound = [t \in Tokens |-> NoToken]
    /\ members = {}
    /\ stray = {}
    /\ ghosts = [p \in Peers |-> 0]
    /\ overtaken = {}
    /\ moves = 0
    /\ exits = 0
-----------------------------------------------------------------------------
(* The peer sessions.                                                       *)

(* Mutant of AllTo: the sessions stay as they are.                          *)
AllKept(sessions, state) == sessions

(* Mutant of AllTo: keys and secrets are not taken back.                    *)
AllRenamed(sessions, state) ==
    [q \in Peers |->
        IF sessions[q] = NoSession THEN NoSession ELSE [sessions[q] EXCEPT !.state = state]]

(* onRoomJoined and onDisconnected: every session there is starts again.    *)
AllTo(sessions, state) ==
    [q \in Peers |-> IF sessions[q] = NoSession THEN NoSession ELSE Fresh(state)]

(* onPeerJoined: a session, new or reset, whose key has been sent.          *)
PeerJoined(sessions, q) == [sessions EXCEPT ![q] = Fresh("KEY_SENT")]

(* onPeerLeft.                                                              *)
PeerLeft(sessions, q) == [sessions EXCEPT ![q] = NoSession]

(* Mutant of MustAnswer: a peer first heard of by its key is not answered.  *)
MustAnswerKnown(sessions, q) == sessions[q].state \notin {"NONE", "KEY_SENT", "READY"}

(* Mutant of MustAnswer: every key is answered.                             *)
MustAnswerAlways(sessions, q) == TRUE

(* onKeyReceived: our key has not been sent, so it is now.                  *)
MustAnswer(sessions, q) == sessions[q].state \notin {"KEY_SENT", "READY"}

(* onKeyReceived and, the secret derived, markSharedSecretReady.            *)
KeyReceived(sessions, q) == [sessions EXCEPT ![q] = ReadySession]

(* isReady.                                                                 *)
IsReady(p, q) == sess[p][q].state = "READY" /\ sess[p][q].ready
-----------------------------------------------------------------------------
(* The page.                                                                *)

Send(p, frame) == up' = [up EXCEPT ![p] = Append(@, frame)]

(* sendKeyExchange, with the room the page is in; a page that is in none    *)
(* sends a frame that the relay refuses.                                    *)
SendKey(p) == IF active[p] THEN Send(p, Ask("key", NoToken)) ELSE UNCHANGED up

Move ==
    /\ moves < MaxMoves
    /\ moves' = moves + 1
    /\ UNCHANGED exits

Exit ==
    /\ exits < MaxExits
    /\ exits' = exits + 1
    /\ UNCHANGED moves

(* What handleCreateRoom and handleJoinRoom have in common once connected.  *)
(* A user enters a room only after the relay has answered what the page     *)
(* sent before (an assumption of the model: its frames name no room).       *)
Enter(p, kind, t) ==
    /\ Move
    /\ online[p] /\ ~active[p]
    /\ up[p] = <<>> /\ down[p] = <<>>
    /\ active' = [active EXCEPT ![p] = TRUE]
    /\ held' = [held EXCEPT ![p] = t]
    /\ stored' = [stored EXCEPT ![p] = t]
    /\ shown' = [shown EXCEPT ![p] = {}]
    /\ sess' = [sess EXCEPT ![p] = AllTo(@, "ROOM_JOINED")]
    /\ Send(p, Ask(kind, t))
    /\ UNCHANGED <<online, lost, secrets, down, relay>>

(* generateInviteToken: a token nobody has made yet.                        *)
Unmade(t) == links[t] = Nobody

(* What a join that failed has left in expectedFingerprint stays there.     *)
CreateRoom(p) ==
    \E t \in Tokens :
        /\ \A u \in Tokens : Unmade(u)
        /\ links' = [links EXCEPT ![t] = p]
        /\ pinned' = [pinned EXCEPT ![p] = Nobody]
        /\ Enter(p, "create", t)
        /\ UNCHANGED expected

(* The invite links another page has made; a link carries its fingerprint.  *)
Invites(p) == {t \in Tokens : links[t] \in Peers \ {p}}

(* The closure stores the fingerprint that was expected before this join.   *)
JoinRoom(p) ==
    \E t \in Invites(p) :
        /\ Enter(p, "join", t)
        /\ expected' = [expected EXCEPT ![p] = links[t]]
        /\ pinned' = [pinned EXCEPT ![p] = expected[p]]
        /\ UNCHANGED links

(* A user asks for a room while the page has no socket: the page dials, and *)
(* a join has set the expected fingerprint by then.  What follows once it   *)
(* is connected is CreateRoom or JoinRoom, nothing if the attempt failed.   *)
Redial(p) ==
    /\ Move
    /\ ~online[p] /\ ~active[p]
    /\ lost' = lost \ {p}
    /\ \E q \in {expected[p]} \cup {links[t] : t \in Invites(p)} :
        expected' = [expected EXCEPT ![p] = q]
    /\ UNCHANGED <<online, active, held, stored, pinned, shown, keys, up, down, links, relay>>

(* The invite button: a new token, registered and held from now on; the one *)
(* in sessionStorage stays.  Without a socket the frame is queued, and the  *)
(* queue is dropped when the page asks for its room again.                  *)
Invite(p) ==
    /\ active[p]
    /\ \E t \in Tokens :
        /\ Unmade(t)
        /\ \E u \in Tokens : ~Unmade(u)
        /\ links' = [links EXCEPT ![t] = p]
        /\ held' = [held EXCEPT ![p] = t]
        /\ IF online[p] THEN Send(p, Ask("invite", t)) ELSE UNCHANGED up
    /\ UNCHANGED <<online, lost, active, stored, expected, pinned, shown, keys, down, relay,
                   bounds>>

(* resetRoomLocal; the shared secrets are kept.                             *)
ResetRoomLocal(p) ==
    /\ active' = [active EXCEPT ![p] = FALSE]
    /\ held' = [held EXCEPT ![p] = NoToken]
    /\ stored' = [stored EXCEPT ![p] = NoToken]
    /\ expected' = [expected EXCEPT ![p] = Nobody]
    /\ pinned' = [pinned EXCEPT ![p] = Nobody]
    /\ shown' = [shown EXCEPT ![p] = {}]
    /\ sess' = [sess EXCEPT ![p] = NoSessions]
    /\ UNCHANGED secrets

(* handleLeaveRoom: leaveRoom, which is not sent while offline.             *)
LeaveRoom(p) ==
    /\ Exit
    /\ active[p]
    /\ ResetRoomLocal(p)
    /\ IF online[p] THEN Send(p, Ask("leave", NoToken)) ELSE UNCHANGED up
    /\ UNCHANGED <<online, lost, down, links, relay>>

(* The socket opens: in a room, the page asks to be let in again, with the  *)
(* token it holds.                                                          *)
Open(p) ==
    /\ ~online[p]
    /\ p \notin lost
    /\ online' = [online EXCEPT ![p] = TRUE]
    /\ IF active[p]
       THEN /\ sess' = [sess EXCEPT ![p] = AllTo(@, "ROOM_JOINED")]
            /\ Send(p, Ask("create", held[p]))
       ELSE UNCHANGED <<sess, up>>
    /\ UNCHANGED <<lost, active, held, stored, expected, pinned, shown, secrets, down, links, relay,
                   bounds>>

Unplugged(ps) ==
    /\ online' = [p \in Peers |-> online[p] /\ p \notin ps]
    /\ up' = [p \in Peers |-> IF p \in ps THEN <<>> ELSE up[p]]
    /\ down' = [p \in Peers |-> IF p \in ps THEN <<>> ELSE down[p]]

(* The relay is left with a socket whose close it has yet to handle.        *)
Abandoned(p) ==
    /\ members' = members \ {p}
    /\ stray' = stray \ {p}
    /\ overtaken' = overtaken \ {p}
    /\ ghosts' = [ghosts EXCEPT ![p] = IF p \in members \cup stray THEN @ + 1 ELSE @]
    /\ UNCHANGED <<exists, bound>>

(* Mutant of CloseStatus: the sessions stay as they are.                    *)
CloseStatusUnheard(p) == UNCHANGED sess

(* The 'close' status: onDisconnected.                                      *)
CloseStatus(p) == sess' = [sess EXCEPT ![p] = AllTo(@, "DISCONNECTED")]

(* The socket closes.                                                       *)
Drop(p) ==
    /\ Exit
    /\ online[p]
    /\ Unplugged({p})
    /\ CloseStatus(p)
    /\ Abandoned(p)
    /\ UNCHANGED <<lost, active, held, stored, expected, pinned, shown, secrets, links>>

(* The connect timer, of this attempt or of one that was replaced: teardown *)
(* of what there is, an open socket included, without a word to the page.   *)
Teardown(p) ==
    /\ Exit
    /\ p \notin lost
    /\ lost' = lost \cup {p}
    /\ Unplugged({p})
    /\ Abandoned(p)
    /\ UNCHANGED <<active, held, stored, expected, pinned, shown, keys, links>>

(* The page is loaded again: what was in memory is gone, the key pair and   *)
(* the room in sessionStorage are not.                                      *)
Reload(p) ==
    /\ Exit
    /\ Unplugged({p})
    /\ lost' = lost \ {p}
    /\ held' = [held EXCEPT ![p] = stored[p]]
    /\ expected' = [expected EXCEPT ![p] = pinned[p]]
    /\ shown' = [shown EXCEPT ![p] = {}]
    /\ sess' = [sess EXCEPT ![p] = NoSessions]
    /\ secrets' = [secrets EXCEPT ![p] = {}]
    /\ Abandoned(p)
    /\ UNCHANGED <<active, stored, pinned, links>>

(* client:joined: the peer is shown, its session reset, our key sent.       *)
ReceiveJoined(p, q) ==
    /\ shown' = [shown EXCEPT ![p] = @ \cup {q}]
    /\ sess' = [sess EXCEPT ![p] = PeerJoined(@, q)]
    /\ SendKey(p)
    /\ UNCHANGED secrets

(* client:left.                                                             *)
ReceiveLeft(p, q) ==
    /\ shown' = [shown EXCEPT ![p] = @ \ {q}]
    /\ sess' = [sess EXCEPT ![p] = PeerLeft(@, q)]
    /\ UNCHANGED <<secrets, up>>

(* establishSharedSecret; getSharedSecret finds the secret from then on.    *)
(* Nobody waits for the promise: when the key yields no secret, the page    *)
(* goes on all the same.                                                    *)
Derive(p, q) == secrets' = [secrets EXCEPT ![p] = @ \cup ({q} \ BadKeys)]

Trusts(p, q) == expected[p] \in {Nobody, q}

(* handleKeyExchangeFromServer.                                             *)
ReceiveKey(p, q) ==
    /\ Trusts(p, q)
    /\ sess' = [sess EXCEPT ![p] = KeyReceived(@, q)]
    /\ Derive(p, q)
    /\ shown' = [shown EXCEPT ![p] = @ \cup {q}]
    /\ IF MustAnswer(sess[p], q) THEN SendKey(p) ELSE UNCHANGED up

(* A fingerprint other than the expected one: the key is not looked at.     *)
IgnoreKey(p, q) ==
    /\ ~Trusts(p, q)
    /\ UNCHANGED <<shown, keys, up>>

(* onmessage of the page's socket.                                          *)
Arrives(p) ==
    /\ down[p] # <<>>
    /\ down' = [down EXCEPT ![p] = Tail(@)]

Receive(p) ==
    /\ Arrives(p)
    /\ LET frame == Head(down[p]) IN
        \/ /\ \/ frame.kind = "joined" /\ ReceiveJoined(p, frame.about)
              \/ frame.kind = "left" /\ ReceiveLeft(p, frame.about)
              \/ frame.kind = "key" /\ ReceiveKey(p, frame.about)
              \/ frame.kind = "key" /\ IgnoreKey(p, frame.about)
           /\ UNCHANGED <<active, held, stored, expected, pinned>>
        \/ /\ frame.kind = "closed"
           /\ ResetRoomLocal(p)
           /\ UNCHANGED up
    /\ UNCHANGED <<online, lost, links, relay, bounds>>

(* The relay's close frame: what the page still sends is not waited for.    *)
ReceiveBye(p) ==
    /\ down[p] # <<>>
    /\ Head(down[p]).kind = "bye"
    /\ Unplugged({p})
    /\ CloseStatus(p)
    /\ Abandoned(p)
    /\ UNCHANGED <<lost, active, held, stored, expected, pinned, shown, secrets, links, bounds>>
-----------------------------------------------------------------------------
(* The relay.                                                               *)

(* broadcastToRoom, to every open socket but the sender's.                  *)
Broadcast(kind, p, to) ==
    down' = [q \in Peers |-> IF q \in to THEN Append(down[q], Notice(kind, p)) ELSE down[q]]

(* verifyInviteToken.                                                       *)
Verified(p, t) == bound[t] \in {Unused, p}

(* Mutant of Admit: nobody is told.                                         *)
AdmitSilently(p) ==
    /\ members' = members \cup {p}
    /\ overtaken' = overtaken \ {p}
    /\ UNCHANGED down

Admit(p) ==
    /\ members' = members \cup {p}
    /\ overtaken' = overtaken \ {p}
    /\ Broadcast("joined", p, members \ {p})

(* room:create of a room that is not there.                                 *)
ServeFirst(p, t) ==
    /\ ~exists
    /\ exists' = TRUE
    /\ bound' = [u \in Tokens |-> IF u = t THEN Unused ELSE NoToken]
    /\ members' = {p}
    /\ overtaken' = {}
    /\ UNCHANGED <<down, stray, ghosts>>

(* room:create of the room: the page rejoins.                               *)
ServeRejoin(p, t) ==
    /\ exists
    /\ Verified(p, t)
    /\ Admit(p)
    /\ UNCHANGED <<exists, bound, stray, ghosts>>

(* room:join.                                                               *)
ServeJoin(p, t) ==
    /\ exists
    /\ Verified(p, t)
    /\ Admit(p)
    /\ bound' = [bound EXCEPT ![t] = p]
    /\ UNCHANGED <<exists, stray, ghosts>>

(* client.roomId of the page's socket is the room, listed or not.           *)
Inside(p) == p \in members \cup stray

Refused(p, frame) ==
    \/ frame.kind = "create" /\ exists /\ ~Verified(p, frame.token)
    \/ frame.kind = "join" /\ ~(exists /\ Verified(p, frame.token))
    \/ frame.kind \in {"leave", "key", "invite"} /\ ~Inside(p)
    \/ frame.kind = "invite" /\ ~exists

ServeLeave(p) ==
    /\ Inside(p)
    /\ members' = members \ {p}
    /\ stray' = stray \ {p}
    /\ overtaken' = overtaken \ {p}
    /\ Broadcast("left", p, members \ {p})
    /\ UNCHANGED <<exists, bound, ghosts>>

ServeKey(p) ==
    /\ Inside(p)
    /\ Broadcast("key", p, members \ {p})
    /\ UNCHANGED relay

ServeInvite(p, t) ==
    /\ Inside(p) /\ exists
    /\ bound' = [bound EXCEPT ![t] = IF @ = NoToken THEN Unused ELSE @]
    /\ UNCHANGED <<down, exists, members, stray, ghosts, overtaken>>

Serve(p) ==
    /\ up[p] # <<>>
    /\ up' = [up EXCEPT ![p] = Tail(@)]
    /\ LET frame == Head(up[p]) IN
        \/ frame.kind = "create" /\ (ServeFirst(p, frame.token) \/ ServeRejoin(p, frame.token))
        \/ frame.kind = "join" /\ ServeJoin(p, frame.token)
        \/ frame.kind = "leave" /\ ServeLeave(p)
        \/ frame.kind = "key" /\ ServeKey(p)
        \/ frame.kind = "invite" /\ ServeInvite(p, frame.token)
        \/ Refused(p, frame) /\ UNCHANGED <<down, relay>>
    /\ UNCHANGED <<page, keys, links, bounds>>

(* handleClientDisconnect of an old socket.                                 *)
ServeClose(p) ==
    /\ ghosts[p] > 0
    /\ ghosts' = [ghosts EXCEPT ![p] = @ - 1]
    /\ overtaken' = overtaken \cup ({p} \cap members)
    /\ Broadcast("left", p, members)
    /\ UNCHANGED <<page, keys, up, links, exists, bound, members, stray, bounds>>

(* The room's time is over: everybody listed is told, nobody is from then   *)
(* on, and the sockets are closed.                                          *)
Expire ==
    /\ Exit
    /\ exists
    /\ exists' = FALSE
    /\ bound' = [t \in Tokens |-> NoToken]
    /\ members' = {}
    /\ stray' = stray \cup members
    /\ overtaken' = {}
    /\ down' = [p \in Peers |->
                  IF p \in members
                  THEN down[p] \o <<Notice("closed", p), Notice("bye", p)>>
                  ELSE down[p]]
    /\ UNCHANGED <<page, keys, up, links, ghosts>>

(* The relay is started again: it keeps everything in memory.               *)
Restart ==
    /\ Exit
    /\ exists
    /\ Unplugged(Peers)
    /\ sess' = [p \in Peers |-> IF online[p] THEN AllTo(sess[p], "DISCONNECTED") ELSE sess[p]]
    /\ exists' = FALSE
    /\ bound' = [t \in Tokens |-> NoToken]
    /\ members' = {}
    /\ stray' = {}
    /\ ghosts' = [p \in Peers |-> 0]
    /\ overtaken' = {}
    /\ UNCHANGED <<lost, active, held, stored, expected, pinned, shown, secrets, links>>
-----------------------------------------------------------------------------
Next ==
    \/ Expire
    \/ Restart
    \/ \E p \in Peers :
        \/ CreateRoom(p) \/ JoinRoom(p) \/ Redial(p) \/ Invite(p) \/ LeaveRoom(p)
        \/ Open(p) \/ Drop(p) \/ Teardown(p) \/ Reload(p)
        \/ Receive(p) \/ ReceiveBye(p) \/ Serve(p) \/ ServeClose(p)

Spec == Init /\ [][Next]_vars

(* Nothing is on the way to or from the page.                               *)
Calm(p) == up[p] = <<>> /\ down[p] = <<>>

OnItsWay(frame, frames) == \E i \in 1 .. Len(frames) : frames[i] = frame

(* Two pages in the room that trust each other are ready for each other as  *)
(* soon as nothing is on its way to or from either, whatever joins,         *)
(* reconnects, reloads and answers crossed: neither is left waiting for the *)
(* other's key (onPeerJoined, onKeyReceived).  Only who was overtaken by    *)
(* the close of its own old socket may have been dropped by the others.     *)
Agreement ==
    \A p, q \in members :
        p # q /\ Calm(p) /\ Calm(q) /\ Trusts(p, q) /\ Trusts(q, p)
            => IsReady(p, q) \/ q \in overtaken

(* docs/crypto-design.md:90: "Additional peers in multi-party rooms are     *)
(* trusted on first key exchange": any two pages in the room get ready.     *)
TrustedOnFirstExchange ==
    \A p, q \in members : p # q /\ Calm(p) /\ Calm(q) => IsReady(p, q)

(* A page in the room holds nobody for ready whose sockets have all left    *)
(* it, unless it is about to be told: no late key of somebody gone, no      *)
(* session that outlived a disconnect makes it encrypt for the absent.      *)
ReadyPresent ==
    \A p \in members, q \in Peers :
        IsReady(p, q) => Inside(q) \/ ghosts[q] > 0 \/ OnItsWay(Notice("left", q), down[p])

(* Whoever is ready is listed, so that handleSendMessage finds it among     *)
(* `peers`, and has a shared secret if its key yields one; and a page in a  *)
(* room is connected then, unless a connect timer has torn down its socket: *)
(* page, service and client keep these in different places.                 *)
ReadyUsable ==
    \A p, q \in Peers :
        IsReady(p, q) =>
            /\ q \in shown[p]
            /\ q \in secrets[p] \cup BadKeys
            /\ active[p] => online[p] \/ p \in lost
=============================================================================
