# NullKey: specifications, model checks and proofs

NullKey is an end-to-end encrypted chat: browsers hold the keys, and a relay
server (`backend/src`) keeps rooms in memory and passes frames between their
members. This directory holds TLA+ specifications translated from that code,
the TLC configurations that check them on small instances, and proofs that
TLAPS checks for every instance.

- [1 The system](#1-the-system): inventory of the parts and what is hard about each
- [2 Plan](#2-plan): the order in which this was built
- [3 The modules and the code](#3-the-modules-and-the-code)
- [4 What the runs show](#4-what-the-runs-show)
- [5 What is proved](#5-what-is-proved)
- [6 What is not modelled](#6-what-is-not-modelled)
- [7 Running it](#7-running-it)

## 1 The system

### Relay server (backend/src)

| part | state | operations | used by |
|---|---|---|---|
| Room store, `rooms/manager.ts`, `rooms/room.ts` | per room id: list of clients, creation and activity times, map token -> '' or the fingerprint it is bound to | addRoom, addClientToRoom, removeClientFromRoom, broadcastToRoom, verify/bind/addInviteToken, cleanupExpiredRooms | handler, forwarder, cleanup, HTTP routes (counts) |
| WebSocket handler, `ws/handler.ts` | per connection: roomId, fingerprint, violations; the replay guard and the rate buckets | one handler per event, `sendError`, `handleClientDisconnect` | `ws` callbacks 'message' and 'close' |
| Message forwarder, `relay/forwarder.ts` | none | forward to a room or to one fingerprint | handler |
| Replay guard, in `handler.ts` | fingerprint -> nonce -> time | checkAndMark, purge | handler |
| Rate limiters, `handler.ts` (messages per fingerprint) and `server.ts` (upgrades per IP) | key -> (count, window start) | check and count, delete, the pass over stale buckets | handler, verifyClient |
| Frame validation, `ws/validation.ts` | none | one predicate per event | handler |
| Cleanup, `ttl/cleanup.ts`, `ttl/scheduler.ts` | one interval | start, stop, one pass | server start and SIGTERM |
| Connection gate, `server.ts` | connections per IP | verifyClient, 'connection', 'close', SIGTERM | `ws` |

Everything is in one Node process: a handler runs to completion, so the
concurrency is the *order* of frames from different sockets, of the 'close'
events of sockets (seconds after the peer has gone, or never noticed), of the
timer, and of the clock against all of them. The parts meet in shared
records: `client.roomId` (written by the handlers of that connection) against
`room.clients` (written by those handlers and by the cleanup); the client's
fingerprint, which the room's list, the token map, the replay guard and the
rate buckets all key on, while membership is keyed on the socket. A user has
more than one socket whenever it reconnects, and that is where the two keys
part.

What makes each part correct:

- room store: capacity, no double listing, a removed client is out; a token
  lets in one identity; expiry removes the room, its tokens and every live
  member in one go, and happens in the end;
- handler: what a connection believes about its room agrees with the room's
  list; every change of membership is announced to whoever stays; a client
  that exhausts its violations is cut off whichever refusal came last;
- forwarder: a message reaches the recipient if the recipient is there;
- replay guard: only what was accepted within the TTL is refused, and, as the
  documents have it, all of that (which the code does not keep to, section 4);
- rate limiters: a bound over any stretch of time, no unearned refusal, and
  nobody refused for ever;
- connection gate: counts are the connections there are, the limit per IP
  holds, the process ends after SIGTERM.

### Browser client (frontend)

| part | state | operations |
|---|---|---|
| `src/socket/client.ts` WebSocketClient | socket, connect timer, reconnect timer, queue of at most 100 frames, `shouldReconnect` | connect, disconnect, teardown, send/queue/flush/clear, createRoom, joinRoom, leaveRoom, resume |
| `services/peer-session.service.ts` | per fingerprint: state of the key exchange | onRoomJoined, onPeerJoined, onKeyReceived, markSharedSecretReady, onPeerLeft, onDisconnected, onLeaveRoom |
| `src/crypto/session.ts` | own key pair, shared secret per fingerprint | establishSharedSecret, getSharedSecret, generateInviteToken |
| `app/page.tsx` | active room, peers, expected fingerprint, invite token held, messages | callbacks of the socket, handlers of the user's actions, with awaits inside |
| `src/storage/index.ts` | identity in IndexedDB, shared by all tabs | saveKeyPair, loadKeyPair, clearKeyPair |

Hard here: awaits (encryption) between reading and using the room, the peers
and the socket; timers that outlive the connection they were armed for; the
queue across a change of room; reconnection against the relay's view of the
same user; key exchange in every order of joins, leaves and reconnects; three
records of who can be talked to (`peers`, the sessions, the shared secrets)
that are reset at different times. What makes the parts correct: one live
socket; frames that travel only with the room they were meant for; two pages
that stay get ready for each other and stop sending keys; whoever is ready
is there and can be encrypted for; what is delivered can be decrypted.

`hooks/`, four of the five services and several components are an earlier
structure that the page does not import.

`PROJECT.json` lists every component and, under `hazards`, each of these
difficulties at its line.

## 2 Plan

The order followed, most important behaviour first; every item is done.

1. `RoomManager` (the room store as operators on room records), `FixedWindow`,
   `ReplayGuard`: the parts.
2. `Relay`: the handlers over them; `RoomAccess`: what the relay promises about
   who is in which room and what a token is worth; `Relay` implements it.
3. `Admission` (the two guards a message passes, with a log), `MessageHistory`
   (`Relay` with a log): history variables for the properties that relate a
   state to what was accepted or relayed before.
4. `SocketClient`: `src/socket/client.ts` and the part of the page that drives it.
5. `PeerSession`: the pages' key exchange over ordered connections, with what
   they see of the relay; `FileFrames`: sizes on the way from page to relay;
   `ChatPage`: messages and files of the pages of `PeerSession`, with `FileFrames`.
6. `ConnectionGate`: `server.ts`; its buckets implement `FixedWindow`.
7. `KeyStore`: the tabs of one browser and their key pair.
8. Proofs: `RelayProofs` (types), `MembershipProofs` (membership, and the
   refinement of `RoomAccess`), `MessageProofs` (violations, idle rooms),
   `SocketProofs`, `GateProofs`, `AdmissionProofs`, `PeerProofs`, `ChatProofs`.

What could come next: more than one room in `PeerSession`, without its assumption
about entering (section 3).

`RECURSIVE` is used nowhere: every module can be proved about.

## 3 The modules and the code

| module | models | state |
|---|---|---|
| `RoomManager` | `rooms/manager.ts`, `rooms/room.ts` | none: operators from room to room |
| `FixedWindow` | `checkMessageRateLimit`, `checkRateLimit` | `buckets` |
| `ReplayGuard` | class `ReplayGuard` | `seen` |
| `Relay` | `ws/handler.ts` over the above, `relay/forwarder.ts`, the cleanup | `rooms`, `ready`, `roomId`, `fingerprint`, `violations`, `seen`, `buckets`, `sent` |
| `RoomAccess` | abstract: what `Relay` promises about rooms | `open`, `members`, `invites` |
| `Admission` | the rate limit, the file check and the replay guard of `handleSendMessage` in their order, without the rooms, with a log | `buckets`, `seen`; `passed`, `since` |
| `MessageHistory` | `Relay` with a log | `hushed` |
| `ConnectionGate` | `server.ts`: verifyClient, 'connection', 'close', the pass over stale buckets, SIGTERM | `stage`, `from`, `counts`, `rateBuckets`, `stopping`, `exited` |
| `SocketClient` | `frontend/src/socket/client.ts`; of `app/page.tsx` the room it is in and what it asks for | `ws`, `sock`, `timer`, `reconnect`, `intentional`, `asked`, `queue`, `wire`; `room`, `session`, `mounted`, `captured` |
| `PeerSession` | `peer-session.service.ts`, `crypto/session.ts`, the callbacks and room handlers of `app/page.tsx`; of the relay one room | `online`, `lost`, `active`, `held`, `stored`, `expected`, `pinned`, `shown`; `sess`, `secrets`; `up`, `down`, `links`; `exists`, `bound`, `members`, `stray`, `ghosts`; `overtaken` (history); `moves`, `exits` (bounds) |
| `FileFrames` | the sizes in `handleFileSelect`, `handleSendFile`, `config.ts`, `validation.ts`, `handler.ts` | none |
| `ChatPage` | sending, receiving and downloading in `app/page.tsx`, over `PeerSession` | `job`, `files` |
| `KeyStore` | `storage/index.ts`, the page's start | `db`, `stage`, `pair`, `used` |
| `MCRelay`, `MCMessage`, `MCSocket`, `MCPeer`, `MCGate` | instances for TLC | |
| `RelayProofs`, `MembershipProofs`, `MessageProofs`, `AdmissionProofs`, `GateProofs`, `SocketProofs`, `PeerProofs`, `ChatProofs` | proofs | |

### The relay

**One handler, one action per outcome.** Node runs a handler without yielding,
so a handler's calls are composed in one step. `handleRoomJoin`, for example, is
`JoinRoom` and `RefuseJoin`; the four reasons for refusing (no room, token,
full, already listed) end in the same `sendError` and are one guard,
`~CanJoin`. A refused join has nevertheless taken over the fingerprint of the
payload, as in the code. A payload that does not validate is `BadRequest`
(a violation), a frame that is no JSON or too large is `Malformed` (answered,
not a violation). A frame that changes and sends nothing (typing or leave
outside a room) is a stuttering step and has no action.

**Sockets.** `ready` is NEW before the connection, then the `readyState` of the
socket. CLOSING covers everything from the first sign of the end on either
side to the handler's 'close' callback, which is `Disconnect`. `ws` still
delivers frames it has received in that time, so every request is enabled in
OPEN and CLOSING (`Receiving`); a frame sent to a socket that is not OPEN is
lost (`Deliver`). The keep-alive ping and the closing timeout of `ws` appear
only as `BeginClose` and `Disconnect` happening at some time. A client that
reconnects is a new socket with the same `Identity`.

**Frames out.** `sent` is what the step put on each socket. No handler sends two
frames to one socket, so one per socket is enough. Nothing reads `sent`; it is
there for the properties.

**Time.** A `Tick` ages rooms, nonces and windows by one unit. Stamps are kept
as ages, and an age stops one past the bound it is compared with, where the
code's comparison can no longer change: this is the only bound on time and it
loses nothing. The buckets and nonces the code forgets lazily are those whose
age is past their bound, so "outdated" and "absent" are one state. Only
`ConnectionGate` tells them apart, since its pass removes buckets at twice the
window; that this makes no difference is `ImplementsFixedWindow`.

**Abstractions.** A room id, token, nonce or fingerprint is a model value; user
names, ciphertexts and texts of answers are left out, as are public keys in
`key:exchange` (the relay copies them). Clients announce their own fingerprint
or, where `MayOmit` says so, none in create and join, which the validation
allows. `MaxParticipants`, `MaxViolations` are taken to be at least 1.
`violations` stops at `MaxViolations`, past which the code's test cannot change.

**Refinement.** `ImplementsRoomAccess` reads `open` as the ids with a room,
`members` as the sets of the lists and `invites` as the token maps. A create on a
free id is `Open`, a rejoin or a join `Enter`, leave and disconnect `Depart`,
`invite:create` `Mint`, a cleanup `Close` of the set of rooms that expired together;
every other step stutters.

**The guards.** The rate limit goes by the fingerprint the connection has announced, and one that
announced none is not limited (`handler.ts:81`); the replay guard goes by the fingerprint in the
message. `Admission` takes both to name the same user, as the page's frames do, and says of every message
whether its connection has announced itself. What counts for the limit and is then refused
is `BadFile` (a file without a size or too large) or `Replayed`; neither is marked. `Leave` and `Disconnect`
may be those of any socket of the user: the purge goes by fingerprint.

**The gate.** A socket is "free", then "dialed" (a TCP connection), then "open"
(a WebSocket). `ws` calls verifyClient and emits 'connection' in one turn of the event
loop, so both are `Upgrade`; a connection that is gone by then has been counted by
the rate limit and not by `connectionCounts`, which is the second disjunct.
`Sweep` may happen at any time, which covers the code's five minutes. Origins are
records of what `isOriginAllowed` compares.

### The browser

**The socket.** An attempt is one `new WebSocket` together with the
ten-second timer `connect()` arms for it; the timer is in `timer` until it fires or
a handler of its own socket clears it. `teardown()` takes the handlers off and
sets `ws` to null in one go, so only the socket of `ws` can cause a callback, and
a socket that was let go of may be forgotten: its attempt is used again once its
timer is gone. The continuation of `await connect()` runs as a microtask after
`onopen`, so a user's request that waits for the connection (`asked`) is part of
`Established`, after what the 'open' listener and `flushQueue` send. `wire` holds
what was given to the present socket. `error` and `close` of a failed attempt come
in one task and are one action, `Closed`. `room:create` and `room:join` do not differ for the client.

A frame is marked with the room whose id it carries. What the page calls for on the spot, keys, invites,
`typing:start`, carries the page's room at the time of the call (`Send`). The id of a message or a file is
that of before the encryption, and `typing:stop` comes from a timer two seconds later:
`Capture` remembers the room, and `SendLate` sends, in any room, in none, or after the page was taken down, a frame
marked "late" with it. Such a frame of an earlier room does travel after another was entered; the
relay refuses a message with another room's id and counts a violation, and passes `typing:stop` on to
the room its sender is in. `FramesFollowTheirRoom` is therefore about the frames called for on the
spot, with late ones among them on the wire and in the queue. `AskRoom` has no guard on the page's room: a join that
waited for the connection may resume after the 'open' listener went back to a stored room.

**The pages and the room.** `PeerSession` names a page by its fingerprint and lets any number of them meet in
one room. `up[p]` and `down[p]` are the frames on the way to and from
the relay, in order, as a WebSocket keeps them; `Serve(p)` is the relay handling the
first of `up[p]`, `Receive(p)` the page's `onmessage`. The user's actions are `CreateRoom`,
`JoinRoom`, `Redial` (a room asked for without a socket: the page dials first), `Invite`, `LeaveRoom`;
the environment's are `Drop`, `Teardown`, `Reload`,
`Expire`, `Restart` (of the relay, which loses everything). `Open` is the 'open' listener, which asks for the
active room again with `room:create` and the token held.

A socket ends in one of three ways. With a 'close' event, by `Drop`, or by the close frame ("bye")
that the relay puts behind `room:closed` when the room expires (`ReceiveBye`): the page hears of it, the
sessions are reset (`CloseStatus`) and the client tries again. By `Teardown`, the connect timer of this
attempt or of one that was replaced (`client.ts:115`, the run `socket_timeout`): nobody tells the page, its sessions
stay READY, and it is `lost`, for the client tries no more until the user asks for something. By `Reload`.

The relay may handle the close of an old socket at any time, before or after the page is back: `ghosts` counts the
sockets of a page for which `ServeClose` is still to come, and `stray` are the pages whose socket believes
itself in a room that expired, also when a room was created again under the id, into which their
leave, key or close is then announced as in the code. A member one of whose old sockets is seen to close after it was
let in again is `overtaken`, until it is let in anew: the others are told that it left and
drop it, though it is there. The code cannot tell the two sockets of a page apart, and this is
the one exception in `Agreement` and `Meet`.

`sess` keeps for each peer the state, whether the key is known and whether the
secret is ready, as the service does. `establishSharedSecret` is async and not awaited, but has
no await inside: where the key yields a secret, the secret is stored before `markSharedSecretReady` is called, so
`ReceiveKey` is one step. Where it yields none, the rejection is heard by nobody and the session is
READY all the same: `BadKeys` are the pages whose key is of that kind, any set in the theorems and none in the runs,
as the pages announce keys of the right length. `pinned` is the expected fingerprint
in sessionStorage. A join stores the one expected *before* it (the closure's), so that a reload restores what
an earlier, failed join left; creating a room keeps that one in memory too.

Reductions of `PeerSession`, each an assumption of the results about it:

- one room; a page enters it only when what it sent before has been
  answered (`Enter`), because frames name no room the page looks at, and an
  old answer would be taken for the new room's. A hazard records this.
- what a page has sent when its socket drops is handled before the drop or lost;
- the room is never full.

**Messages and files.** `Submit` is the code up to the first await; one `Encrypted` per recipient
is what follows an await, in any order and with
anything in between, with the room and recipients read before. A page sends one
thing at a time, so there is one job per page. The key pairs do not change, so a ciphertext is told by its sender and
receiver, and whoever has a secret with the sender can decrypt. `DeliveredReadable` speaks of pages that have not left the room, since one that has, its
leave still on its way to the relay, has dropped what it expected, and whoever comes then can be
anybody. Texts and files travel in the same connections as the handshake, so `PeerSession` has
their frames among its types: `Kinds` says which there are, none in its own runs. `RefuseFile`
decides by `FileFrames`, with numbers for sizes, whether a file that the page offers exceeds
the relay's limits after envelope, tag and base64. The page's limit and the relay's are configured apart
("Must stay in sync", `page.tsx:24-27`): that the first is at most the second is an assumption
(`FileConstants`), and so is that the header and the frame around the ciphertext, with file and user names no
code bounds, fit the 8192 bytes that `config.ts` adds for them.

**Tabs.** A transaction of IndexedDB is atomic, and `KeyStore` lets anything happen between
`loadKeyPair`, generating a pair and `saveKeyPair`.

## 4 What the runs show

| run | instance | properties |
|---|---|---|
| `relay_rooms` | 2 sockets, 2 rooms, 1 token, lifetime and idle timeout 0, `FairSpec` | `TypeOK`, `EvictionComplete`, `ImplementsRoomAccess`, `RoomsExpire`, `GhostsVanish` |
| `relay_reconnect` | 3 sockets of 2 users, 1 room of 2 places, 2 tokens, `c1` may omit its fingerprint | `OpenMembersListed`, `RoomsWellFormed`, `ClosedNotListed`, `JoinersOwnTokens`, `MembershipAnnounced` |
| `message_rooms` | 2 sockets, 1 room, 1 nonce, 2 violations, 2 messages per window | `ViolatorsLoseTheirSocket`, `BroadcastKeepsRoom` |
| `admission` | 2 users, 2 nonces, limit 2, window 2, TTL 1 | `AtMostTwoWindows`, `RefusalsEarned`, `OnlyReplaysRefused` |
| `connection_gate` | 3 sockets, 2 IPs, 2 connections and 2 requests per IP, window 2, `FairSpec` | `TypeOK`, `CountsMatch`, `LimitKept`, `ImplementsFixedWindow`, `NoLockout`, `Drains` |
| `socket_client` | 3 attempts, 2 rooms, queue of 2, 4 frames a connection | `TypeOK` (with the limit of the queue), `OneLiveSocket`, `RetryDisturbsNothing`, `RoomAskedHere`, `FramesFollowTheirRoom`, `KeepsTrying` |
| `peer_session` | 3 pages, 2 tokens, 3 moves, 1 exit | `TypeOK`, `Agreement`, `ReadyPresent`, `ReadyUsable` |
| `chat_page` | 2 pages, 1 token, 3 moves, 2 exits, texts and files of up to 10 bytes, `FairChatSpec` | `ChatTypeOK`, `FilesOpen`, `OnlyEmptyFilesRefused`, `DeliveredReadable`, `Meet`, `Quiet` |

In the relay's runs the users are alice, with socket `c1` and its successor `c2`, and
bob, with `c3`.

**Why these bounds.** The hazards of the relay are about two sockets of one user, two users
in a room, two rooms of one socket, and a socket that outlives a room: three
sockets, two users and two rooms contain each of them, and each run takes the
pair it is about. Two places with three sockets make a full room, and one
token reaches all its states (absent, unused, bound to the presenter, bound to
somebody else). A timeout of 0 or 1 lets a room be young, at the bound and past
it. With one token and one nonce each of their comparisons goes both ways;
`relay_reconnect` has two tokens and `admission` two nonces, since they are about
telling them apart. A window of 2 is the shortest in which a request can be older
than the present unit and not at the edge. `Nonces` is empty where no property is about messages.
Three sockets from one IP reach past its limit of two, and the second IP shows that their counts are kept apart.

Three attempts of a client are the present one and two with stale timers. Four frames on a
connection hold a request, a frame, the next request and its frame; a queue of two
holds a leave and a frame after it, or overflows.

`MaxMoves` bounds the attempts to enter a room and the messages, `MaxExits` the rooms left, sockets lost,
pages loaded again, expiries and restarts; what the
program does about them is not bounded, nor are reconnections, keys and invites (but for the tokens). Three moves let three pages meet,
and one exit lets one of them come back, with its old socket seen to close before, while or after it does; two exits
let both of two pages do so, or one of them twice, with a message under way.
The largest number of tokens needed is two: the room's and that of an invite.
The file sizes are small, the header is taken at its
longest, and the limit of the relay is computed from them as in `config.ts`,
so that 0, 1, and the last size allowed occur.

**View and symmetry.** The views of the relay drop `sent`. No action reads it, so two states that
differ only in it have the same future; the properties that mention it are
action properties (they read `sent'`) and TLC evaluates those on every step it
generates. The symmetries of tokens and pages are used with safety properties only,
which quantify over all of them. No run with a liveness property uses symmetry.

**Fairness.** *Relay:* `FairSpec` assumes that the clock advances, that the cleanup interval
keeps firing (`setInterval`, never stopped while the server serves) and that a
socket that is closing gets its 'close' event (`ws` destroys the connection 30
seconds after the close frame at the latest; a lost connection enters CLOSING
only when the operating system has given up on it). No client is assumed to send
or close anything. `RoomsExpire` needs the absolute lifetime: activity may postpone
idleness for ever. `GhostsVanish` is the mildest thing that holds of the places
that a connection leaves behind when it moves to another room without
`room:leave`: they last no longer than that room. *Gate:* the clock advances, and
the callback of `server.close()` is called. `Drains` has as its hypothesis that no connection lasts for
ever, because the code closes none at SIGTERM. *Pages:* frames on their
way arrive and are handled, a close frame too, the relay notices a closed socket at some time, and a page whose socket closed connects again
(the reconnect timer of `SocketClient`, which `KeepsTrying` is about); one that was torn down (`lost`) need not. `Meet`
speaks of pages that stay in the room from some time on without being overtaken by the close of an old socket. No user and no network is assumed to do anything,
and an encryption is not assumed to end.

**Deadlock.** The relay, the guards, the socket client and the tabs can always
move, and TLC checks that they can. `CHECK_DEADLOCK FALSE` is set where the system may rightly
stop: in the runs of the pages, when the moves are used up and every frame is handled, and in
`connection_gate`, when the process has exited.

**Each property can fail.** `PROJECT.json` pairs every property with a plausible
mistake in a definition that models code (the operators commented "Mutant of
..."); with it in place TLC finds the property violated.

### Disagreements between documents and code

Four runs state what a document or comment says and find it violated.

| run | says | does |
|---|---|---|
| `socket_timeout` | `socket/client.ts:114` the timeout rejects an attempt that does not open within 10 s | the timer of an attempt that was replaced closes the open connection of its successor, silently |
| `peer_trust` | `docs/crypto-design.md:90` additional peers are trusted on first key exchange | a page that came by an invite expects the inviter's fingerprint of everybody and drops the keys of a third page |
| `replayed_messages` | `docs/protocol.md:263-264`, `README.md:66`, `backend/README.md:130` duplicates (same nonce, same fingerprint) within the TTL are rejected | leaving or disconnecting, with any socket of the user, purges what is kept of its fingerprint (`handler.ts:394`, `409`), and the same message is accepted again |
| `two_tabs` | `README.md:33` open two tabs, create in one and join in the other | both tabs load one key pair, and each drops the other's key as its own |

## 5 What is proved

For every value of the constants that the named assumptions allow. They say that
placeholders lie outside the sets they stand outside of, that limits are naturals, and where the code
needs it that they are positive; `GateConstants` takes the set of sockets to be
finite (it is counted), and `FileConstants` that the page's limit for files is at most the relay's and that header and frame around a file
fit the 8192 bytes that `config.ts` allows for them. TLC evaluates all of them in the runs.

| theorem | property | module |
|---|---|---|
| `TypeCorrect` | `TypeOK` of the relay | `RelayProofs` |
| `OpenMembersAlwaysListed` | `OpenMembersListed` | `MembershipProofs` |
| `ClosedNeverListed` | `ClosedNotListed` | `MembershipProofs` |
| `RoomsAlwaysWellFormed` | `RoomsWellFormed` | `MembershipProofs` |
| `EvictionAlwaysComplete` | `EvictionComplete` | `MembershipProofs` |
| `JoinersAlwaysOwn` | `JoinersOwnTokens` | `MembershipProofs` |
| `MembershipAlwaysAnnounced` | `MembershipAnnounced` | `MembershipProofs` |
| `RelayImplementsAccess` | `ImplementsRoomAccess` | `MembershipProofs` |
| `ViolatorsAlwaysOut` | `ViolatorsLoseTheirSocket` | `MessageProofs` |
| `BroadcastAlwaysKeeps` | `BroadcastKeepsRoom` | `MessageProofs` |
| `OnlyReplaysAlwaysRefused` | `OnlyReplaysRefused` | `AdmissionProofs` |
| `AlwaysAtMostTwoWindows`, `RefusalsAlwaysEarned` | `AtMostTwoWindows`, `RefusalsEarned` | `AdmissionProofs` |
| `GateTypeCorrect` | `TypeOK` of the gate | `GateProofs` |
| `CountsAlwaysMatch` | `CountsMatch` | `GateProofs` |
| `LimitAlwaysKept` | `LimitKept` | `GateProofs` |
| `GateImplementsFixedWindow` | `ImplementsFixedWindow` | `GateProofs` |
| `ClientTypeCorrect` | `TypeOK` of the client | `SocketProofs` |
| `AlwaysOneLiveSocket` | `OneLiveSocket` | `SocketProofs` |
| `RetryNeverDisturbs` | `RetryDisturbsNothing` | `SocketProofs` |
| `AlwaysKeepsTrying` | `KeepsTrying` | `SocketProofs` |
| `RoomAlwaysAskedHere`, `FramesAlwaysFollow` | `RoomAskedHere`, `FramesFollowTheirRoom` | `SocketProofs` |
| `PeersTypeCorrect` | `TypeOK` of the pages | `PeerProofs` |
| `ReadyAlwaysUsable` | `ReadyUsable` | `PeerProofs` |
| `ReadyAlwaysPresent` | `ReadyPresent` | `PeerProofs` |
| `AlwaysAgreement` | `Agreement` | `PeerProofs` |
| `ChatTypeCorrect` | `ChatTypeOK` | `ChatProofs` |
| `HandshakeAmongMessages` | `ReadyUsable`, `ReadyPresent` and `Agreement`, with messages among the frames | `ChatProofs` |
| `DeliveredAlwaysReadable` | `DeliveredReadable` | `ChatProofs` |
| `FilesAlwaysOpen` | `FilesOpen` | `ChatProofs` |
| `OfferedFilesTaken` | `OnlyEmptyFilesRefused` | `ChatProofs` |

**The relay's invariants.** `TypeOK` is inductive. Its proof is one lemma per operator on rooms (each maps a
room to a room, and says what it does to the list) and one step per action.
What takes work is the client list: `AddClient` appends to a sequence and `Without`
removes a place, and the library's facts about sequences are assembled in
`AppendMembers`, `RemoveAtElements` and `WithoutMembers`.

The three properties of membership are not inductive one by one. `MembershipInv` joins them:

- `OpenMembersListed` alone is broken by `Accept`, if a socket could be in a room
  before it is opened, hence `NewInNoRoom`;
- `ClosedNotListed` needs `Disconnect` to take the socket out of its list, which
  removing *one* place does only if the socket is listed once, hence
  `RoomsWellFormed` (`WithoutMembers` has injectivity as its hypothesis);
- `RoomsWellFormed` is kept by the guard of `AddClient`, which every entering step
  goes through.

The steps fall into four kinds, each with its lemma: those that move nobody and
at most begin to close sockets (`SteadyStep`: all refusals, messages, typing, ticks),
those that let a socket into a room (`EnterStep`: create, rejoin, join), those that
take one out (`DepartLists`: leave, disconnect), and the cleanup, which closes every
open socket it strands.

**The relay's action properties and refinement** follow from `MembershipInv` and a second look at
the same kinds of steps, `StepKinds`: what each does to the room records. Only
the cleanup removes a room (`OnlyCleanupRemoves`), and it tells whoever is listed, which by
`OpenMembersListed` is every open socket that believes to be inside. No step takes a
token from its owner, and a join leaves one (`JoinersOwnTokens`). The refinement
maps each kind to one action of `RoomAccess` or a stutter; `Enter` needs the number of
members of a room to be the length of its list, which is `RoomsWellFormed`.

`ViolatorsLoseTheirSocket` says that a connection at the limit is not OPEN. That is
not inductive: a socket not yet opened could have used up its violations, and
`Accept` would open it. `Exhausted` therefore says CLOSING or CLOSED. One lemma says
that `Reject`, which every refusal goes through, closes the socket in the step
that reaches the limit, and one that every other step changes no count.
`BroadcastKeepsRoom` compares a room's idle age with the log: `Quieter`, in `QuietInv`, says
that the first never exceeds the second.

**The guards and the gate.** `OnlyReplaysRefused` needs `Mirrored`: what the replay guard
keeps about a pair is never more recent than what the log says, purges or not. The two properties
of the rate limiter speak of the last window and of connections that announced their fingerprint, the limiter of the window it is counting. `Paced` ties the log of
a sender, `passed[f][a]` being what the limiter let through in the last `a` units, to the bucket's age and count:
since the window began exactly as many got through as are counted, up to the limit,
and in what else lies within the length of a window at most the limit. What got through before a window began is thus bounded by
one limit, what got through in it by another. The log adds up as it goes, so no sum has to be
proved about. `CountsMatch` needs sockets in use to have an IP
(`InUseFrom`); its steps add or take one element of a finite set. The refinement of
`FixedWindow` maps a stale bucket and one that was removed to the same abstract bucket,
so `Sweep` is a stutter.

**The client.** `OneLiveSocket` and `RetryDisturbsNothing` are
inductive given the types. The two properties of rooms on the wire need each other
and the queue, and `TravelInv` joins them: while connected the queue is empty
(`QueueWaits`), otherwise what it holds was called for in the room the page is in, late frames
excepted (`QueueKeepsRoom`). `Established` is where they meet: a page in a room asks for it,
and that drops the queue before it is sent.

**The pages.** `ReadyUsable` is inductive with the types and `Offline`: a page without
a socket has nothing on its way and is in no list, so the sessions that a 'close' resets are not set again before
it is back. Sessions that outlive their socket are those of a page that a connect timer tore down, which is `lost` until it is
loaded again, or its user leaves and asks for another room. `ReadyPresent` needs
a description of what may still be under way, `RoomInv`, page by page:

- a request to enter is only ever the first frame to the relay, of a page outside (`EntryAt`);
- a page that has left is out, or its leave is on its way (`InactiveAt`);
- a page told that the room closed is out (`ClosedAt`), which is why a stale `room:closed` throws nobody out of a later room;
- the key of somebody whose sockets have all gone is followed by the news of it (`KeysAt`), so
  that a late key sets up a session that the next frame removes; with `ReadyAt` this is the property.

`Agreement` speaks of two pages with nothing on their way, and what leads there is the
question: `AllPairs` says what is still under way between every two pages. For a page `p` in the
room that expects nobody else than `q`, and `q` likewise and not overtaken, `AgreeAt` lists the ways in which `p` is ready for
`q` or will be:

- `p` is ready, or a key of `q` is among the frames to `p` with no news behind it that would undo it (`Settled`);
- the key of `q` is on its way to the relay (`KeyFrom`), or `q` is about to be told of `p` and will send it (`Joined`);
- `q` has not sent its key yet, and something that makes it answer is on its way to it (`WillAnswer`): a key
  of `p`, or the news of `q` at which `p` will send one.

`SentAt` is about keys that have been sent: if `p` has sent its key to `q`, then `q` has the secret, or the
key is on its way, or `p` is to hear of `q` again and send it anew. That is what keeps a page from
waiting for an answer to a key that was lost with a connection, and it needs `EntryAt` to say that a page outside the
room has sent no key. The late news of an old socket undoes what was agreed about its page only, and that page is then
overtaken (`ServeClosePair`). Each step appends a frame, removes the first one or changes one session, and
`OneMore`, `OneLess`, `SettlesMore` and `SettlesLess` say what that is to the frames of a pair.

**Messages and files.** Every step of `ChatPage` is a step of `PeerSession` or one that
appends a message behind what is on its way or takes one from the front (`ChatStep`), and
messages leave every other frame in its place (`RestOnItsWay`, `FramesShift`). So the pages' invariants
hold in `ChatPage` too, and `DeliveredReadable` is `SentAt` at the moment the relay passes a message on:
a page that holds the receiver for ready has sent it its key. `SentAt` has no exception for who was overtaken.

`FilesOpen` holds because a secret is only ever lost with a reload, which loses the messages too.
`OnlyEmptyFilesRefused` is arithmetic about `CeilDiv`: base64 of the envelope against
the factor 4/3 and the slack of 8192 bytes of `config.ts`.

**Only model-checked:** the liveness properties `RoomsExpire`, `GhostsVanish`, `NoLockout`, `Drains`,
`Meet` and `Quiet`: fairness is outside what the prover handles. Every safety property of a
passing run is also a theorem.

## 6 What is not modelled

- Cryptographic primitives and encodings: computations on bytes in libraries, without state.
- Rendering, the typing indicator's display, the QR dialog, `PwaRegister`; HTTP routes,
  logging, metrics, reading the environment: I/O.
- Code that nothing calls: `relay/message.ts`, the hooks and the services the page does not
  import, and single operations of modelled parts: `invalidateToken`,
  `canSendMessage`, the scheduler's one-shot methods, the client's `resume`, `clearKeyPair` (tests only).
- That SIGTERM ends the cleanup pass while connections last.
- Frame validation field by field: `Relay` chooses whether a frame is malformed, a bad request or well formed.
- The memory held by maps that the code prunes lazily or not at all.
- Of the pages: several rooms in a row with answers still on their way, and a second message
  submitted while the first is being encrypted.

## 7 Running it

    tlc -workers 2 -config RelayRooms.cfg MCRelay
    tlapm MembershipProofs.tla

`PROJECT.json` gives the module and configuration of every run. The longest,
`peer_session` with 4.4 million states and `chat_page` with 0.44 million and two
liveness properties, take one to three minutes on two workers.
