----------------------------- MODULE ChatProofs -----------------------------
(***************************************************************************)
(* Messages and files, for any number of pages and any limits.  FilesOpen  *)
(* is inductive: a file is kept only with a secret of its sender, and the  *)
(* one step that drops secrets, a reload, drops the files with them.  That *)
(* the relay takes what the page offers is arithmetic alone.  The rest is  *)
(* PeerProofs again: each step is one of PeerSession or of messages alone, *)
(* and these leave every other frame in its place.                         *)
(***************************************************************************)
EXTENDS ChatPage, PeerProofs, TLAPS

Maps ==
    /\ secrets = [p \in Peers |-> secrets[p]]
    /\ files = [p \in Peers |-> files[p]]

OpenInv == Maps /\ \A p \in Peers : files[p] \subseteq secrets[p]

LEMMA InitOpen == ChatInit => OpenInv
BY DEF ChatInit, Init, OpenInv, Maps

(* The steps that keep secrets and take no file in.                         *)
LEMMA KeepsSecrets ==
    ASSUME OpenInv, Maps', \A p \in Peers : secrets[p] \subseteq secrets'[p],
           \A p \in Peers : files'[p] \subseteq files[p]
    PROVE  OpenInv'
<1> SUFFICES ASSUME NEW p \in Peers PROVE files'[p] \subseteq secrets'[p]
    BY DEF OpenInv
<1>1. files[p] \subseteq secrets[p] /\ secrets[p] \subseteq secrets'[p] /\ files'[p] \subseteq files[p]
    BY DEF OpenInv
<1> QED BY <1>1

LEMMA EmptiedFiles ==
    ASSUME Maps, NEW p \in Peers, files' = [files EXCEPT ![p] = {}]
    PROVE  /\ files' = [q \in Peers |-> files'[q]]
           /\ files'[p] = {}
           /\ \A q \in Peers : files'[q] \subseteq files[q]
BY DEF Maps

LEMMA ReceiveSecrets ==
    ASSUME Maps, NEW p \in Peers, Receive(p)
    PROVE  /\ secrets' = [q \in Peers |-> secrets'[q]]
           /\ \A q \in Peers : secrets[q] \subseteq secrets'[q]
<1>1. secrets' = secrets \/ \E q : Derive(p, q)
    BY DEF Receive, ReceiveJoined, ReceiveLeft, ReceiveKey, IgnoreKey, ResetRoomLocal, keys
<1> QED BY <1>1 DEF Maps, Derive

LEMMA ReceiveMessageOpen ==
    ASSUME OpenInv, NEW p \in Peers, ReceiveMessage(p)
    PROVE  OpenInv'
<1> DEFINE q == Head(down[p]).about
<1>1. secrets' = secrets
    BY DEF ReceiveMessage, keys
<1>2. files' = files \/ (q \in secrets[p] /\ files' = [files EXCEPT ![p] = @ \cup {q}])
    BY DEF ReceiveMessage
<1> QED BY <1>1, <1>2 DEF OpenInv, Maps

(* Whoever reloads a page loses its secrets and its files.                  *)
LEMMA ReloadOpen ==
    ASSUME OpenInv, NEW p \in Peers, Reload(p), files' = [files EXCEPT ![p] = {}]
    PROVE  OpenInv'
<1>1. secrets' = [secrets EXCEPT ![p] = {}]
    BY DEF Reload
<1> QED BY <1>1 DEF OpenInv, Maps

LEMMA NextOpen == OpenInv /\ [ChatNext]_<<vars, chat>> => OpenInv'
<1> SUFFICES ASSUME OpenInv, [ChatNext]_<<vars, chat>> PROVE OpenInv'
    OBVIOUS
<1>0. Maps
    BY DEF OpenInv
<1>1. CASE secrets' = secrets /\ files' = files
    BY <1>0, <1>1 DEF OpenInv, Maps
<1>2. ASSUME NEW p \in Peers, secrets' = secrets, files' = [files EXCEPT ![p] = {}]
      PROVE  OpenInv'
  <2>1. Maps'
      BY <1>0, <1>2, EmptiedFiles DEF Maps
  <2> QED BY <1>0, <1>2, <2>1, EmptiedFiles, KeepsSecrets
<1>3. ASSUME NEW p \in Peers, ReceiveOther(p) PROVE OpenInv'
  <2>1. files' = files \/ files' = [files EXCEPT ![p] = {}]
      BY <1>3 DEF ReceiveOther
  <2>2. Maps' /\ \A q \in Peers : files'[q] \subseteq files[q]
    <3>1. files' = [q \in Peers |-> files'[q]] /\ \A q \in Peers : files'[q] \subseteq files[q]
        BY <1>0, <2>1, EmptiedFiles DEF Maps
    <3> QED BY <1>0, <1>3, <3>1, ReceiveSecrets DEF ReceiveOther, Maps
  <2> QED BY <1>0, <1>3, <2>2, ReceiveSecrets, KeepsSecrets DEF ReceiveOther
<1>4. ASSUME NEW p \in Peers,
             \/ \E kind \in Kinds : Submit(p, kind)
             \/ \E q \in Peers : Encrypted(p, q)
             \/ ServeMessage(p)
             \/ \E size \in 0 .. MaxFileBytes : RefuseFile(p, size)
      PROVE  secrets' = secrets /\ files' = files
    BY <1>4 DEF Submit, Encrypted, ServeMessage, RefuseFile, keys, chat
<1>5. ASSUME NEW p \in Peers, CreateRoom(p) \/ JoinRoom(p) \/ LeaveRoom(p)
      PROVE  secrets' = secrets
    BY <1>5 DEF CreateRoom, JoinRoom, LeaveRoom, Enter, ResetRoomLocal
<1>6. ASSUME NEW p \in Peers,
             \/ Redial(p) \/ Invite(p) \/ Open(p) \/ Drop(p) \/ Teardown(p)
             \/ ReceiveBye(p) \/ Serve(p) \/ ServeClose(p)
      PROVE  secrets' = secrets
    BY <1>6 DEF Redial, Invite, Open, Drop, Teardown, ReceiveBye, Serve, ServeClose, keys
<1>7. ASSUME Expire \/ Restart PROVE secrets' = secrets
    BY <1>7 DEF Expire, Restart, keys
<1>8. ASSUME UNCHANGED <<vars, chat>> PROVE secrets' = secrets /\ files' = files
    BY <1>8 DEF vars, keys, chat
<1> QED BY <1>1, <1>2, <1>3, <1>4, <1>5, <1>6, <1>7, <1>8, ReceiveMessageOpen, ReloadOpen
        DEF ChatNext, chat

(* Every file offered for download can be decrypted then, for any number of *)
(* pages, whatever they have received, left or lost since.                  *)
THEOREM FilesAlwaysOpen == ChatSpec => []FilesOpen
<1>1. OpenInv => FilesOpen
    BY DEF OpenInv, FilesOpen, CanDownload
<1> QED BY <1>1, InitOpen, NextOpen, PTL DEF ChatSpec
-----------------------------------------------------------------------------
(* However long the header is, within its bound, and whatever the size.     *)
LEMMA OfferedFits ==
    ASSUME NEW size \in Nat, NEW header \in 0 .. MaxHeader, NEW wrapping \in 0 .. MaxWrapping,
           Offered(size), size # 0
    PROVE  Taken(size, header, wrapping)
<1> USE FileConstants
<1> DEFINE body == CeilDiv(4 + header + size + 16, 3)
<1> DEFINE file == CeilDiv(4 * (MaxFile + 16), 3)
<1>1. size <= MaxFile
    BY DEF Offered
<1>2. body \in Nat /\ 3 * body <= header + size + 22
  <2>1. PICK n \in Nat : n = 4 + header + size + 16
      OBVIOUS
  <2>2. CeilDiv(n, 3) \in Nat /\ 3 * CeilDiv(n, 3) <= n + 2
      BY DEF CeilDiv
  <2> QED BY <2>1, <2>2
<1>3. file \in Nat /\ 4 * (MaxFile + 16) <= 3 * file
  <2>1. PICK n \in Nat : n = 4 * (MaxFile + 16)
      OBVIOUS
  <2>2. CeilDiv(n, 3) \in Nat /\ n <= 3 * CeilDiv(n, 3)
      BY DEF CeilDiv
  <2> QED BY <2>1, <2>2
<1>4. 4 * body + wrapping <= file + 8192
  <2> HIDE DEF body, file
  <2>1. 4 * (header + 6) + 3 * wrapping <= 3 * 8192
      OBVIOUS
  <2> QED BY <1>1, <1>2, <1>3, <2>1
<1>5. FrameBytes(size, header, wrapping) = 4 * body + wrapping
    BY DEF FrameBytes, Base64, Envelope
<1>6. file + 8192 <= WsMaxPayload
    BY <1>3 DEF WsMaxPayload
<1>7. WsMaxPayload \in Nat
    BY <1>3 DEF WsMaxPayload
<1> QED
  <2> HIDE DEF body, file
  <2>1. 4 * body + wrapping <= WsMaxPayload
      BY <1>2, <1>3, <1>4, <1>6, <1>7
  <2> QED BY <1>1, <1>5, <2>1 DEF Taken

(* For every limit of the relay on files that is not below the page's,      *)
(* every limit on messages and every header and wrapping that the 8192      *)
(* bytes have room for, the relay refuses no file that the page offers,     *)
(* unless it is empty.                                                      *)
THEOREM OfferedFilesTaken == ChatSpec => OnlyEmptyFilesRefused
<1>1. \A p \in Peers, size \in 1 .. MaxFileBytes : ~RefuseFile(p, size)
  <2> SUFFICES ASSUME NEW p \in Peers, NEW size \in 1 .. MaxFileBytes, RefuseFile(p, size) PROVE FALSE
      OBVIOUS
  <2>1. size \in Nat /\ size # 0 /\ MaxHeader \in 0 .. MaxHeader /\ MaxWrapping \in 0 .. MaxWrapping
      BY FileConstants
  <2> QED BY <2>1, OfferedFits DEF RefuseFile
<1> QED BY <1>1, PTL DEF OnlyEmptyFilesRefused
-----------------------------------------------------------------------------
(* Messages among the frames of the handshake.                              *)

Messages == {"text", "file"}

(* A page's connection carries one message more, or its first frame was one *)
(* and has been handled.                                                    *)
UpStep(p) ==
    \/ up'[p] = up[p]
    \/ online[p] /\ \E f \in UpFrame : f.kind \in Messages /\ up'[p] = Append(up[p], f)
    \/ up[p] # <<>> /\ Head(up[p]).kind \in Messages /\ up'[p] = Tail(up[p])

DownStep(p) ==
    \/ down'[p] = down[p]
    \/ p \in members /\ \E f \in DownFrame : f.kind \in Messages /\ down'[p] = Append(down[p], f)
    \/ down[p] # <<>> /\ Head(down[p]).kind \in Messages /\ down'[p] = Tail(down[p])

(* What sending, passing on and reading messages is to PeerSession.         *)
MessageStep ==
    /\ UNCHANGED <<page, keys, links, relay>>
    /\ Bounded'
    /\ UpTypes' /\ DownTypes'
    /\ \A p \in Peers : UpStep(p) /\ DownStep(p)

JobTypes ==
    /\ job \in [Peers -> [kind : Kinds \cup {"none"}, to : SUBSET Peers]]
    /\ \A p \in Peers : job[p].kind = "none" <=> job[p].to = {}
    /\ files \in [Peers -> SUBSET Peers]

CoreInv == Types /\ Offline /\ ReadyUsable /\ RoomInv /\ AllPairs

LEMMA SubmitStep ==
    ASSUME Types, JobTypes, NEW p \in Peers, NEW kind \in Kinds, Submit(p, kind)
    PROVE  MessageStep /\ JobTypes'
<1>1. MessageStep
  <2>1. Bounded'
      BY PeerConstants DEF Submit, Move, Types, Bounded
  <2> QED BY <2>1 DEF Submit, MessageStep, UpStep, DownStep, Types, UpTypes, DownTypes
<1>2. Recipients(p) \in SUBSET Peers /\ Recipients(p) # {} /\ kind # "none"
    BY PeerConstants DEF Submit, Recipients, Types, PageTypes
<1>3. JobTypes'
    BY <1>2 DEF Submit, JobTypes
<1> QED BY <1>1, <1>3

LEMMA EncryptedStep ==
    ASSUME Types, JobTypes, NEW p \in Peers, NEW q \in Peers, Encrypted(p, q)
    PROVE  MessageStep /\ JobTypes'
<1> DEFINE f == Message(job[p].kind, q)
<1>1. job[p] \in [kind : Kinds \cup {"none"}, to : SUBSET Peers] /\ job[p].kind \in Kinds
    BY DEF Encrypted, JobTypes
<1>2. f \in UpFrame /\ f.kind \in Messages
    BY <1>1, PeerConstants DEF Message, UpFrame, Messages
<1>3. UpTypes' /\ \A x \in Peers : UpStep(x)
  <2>1. CASE online[p] /\ q \in secrets[p]
      BY <1>2, <2>1, SendTyped DEF Encrypted, Types, UpStep
  <2>2. CASE ~(online[p] /\ q \in secrets[p])
      BY <2>2 DEF Encrypted, Types, UpTypes, UpStep
  <2> QED BY <2>1, <2>2
<1>4. MessageStep
    BY <1>3 DEF Encrypted, MessageStep, DownStep, Types, Bounded, bounds, DownTypes
<1>5. /\ Rest(p, q) \in [kind : Kinds \cup {"none"}, to : SUBSET Peers]
      /\ Rest(p, q).kind = "none" <=> Rest(p, q).to = {}
  <2>1. CASE job[p].to = {q}
      BY <2>1 DEF Rest, Idle
  <2>2. CASE job[p].to # {q}
      BY <1>1, <2>2, PeerConstants DEF Rest, Encrypted
  <2> QED BY <2>1, <2>2
<1>6. JobTypes'
    BY <1>5 DEF Encrypted, JobTypes
<1> QED BY <1>4, <1>6

LEMMA ServeMessageStep ==
    ASSUME Types, JobTypes, NEW p \in Peers, ServeMessage(p)
    PROVE  MessageStep /\ JobTypes'
<1> DEFINE frame == Head(up[p])
<1> DEFINE f == Notice(frame.kind, p)
<1>1. /\ UpTypes' /\ frame \in UpFrame /\ frame.kind \in Kinds
      /\ up'[p] = Tail(up[p]) /\ up[p] # <<>>
      /\ \A x \in Peers \ {p} : up'[x] = up[x]
    BY TailTyped DEF ServeMessage, Types
<1>2. f \in DownFrame /\ frame.kind \in Messages /\ f.kind \in Messages
    BY <1>1, PeerConstants DEF Notice, DownFrame, Messages
<1>3. \A x \in Peers : UpStep(x)
    BY <1>1, <1>2 DEF UpStep
<1>4. DownTypes' /\ \A x \in Peers : DownStep(x)
  <2>1. \A x \in Peers : Append(down[x], f) \in Seq(DownFrame)
      BY <1>2, AppendProperties DEF Types, DownTypes
  <2>2. CASE frame.to \in members /\ down' = [down EXCEPT ![frame.to] = Append(@, f)]
      BY <1>2, <2>1, <2>2 DEF Types, DownTypes, DownStep
  <2>3. CASE down' = down
      BY <2>3 DEF Types, DownTypes, DownStep
  <2> QED BY <2>2, <2>3 DEF ServeMessage, Reaches
<1> QED BY <1>1, <1>3, <1>4 DEF ServeMessage, MessageStep, JobTypes, chat, Types, Bounded, bounds

LEMMA RefuseFileStep ==
    ASSUME Types, JobTypes, NEW p \in Peers, NEW size, RefuseFile(p, size)
    PROVE  MessageStep /\ JobTypes'
<1>1. /\ UpTypes' /\ up'[p] = Tail(up[p]) /\ up[p] # <<>>
      /\ \A x \in Peers \ {p} : up'[x] = up[x]
    BY TailTyped DEF RefuseFile, Types
<1>2. \A x \in Peers : UpStep(x)
    BY <1>1 DEF RefuseFile, UpStep, Messages
<1> QED BY <1>1, <1>2 DEF RefuseFile, MessageStep, DownStep, JobTypes, chat, Types, Bounded, bounds,
                            DownTypes

LEMMA ReceiveMessageStep ==
    ASSUME Types, JobTypes, NEW p \in Peers, ReceiveMessage(p)
    PROVE  MessageStep /\ JobTypes'
<1> DEFINE frame == Head(down[p])
<1>1. /\ DownTypes' /\ frame \in DownFrame /\ frame.kind \in Kinds
      /\ down'[p] = Tail(down[p]) /\ down[p] # <<>>
      /\ \A x \in Peers \ {p} : down'[x] = down[x]
    BY ArrivesTyped DEF ReceiveMessage, Arrives, Types
<1>2. frame.about \in Peers /\ frame.kind \in Messages
    BY <1>1, PeerConstants DEF DownFrame, Messages
<1>3. MessageStep
    BY <1>1, <1>2 DEF ReceiveMessage, MessageStep, UpStep, DownStep, Types, Bounded, bounds,
                       UpTypes
<1>4. JobTypes'
    BY <1>2 DEF ReceiveMessage, JobTypes
<1> QED BY <1>3, <1>4

(* Every step of the pages with their messages is one of PeerSession, or of *)
(* messages alone.                                                          *)
LEMMA ChatStep ==
    Types /\ JobTypes /\ [ChatNext]_<<vars, chat>> => ([Next]_vars \/ MessageStep) /\ JobTypes'
<1> SUFFICES ASSUME Types, JobTypes, [ChatNext]_<<vars, chat>>
             PROVE  ([Next]_vars \/ MessageStep) /\ JobTypes'
    OBVIOUS
<1>1. CASE UNCHANGED <<vars, chat>>
    BY <1>1 DEF JobTypes, chat
<1>2. ASSUME NEW p \in Peers, CreateRoom(p) \/ JoinRoom(p) \/ LeaveRoom(p),
             files' = [files EXCEPT ![p] = {}], job' = job
      PROVE  Next /\ JobTypes'
    BY <1>2 DEF Next, JobTypes
<1>3. ASSUME NEW p \in Peers, Reload(p), files' = [files EXCEPT ![p] = {}],
             job' = [job EXCEPT ![p] = Idle]
      PROVE  Next /\ JobTypes'
    BY <1>3 DEF Next, JobTypes, Idle
<1>4. ASSUME NEW p \in Peers, ReceiveOther(p) PROVE Next /\ JobTypes'
    BY <1>4 DEF Next, ReceiveOther, JobTypes
<1>5. ASSUME NEW p \in Peers,
             \/ Redial(p) \/ Invite(p) \/ Open(p) \/ Drop(p) \/ Teardown(p)
             \/ ReceiveBye(p) \/ Serve(p) \/ ServeClose(p),
             UNCHANGED chat
      PROVE  Next /\ JobTypes'
    BY <1>5 DEF Next, JobTypes, chat
<1>6. ASSUME Expire \/ Restart, UNCHANGED chat PROVE Next /\ JobTypes'
    BY <1>6 DEF Next, JobTypes, chat
<1> QED BY <1>1, <1>2, <1>3, <1>4, <1>5, <1>6, SubmitStep, EncryptedStep, ServeMessageStep,
           RefuseFileStep, ReceiveMessageStep DEF ChatNext
-----------------------------------------------------------------------------
(* What messages leave of PeerSession's invariants.                         *)

LEMMA MessageTypes == Types /\ MessageStep => Types'
BY DEF MessageStep, Types, PageTypes, PinTypes, KeyTypes, LinkTypes, RelayTypes, page, keys, relay

LEMMA MessageOffline == Offline /\ MessageStep => Offline'
BY DEF Offline, Inside, MessageStep, UpStep, DownStep, page, relay

LEMMA MessageUsable == ReadyUsable /\ MessageStep => ReadyUsable'
BY DEF ReadyUsable, IsReady, MessageStep, page, keys

(* Whatever else is on the way stays there.                                 *)
LEMMA RestOnItsWay ==
    ASSUME Types, MessageStep, NEW p \in Peers, NEW g, g.kind \notin Messages
    PROVE  /\ OnItsWay(g, up[p]) <=> OnItsWay(g, up'[p])
           /\ OnItsWay(g, down[p]) <=> OnItsWay(g, down'[p])
<1>1. up[p] \in Seq(UpFrame) /\ down[p] \in Seq(DownFrame)
    BY DEF Types, UpTypes, DownTypes
<1>2. ASSUME NEW f \in UpFrame, f.kind \in Messages, up'[p] = Append(up[p], f)
      PROVE  OnItsWay(g, up[p]) <=> OnItsWay(g, up'[p])
  <2>1. OnItsWay(g, Append(up[p], f)) <=> OnItsWay(g, up[p]) \/ g = f
      BY <1>1, OneMore
  <2> QED BY <1>2, <2>1
<1>3. ASSUME up[p] # <<>>, Head(up[p]).kind \in Messages, up'[p] = Tail(up[p])
      PROVE  OnItsWay(g, up[p]) <=> OnItsWay(g, up'[p])
  <2>1. OnItsWay(g, up[p]) <=> g = Head(up[p]) \/ OnItsWay(g, Tail(up[p]))
      BY <1>1, <1>3, OneLess
  <2> QED BY <1>3, <2>1
<1>4. ASSUME NEW f \in DownFrame, f.kind \in Messages, down'[p] = Append(down[p], f)
      PROVE  OnItsWay(g, down[p]) <=> OnItsWay(g, down'[p])
  <2>1. OnItsWay(g, Append(down[p], f)) <=> OnItsWay(g, down[p]) \/ g = f
      BY <1>1, OneMore
  <2> QED BY <1>4, <2>1
<1>5. ASSUME down[p] # <<>>, Head(down[p]).kind \in Messages, down'[p] = Tail(down[p])
      PROVE  OnItsWay(g, down[p]) <=> OnItsWay(g, down'[p])
  <2>1. OnItsWay(g, down[p]) <=> g = Head(down[p]) \/ OnItsWay(g, Tail(down[p]))
      BY <1>1, <1>5, OneLess
  <2> QED BY <1>5, <2>1
<1>6. OnItsWay(g, up[p]) <=> OnItsWay(g, up'[p])
    BY <1>2, <1>3 DEF MessageStep, UpStep
<1>7. OnItsWay(g, down[p]) <=> OnItsWay(g, down'[p])
    BY <1>4, <1>5 DEF MessageStep, DownStep
<1> QED BY <1>6, <1>7

LEMMA MessageSettled ==
    ASSUME Types, MessageStep, NEW p \in Peers, NEW q \in Peers, Settled(p, q)
    PROVE  Settled(p, q)'
<1>1. down[p] \in Seq(DownFrame) /\ sess' = sess
    BY DEF Types, DownTypes, MessageStep, keys
<1>2. \A f : f.kind \in Messages =>
          f \notin {Notice("joined", q), Notice("left", q), Notice("key", q)}
    BY DEF Notice, Messages
<1>3. Settles(sess[p][q], down'[p], q)
  <2>1. CASE down'[p] = down[p]
      BY <2>1 DEF Settled
  <2>2. ASSUME NEW f \in DownFrame, f.kind \in Messages, down'[p] = Append(down[p], f)
        PROVE  Settles(sess[p][q], down'[p], q)
    <3>1. Settles(sess[p][q], Append(down[p], f), q)
        BY <1>1, <1>2, <2>2, SettlesMore DEF Settled
    <3> QED BY <2>2, <3>1
  <2>3. ASSUME down[p] # <<>>, Head(down[p]).kind \in Messages, down'[p] = Tail(down[p])
        PROVE  Settles(sess[p][q], down'[p], q)
    <3>1. Head(down[p]) \notin {Notice("joined", q), Notice("left", q), Notice("key", q)}
        BY <1>2, <2>3
    <3>2. Settles(sess[p][q], Tail(down[p]), q)
        BY <1>1, <2>3, <3>1, SettlesLess DEF Settled
    <3> QED BY <2>3, <3>2
  <2> QED BY <2>1, <2>2, <2>3 DEF MessageStep, DownStep
<1> QED BY <1>1, <1>3, OnItsWayNext

LEMMA MessagePair == Types /\ AllPairs /\ MessageStep => AllPairs'
<1> SUFFICES ASSUME Types, AllPairs, MessageStep PROVE AllPairs'
    OBVIOUS
<1>1. /\ online' = online /\ active' = active /\ expected' = expected /\ sess' = sess
      /\ secrets' = secrets /\ members' = members /\ overtaken' = overtaken
    BY DEF MessageStep, page, keys, relay
<1>2. ASSUME NEW p \in Peers, NEW q \in Peers \ {p} PROVE PairAt(p, q)'
  <2>1. /\ Notice("joined", p).kind \notin Messages /\ Notice("joined", q).kind \notin Messages
        /\ Notice("key", p).kind \notin Messages /\ Ask("key", NoToken).kind \notin Messages
      BY DEF Notice, Ask, Messages
  <2>2. /\ Joined(p, q) => Joined(p, q)'
        /\ Joined(q, p) => Joined(q, p)'
        /\ KeyTo(q, p) => KeyTo(q, p)'
        /\ KeyFrom(p) => KeyFrom(p)'
        /\ KeyFrom(q) => KeyFrom(q)'
      BY <2>1, RestOnItsWay, OnItsWayNext DEF Joined, KeyTo, KeyFrom
  <2>3. PairAt(p, q) /\ In(p)' = In(p) /\ In(q)' = In(q)
      BY <1>1 DEF AllPairs, In
  <2> QED BY <1>1, <2>2, <2>3, MessageSettled, PairStays
<1> QED BY <1>2 DEF AllPairs

(* The frames keep their order: d of them, none or one, have been handled.  *)
Shifted(old, new, d) ==
    /\ Len(old) - d <= Len(new)
    /\ \A i \in 1 .. Len(new) :
        /\ i + d <= Len(old) => new[i] = old[i + d]
        /\ i + d > Len(old) => new[i].kind \in Messages
    /\ d = 1 => Len(old) # 0 /\ old[1].kind \in Messages

LEMMA FramesShift ==
    ASSUME NEW S, NEW old \in Seq(S), NEW new,
           \/ new = old
           \/ \E f \in S : f.kind \in Messages /\ new = Append(old, f)
           \/ old # <<>> /\ Head(old).kind \in Messages /\ new = Tail(old)
    PROVE  Len(old) \in Nat /\ Len(new) \in Nat /\ \E d \in {0, 1} : Shifted(old, new, d)
<1>0. Len(old) \in Nat
    BY LenProperties
<1>1. CASE new = old
  <2>1. Shifted(old, new, 0)
      BY <1>0, <1>1 DEF Shifted
  <2> QED BY <1>0, <1>1, <2>1
<1>2. ASSUME NEW f \in S, f.kind \in Messages, new = Append(old, f)
      PROVE  Len(new) \in Nat /\ Shifted(old, new, 0)
  <2>1. /\ Len(new) = Len(old) + 1 /\ new[Len(old) + 1] = f
        /\ \A i \in 1 .. Len(old) : new[i] = old[i]
      BY <1>2, AppendProperties
  <2> QED BY <1>0, <1>2, <2>1 DEF Shifted
<1>3. ASSUME old # <<>>, Head(old).kind \in Messages, new = Tail(old)
      PROVE  Len(new) \in Nat /\ Shifted(old, new, 1)
  <2>1. Head(old) = old[1] /\ Len(old) # 0
      BY <1>3, SeqFirst
  <2>2. Len(new) = Len(old) - 1 /\ \A i \in 1 .. Len(old) - 1 : new[i] = old[i + 1]
      BY <1>3, HeadTailProperties
  <2>3. \A i \in 1 .. Len(new) : i + 1 <= Len(old) /\ new[i] = old[i + 1]
      BY <1>0, <2>1, <2>2
  <2>4. Len(new) \in Nat /\ Len(old) - 1 <= Len(new)
      BY <1>0, <2>1, <2>2
  <2>5. \A i \in 1 .. Len(new) : ~(i + 1 > Len(old))
      BY <1>0, <2>3, <2>4
  <2> QED BY <1>3, <2>1, <2>3, <2>4, <2>5 DEF Shifted
<1> QED BY <1>0, <1>1, <1>2, <1>3

LEMMA MessagePlace ==
    ASSUME Types, MessageStep, NEW p \in Peers, PlaceAt(p)
    PROVE  PlaceAt(p)'
<1>1. up[p] \in Seq(UpFrame) /\ down[p] \in Seq(DownFrame)
    BY DEF Types, UpTypes, DownTypes
<1>2. members' = members /\ active' = active /\ sess' = sess
    BY DEF MessageStep, page, keys, relay
<1>3. Entries \cap Messages = {} /\ "leave" \notin Messages /\ "closed" \notin Messages
    BY DEF Entries, Messages
<1>4. /\ Len(up[p]) \in Nat /\ Len(up'[p]) \in Nat
      /\ \E d \in {0, 1} : Shifted(up[p], up'[p], d)
    BY <1>1, FramesShift DEF MessageStep, UpStep
<1>5. PICK d \in {0, 1} : Shifted(up[p], up'[p], d)
    BY <1>4
<1>6. ASSUME NEW i \in 2 .. Len(up'[p]) PROVE up'[p][i].kind \notin Entries
  <2>1. CASE i + d <= Len(up[p])
    <3>1. up'[p][i] = up[p][i + d] /\ i + d \in 2 .. Len(up[p])
        BY <1>4, <1>5, <2>1 DEF Shifted
    <3> QED BY <3>1 DEF PlaceAt, EntryAt
  <2>2. CASE ~(i + d <= Len(up[p]))
      BY <1>3, <1>4, <1>5, <2>2 DEF Shifted
  <2> QED BY <2>1, <2>2
<1>7. up'[p] # <<>> => 1 \in 1 .. Len(up'[p])
  <2>1. up'[p] \in Seq(UpFrame)
      BY DEF MessageStep, UpTypes
  <2> QED BY <1>4, <2>1, EmptySeq
<1>8. ASSUME up'[p] # <<>>, up'[p][1].kind \in Entries PROVE up[p] # <<>> /\ up[p][1].kind \in Entries
  <2>1. 1 + d <= Len(up[p]) /\ up'[p][1] = up[p][1 + d]
      BY <1>3, <1>5, <1>7, <1>8 DEF Shifted
  <2>2. d = 0
      BY <1>4, <1>8, <2>1 DEF PlaceAt, EntryAt
  <2> QED BY <1>8, <2>1, <2>2, EmptySeq
<1>9. EntryAt(p)'
  <2>1. Outside(p) => Outside(p)'
      BY <1>2 DEF MessageStep, DownStep, Outside, Sent
  <2> QED BY <1>6, <1>8, <2>1 DEF PlaceAt, EntryAt
<1>10. InactiveAt(p)'
  <2>1. ASSUME \A i \in 1 .. Len(up'[p]) : up'[p][i].kind # "leave", NEW k \in 1 .. Len(up[p])
        PROVE  up[p][k].kind # "leave"
    <3>1. CASE k <= d
        BY <1>3, <1>5, <3>1 DEF Shifted
    <3>2. CASE ~(k <= d)
      <4>1. PICK i \in 1 .. Len(up'[p]) : i + d = k
        <5>1. k - d \in 1 .. Len(up'[p]) /\ (k - d) + d = k
            BY <1>4, <1>5, <3>2 DEF Shifted
        <5> QED BY <5>1
      <4>2. up'[p][i] = up[p][k]
          BY <1>4, <1>5, <4>1 DEF Shifted
      <4> QED BY <2>1, <4>2
    <3> QED BY <3>1, <3>2
  <2> QED BY <1>2, <1>8, <2>1 DEF PlaceAt, InactiveAt
<1>11. ClosedAt(p)'
  <2>1. /\ Len(down[p]) \in Nat /\ Len(down'[p]) \in Nat
        /\ \E e \in {0, 1} : Shifted(down[p], down'[p], e)
      BY <1>1, FramesShift DEF MessageStep, DownStep
  <2>2. PICK e \in {0, 1} : Shifted(down[p], down'[p], e)
      BY <2>1
  <2>3. ASSUME NEW i \in 1 .. Len(down'[p]), down'[p][i].kind = "closed" PROVE p \notin members
    <3>1. i + e \in 1 .. Len(down[p]) /\ down'[p][i] = down[p][i + e]
        BY <1>3, <2>1, <2>2, <2>3 DEF Shifted
    <3> QED BY <2>3, <3>1 DEF PlaceAt, ClosedAt
  <2> QED BY <1>2, <2>3 DEF ClosedAt
<1> QED BY <1>9, <1>10, <1>11 DEF PlaceAt

LEMMA MessagePresent ==
    ASSUME Types, MessageStep, NEW p \in Peers, PresentAt(p)
    PROVE  PresentAt(p)'
<1>1. down[p] \in Seq(DownFrame)
    BY DEF Types, DownTypes
<1>2. members' = members /\ Here' = Here /\ sess' = sess
    BY DEF MessageStep, page, keys, relay, Here, Inside
<1>3. \A q : Notice("key", q).kind \notin Messages /\ Notice("left", q).kind \notin Messages
    BY DEF Notice, Messages
<1>4. /\ Len(down[p]) \in Nat /\ Len(down'[p]) \in Nat
      /\ \E d \in {0, 1} : Shifted(down[p], down'[p], d)
    BY <1>1, FramesShift DEF MessageStep, DownStep
<1>5. PICK d \in {0, 1} : Shifted(down[p], down'[p], d)
    BY <1>4
<1>6. ASSUME KeysAt(p) PROVE KeysAt(p)'
  <2> SUFFICES ASSUME NEW q \in Peers, NEW i \in 1 .. Len(down'[p]), down'[p][i] = Notice("key", q),
                      q \notin Here
               PROVE  \E j \in i + 1 .. Len(down'[p]) : down'[p][j] = Notice("left", q)
      BY <1>2 DEF KeysAt
  <2>1. i + d \in 1 .. Len(down[p]) /\ down[p][i + d] = Notice("key", q)
      BY <1>3, <1>4, <1>5 DEF Shifted
  <2>2. PICK j \in (i + d) + 1 .. Len(down[p]) : down[p][j] = Notice("left", q)
      BY <1>6, <2>1 DEF KeysAt
  <2>3. PICK k \in i + 1 .. Len(down'[p]) : k + d = j
    <3>1. j - d \in i + 1 .. Len(down'[p]) /\ (j - d) + d = j
        BY <1>4, <1>5, <2>1, <2>2 DEF Shifted
    <3> QED BY <3>1
  <2>4. down'[p][k] = down[p][j]
      BY <1>4, <1>5, <2>2, <2>3 DEF Shifted
  <2> QED BY <2>2, <2>4
<1>7. ASSUME ReadyAt(p) PROVE ReadyAt(p)'
  <2>1. \A q \in Peers : OnItsWay(Notice("left", q), down[p]) => OnItsWay(Notice("left", q), down'[p])
      BY <1>3, RestOnItsWay
  <2>2. \A q \in Peers : OnItsWay(Notice("left", q), down[p])' <=> OnItsWay(Notice("left", q), down'[p])
      BY DEF OnItsWay
  <2> QED BY <1>2, <1>7, <2>1, <2>2 DEF ReadyAt, IsReady
<1> QED BY <1>2, <1>6, <1>7 DEF PresentAt

LEMMA MessageRoom == Types /\ RoomInv /\ MessageStep => RoomInv'
BY MessagePlace, MessagePresent DEF RoomInv

LEMMA InitCore == ChatInit => CoreInv /\ JobTypes
BY InitTypes, InitOffline, InitUsable, InitRoom, InitPair DEF ChatInit, CoreInv, JobTypes, Idle

LEMMA NextCore ==
    CoreInv /\ JobTypes /\ [ChatNext]_<<vars, chat>> => CoreInv' /\ JobTypes'
<1> SUFFICES ASSUME CoreInv, JobTypes, [ChatNext]_<<vars, chat>> PROVE CoreInv' /\ JobTypes'
    OBVIOUS
<1>1. ([Next]_vars \/ MessageStep) /\ JobTypes'
    BY ChatStep DEF CoreInv
<1>2. CASE [Next]_vars
    BY <1>1, <1>2, NextTypes, NextOffline, NextUsable, NextRoom, NextPair DEF CoreInv
<1>3. CASE MessageStep
    BY <1>1, <1>3, MessageTypes, MessageOffline, MessageUsable, MessageRoom, MessagePair DEF CoreInv
<1> QED BY <1>1, <1>2, <1>3

(* With messages and files among the frames, the pages and the relay keep   *)
(* their types, and a page is idle exactly when it has nobody left to       *)
(* encrypt for (handleSendMessage).                                         *)
THEOREM ChatTypeCorrect == ChatSpec => []ChatTypeOK
<1>1. CoreInv /\ JobTypes => ChatTypeOK
    BY TypesAreTypes DEF CoreInv, JobTypes, ChatTypeOK
<1> QED BY <1>1, InitCore, NextCore, PTL DEF ChatSpec

(* The handshake keeps what PeerProofs shows of it when its frames wait     *)
(* behind messages and files, or are refused among them: pages that trust   *)
(* each other agree, save who was overtaken by its own socket's close, and  *)
(* nobody is held for ready who is gone or has no secret though its key     *)
(* yields one.                                                              *)
THEOREM HandshakeAmongMessages ==
    ChatSpec => [](ReadyUsable /\ ReadyPresent /\ Agreement)
<1>1. CoreInv => ReadyUsable /\ ReadyPresent /\ Agreement
    BY RoomPresent, PairsAgree DEF CoreInv
<1> QED BY <1>1, InitCore, NextCore, PTL DEF ChatSpec

(* What is encrypted behind an await and passed on later can be read, save  *)
(* that a key or a notice of one just back is still on its way: for every   *)
(* number of pages, and whenever old sockets are seen to close.             *)
THEOREM DeliveredAlwaysReadable == ChatSpec => DeliveredReadable
<1>1. ASSUME CoreInv, NEW p \in Peers, NEW q \in Peers \ {p},
             p \in members, q \in members,
             ServeMessage(p), Head(up[p]).to = q, active[p], active[q],
             IsReady(p, q), Unreadable(p, q)
      PROVE  OnItsWay(Notice("joined", q), down[p]) \/ OnItsWay(Ask("key", NoToken), up[p])
  <2>1. In(p) /\ In(q) /\ Trusts(q, p) /\ Sent(p, q)
      BY <1>1 DEF In, Unreadable, IsReady, Sent
  <2>2. Reached(p, q)
      BY <1>1, <2>1 DEF CoreInv, AllPairs, PairAt, SentAt
  <2> QED BY <1>1, <2>2 DEF Reached, Unreadable, KeyTo, Joined, KeyFrom
<1>2. CoreInv =>
        [\A p \in members : \A q \in members \ {p} :
            /\ ServeMessage(p) /\ Head(up[p]).to = q
            /\ active[p] /\ active[q] /\ IsReady(p, q) /\ Unreadable(p, q)
            => \/ OnItsWay(Notice("joined", q), down[p])
               \/ OnItsWay(Ask("key", NoToken), up[p])]_<<vars, chat>>
    BY <1>1 DEF CoreInv, Types, RelayTypes
<1> QED BY <1>2, InitCore, NextCore, PTL DEF ChatSpec, DeliveredReadable
=============================================================================
