---------------------------- MODULE RelayProofs ----------------------------
(***************************************************************************)
(* Proofs about Relay for any number of sockets, users, rooms, tokens and  *)
(* nonces and any configuration RoomConstants and RelayConstants allow.    *)
(***************************************************************************)
EXTENDS Relay, SequenceTheorems, TLAPS

-----------------------------------------------------------------------------
(* The client list of a room.                                               *)

(* Appending a socket to a list adds it to the members and keeps them.      *)
LEMMA AppendMembers ==
    ASSUME NEW S, NEW s \in Seq(S), NEW c \in S
    PROVE  /\ Append(s, c) \in Seq(S)
           /\ Len(Append(s, c)) = Len(s) + 1
           /\ ToSet(Append(s, c)) = ToSet(s) \cup {c}
<1> DEFINE a == Append(s, c)
<1>1. /\ a \in Seq(S)
      /\ Len(a) = Len(s) + 1
      /\ \A i \in 1 .. Len(s) : a[i] = s[i]
      /\ a[Len(s) + 1] = c
    BY AppendProperties
<1> HIDE DEF a
<1>2. ToSet(a) = {a[i] : i \in 1 .. Len(s) + 1}
    BY <1>1 DEF ToSet
<1>3. ToSet(s) = {s[i] : i \in 1 .. Len(s)}
    BY DEF ToSet
<1>4. 1 .. Len(s) + 1 = 1 .. Len(s) \cup {Len(s) + 1}
    BY LenProperties
<1>5. ToSet(a) = ToSet(s) \cup {c}
    BY <1>1, <1>2, <1>3, <1>4
<1> QED BY <1>1, <1>5 DEF a

(* The place Without drops is a place of the list.                          *)
LEMMA WithoutPlace ==
    ASSUME NEW S, NEW s \in Seq(S), NEW c \in ToSet(s)
    PROVE  \E i \in 1 .. Len(s) :
              /\ s[i] = c
              /\ Without(s, c) = RemoveAt(s, i)
<1> DEFINE i == CHOOSE j \in DOMAIN s : s[j] = c
<1>1. DOMAIN s = 1 .. Len(s)
    OBVIOUS
<1>2. \E j \in DOMAIN s : s[j] = c
    BY DEF ToSet
<1>3. i \in DOMAIN s /\ s[i] = c
    BY <1>2
<1>4. Without(s, c) = RemoveAt(s, i)
    BY DEF Without
<1> QED BY <1>1, <1>3, <1>4

(* RemoveAt element by element.                                             *)
LEMMA RemoveAtElements ==
    ASSUME NEW S, NEW s \in Seq(S), NEW i \in 1 .. Len(s)
    PROVE  /\ RemoveAt(s, i) \in Seq(S)
           /\ Len(RemoveAt(s, i)) = Len(s) - 1
           /\ \A j \in 1 .. Len(s) - 1 :
                RemoveAt(s, i)[j] = IF j < i THEN s[j] ELSE s[j + 1]
<1> DEFINE front == SubSeq(s, 1, i - 1)
           back  == SubSeq(s, i + 1, Len(s))
<1>1. Len(s) \in Nat
    BY LenProperties
<1>2. /\ front \in Seq(S)
      /\ Len(front) = i - 1
      /\ \A j \in 1 .. i - 1 : front[j] = s[j]
    BY <1>1, SubSeqProperties
<1>3. /\ back \in Seq(S)
      /\ Len(back) = Len(s) - i
      /\ \A j \in 1 .. Len(s) - i : back[j] = s[i + j]
    BY <1>1, SubSeqProperties
<1> HIDE DEF front, back
<1>4. /\ front \o back \in Seq(S)
      /\ Len(front \o back) = Len(s) - 1
      /\ \A j \in 1 .. Len(s) - 1 :
            (front \o back)[j] = IF j < i THEN front[j] ELSE back[j - (i - 1)]
  <2>1. Len(front) + Len(back) = Len(s) - 1
      BY <1>1, <1>2, <1>3
  <2>2. /\ front \o back \in Seq(S)
        /\ Len(front \o back) = Len(front) + Len(back)
        /\ \A j \in 1 .. Len(front) + Len(back) :
            (front \o back)[j] = IF j <= Len(front) THEN front[j] ELSE back[j - Len(front)]
      BY <1>2, <1>3, ConcatProperties
  <2>3. ASSUME NEW j \in 1 .. Len(s) - 1
        PROVE  (front \o back)[j] = IF j < i THEN front[j] ELSE back[j - (i - 1)]
    <3>1. j <= i - 1 <=> j < i
        BY <1>1
    <3> QED BY <1>2, <2>1, <2>2, <3>1
  <2> QED BY <2>1, <2>2, <2>3
<1>5. \A j \in 1 .. Len(s) - 1 :
        (front \o back)[j] = IF j < i THEN s[j] ELSE s[j + 1]
  <2>1. ASSUME NEW j \in 1 .. Len(s) - 1, j < i
        PROVE  (front \o back)[j] = s[j]
    <3>1. (front \o back)[j] = front[j]
        BY <1>4, <2>1
    <3>2. j \in 1 .. i - 1
        BY <1>1, <2>1
    <3> QED BY <1>2, <3>1, <3>2
  <2>2. ASSUME NEW j \in 1 .. Len(s) - 1, ~(j < i)
        PROVE  (front \o back)[j] = s[j + 1]
    <3>1. (front \o back)[j] = back[j - (i - 1)]
        BY <1>4, <2>2
    <3>2. j - (i - 1) \in 1 .. Len(s) - i
        BY <1>1, <2>2
    <3>3. back[j - (i - 1)] = s[i + (j - (i - 1))]
        BY <1>3, <3>2
    <3>4. i + (j - (i - 1)) = j + 1
        BY <1>1, <2>2
    <3> QED BY <3>1, <3>3, <3>4
  <2> QED BY <2>1, <2>2
<1> QED BY <1>4, <1>5 DEF RemoveAt, front, back

(* Taking a socket out of a list takes out nobody else; if the list has no  *)
(* duplicates it does take the socket out, and adds none.                   *)
LEMMA WithoutMembers ==
    ASSUME NEW S, NEW s \in Seq(S), NEW c
    PROVE  /\ Without(s, c) \in Seq(S)
           /\ Len(Without(s, c)) <= Len(s)
           /\ ToSet(s) \ {c} \subseteq ToSet(Without(s, c))
           /\ ToSet(Without(s, c)) \subseteq ToSet(s)
           /\ IsInjective(s) => IsInjective(Without(s, c))
           /\ IsInjective(s) => ToSet(Without(s, c)) = ToSet(s) \ {c}
<1>1. CASE c \notin ToSet(s)
    BY <1>1 DEF Without
<1>2. CASE c \in ToSet(s)
  <2>1. PICK i \in 1 .. Len(s) : s[i] = c /\ Without(s, c) = RemoveAt(s, i)
      BY <1>2, WithoutPlace
  <2> DEFINE w == RemoveAt(s, i)
  <2>2. /\ w \in Seq(S)
        /\ Len(w) = Len(s) - 1
        /\ \A j \in 1 .. Len(s) - 1 : w[j] = IF j < i THEN s[j] ELSE s[j + 1]
      BY RemoveAtElements
  <2> HIDE DEF w
  <2>3. \A j \in 1 .. Len(s) : j # i =>
            \E k \in 1 .. Len(w) : w[k] = s[j]
    <3> TAKE j \in 1 .. Len(s)
    <3> HAVE j # i
    <3>1. CASE j < i
        BY <2>2, <3>1
    <3>2. CASE j > i
      <4>1. w[j - 1] = s[j] /\ j - 1 \in 1 .. Len(w)
          BY <2>2, <3>2
      <4> QED BY <4>1
    <3> QED BY <3>1, <3>2
  <2>4. \A k \in 1 .. Len(w) : \E j \in 1 .. Len(s) : j # i /\ w[k] = s[j]
      BY <2>2
  <2>5. ToSet(s) = {s[j] : j \in 1 .. Len(s)} /\ ToSet(w) = {w[k] : k \in 1 .. Len(w)}
      BY <2>2 DEF ToSet
  <2>6. ToSet(s) \ {c} \subseteq ToSet(w)
      BY <2>1, <2>3, <2>5
  <2>7. ToSet(w) \subseteq ToSet(s)
      BY <2>4, <2>5
  <2>8. ASSUME IsInjective(s) PROVE IsInjective(w) /\ c \notin ToSet(w)
    <3>1. \A a, b \in 1 .. Len(s) : s[a] = s[b] => a = b
        BY <2>8 DEF IsInjective
    <3>2. \A a, b \in 1 .. Len(w) : w[a] = w[b] => a = b
        BY <2>2, <3>1
    <3>3. DOMAIN w = 1 .. Len(w)
        BY <2>2
    <3>4. IsInjective(w)
        BY <3>2, <3>3 DEF IsInjective
    <3>5. c \notin ToSet(w)
        BY <2>1, <2>4, <2>5, <3>1
    <3> QED BY <3>4, <3>5
  <2> QED BY <2>1, <2>2, <2>6, <2>7, <2>8 DEF w
<1> QED BY <1>1, <1>2
-----------------------------------------------------------------------------
(* The room operators keep a room a room.                                   *)

LEMMA AddRoomType ==
    ASSUME NEW t \in Tokens
    PROVE  /\ AddRoom(t) \in Room
           /\ AddRoom(t).clients = <<>>
BY RoomConstants DEF AddRoom, Room, TokenState

LEMMA UpdateLastActivityType ==
    ASSUME NEW room \in Room
    PROVE  /\ UpdateLastActivity(room) \in Room
           /\ UpdateLastActivity(room).clients = room.clients
           /\ UpdateLastActivity(room).tokens = room.tokens
BY RoomConstants DEF UpdateLastActivity, Room

LEMMA AddClientType ==
    ASSUME NEW room \in Room, NEW c \in Conns
    PROVE  /\ AddClient(room, c) \in Room
           /\ AddClient(room, c).tokens = room.tokens
           /\ CanAddClient(room, c) => AddClient(room, c).clients = Append(room.clients, c)
<1> DEFINE longer == [room EXCEPT !.clients = Append(@, c)]
<1>1. /\ longer \in Room
      /\ longer.tokens = room.tokens
      /\ longer.clients = Append(room.clients, c)
    BY AppendProperties DEF Room
<1> HIDE DEF longer
<1>2. AddClient(room, c) = IF CanAddClient(room, c) THEN UpdateLastActivity(longer) ELSE room
    BY DEF AddClient, longer
<1> QED BY <1>1, <1>2, UpdateLastActivityType

LEMMA RemoveClientType ==
    ASSUME NEW room \in Room, NEW c
    PROVE  /\ RemoveClient(room, c) \in Room
           /\ RemoveClient(room, c).tokens = room.tokens
           /\ RemoveClient(room, c).clients = Without(room.clients, c)
<1> DEFINE shorter == [room EXCEPT !.clients = Without(@, c)]
<1>1. /\ shorter \in Room
      /\ shorter.tokens = room.tokens
      /\ shorter.clients = Without(room.clients, c)
    BY WithoutMembers DEF Room
<1> HIDE DEF shorter
<1>2. RemoveClient(room, c) = IF c \in Members(room) THEN UpdateLastActivity(shorter) ELSE room
    BY DEF RemoveClient, shorter
<1>3. c \notin Members(room) => room.clients = Without(room.clients, c)
    BY DEF Members, Without
<1> QED BY <1>1, <1>2, <1>3, UpdateLastActivityType

LEMMA BindInviteTokenType ==
    ASSUME NEW room \in Room, NEW t \in Tokens, NEW f \in Fps \cup {NoFp}
    PROVE  /\ BindInviteToken(room, t, f) \in Room
           /\ BindInviteToken(room, t, f).clients = room.clients
BY DEF BindInviteToken, Room, TokenState

LEMMA AddInviteTokenType ==
    ASSUME NEW room \in Room, NEW t \in Tokens
    PROVE  /\ AddInviteToken(room, t) \in Room
           /\ AddInviteToken(room, t).clients = room.clients
BY DEF AddInviteToken, Room, TokenState

LEMMA AgedType ==
    ASSUME NEW room \in Room
    PROVE  /\ Aged(room) \in Room
           /\ Aged(room).clients = room.clients
<1> DEFINE a == IF room.age > Lifetime THEN room.age ELSE room.age + 1
           i == IF room.idle > IdleTimeout THEN room.idle ELSE room.idle + 1
<1>1. a \in 0 .. Lifetime + 1
    BY RoomConstants DEF Room
<1>2. i \in 0 .. IdleTimeout + 1
    BY RoomConstants DEF Room
<1> HIDE DEF a, i
<1>3. Aged(room) = [room EXCEPT !.age = a, !.idle = i]
    BY DEF Aged, a, i
<1> QED BY <1>1, <1>2, <1>3 DEF Room

-----------------------------------------------------------------------------
(* The components of a step.                                                *)

RoomStates == Room \cup {NoRoom}

(* The same rooms exist, with the same clients in the same order.           *)
SameLists(R) ==
    \A r \in RoomIds : /\ R[r] = NoRoom <=> rooms[r] = NoRoom
                       /\ rooms[r] # NoRoom => R[r].clients = rooms[r].clients

LEMMA TouchedType ==
    ASSUME TypeOK, NEW r
    PROVE  Touched(r) \in [RoomIds -> RoomStates] /\ SameLists(Touched(r))
<1>1. rooms \in [RoomIds -> RoomStates]
    BY DEF TypeOK, RoomStates
<1>2. CASE HasRoom(r)
  <2>1. r \in RoomIds /\ rooms[r] \in Room
      BY <1>1, <1>2 DEF HasRoom, RoomStates
  <2>2. /\ UpdateLastActivity(rooms[r]) \in Room
        /\ UpdateLastActivity(rooms[r]).clients = rooms[r].clients
      BY <2>1, UpdateLastActivityType
  <2>3. Touched(r) = [rooms EXCEPT ![r] = UpdateLastActivity(rooms[r])]
      BY <1>2 DEF Touched
  <2> QED BY <1>1, <2>1, <2>2, <2>3, NoRoomAssumption DEF SameLists, RoomStates
<1>3. CASE ~HasRoom(r)
    BY <1>1, <1>3 DEF Touched, SameLists
<1> QED BY <1>2, <1>3

LEMMA DeliverType ==
    ASSUME NEW targets, NEW event \in Events, NEW from \in {NoFp} \cup Fps
    PROVE  Deliver(targets, event, from) \in [Conns -> Frame \cup {NoFrame}]
BY DEF Deliver, Frame

LEMMA SilenceType == Silence \in [Conns -> Frame \cup {NoFrame}]
BY DEF Silence

LEMMA SuccessAndType ==
    ASSUME NEW c \in Conns, NEW broadcast \in [Conns -> Frame \cup {NoFrame}]
    PROVE  SuccessAnd(c, broadcast) \in [Conns -> Frame \cup {NoFrame}]
<1>1. Deliver({c}, "success", NoFp) \in [Conns -> Frame \cup {NoFrame}]
    BY DeliverType DEF Events
<1> QED BY <1>1 DEF SuccessAnd

LEMMA KnownType ==
    ASSUME TypeOK, NEW c \in Conns, NEW f \in Announces(c)
    PROVE  /\ Known(c, f) \in {NoFp, Identity[c]}
           /\ Known(c, f) \in {NoFp} \cup Fps
           /\ f \in Fps \cup {NoFp}
BY RelayConstants DEF TypeOK, Known, Announces

(* A refusal counts, closes or answers, and stays within the types.         *)
LEMMA RejectType ==
    ASSUME TypeOK, NEW c \in Conns, Reject(c)
    PROVE  /\ ready' \in [Conns -> ReadyStates]
           /\ violations' \in [Conns -> 0 .. MaxViolations]
           /\ sent' \in [Conns -> Frame \cup {NoFrame}]
           /\ \A d \in Conns : \/ ready'[d] = ready[d]
                               \/ ready[d] = "OPEN" /\ ready'[d] = "CLOSING"
<1>1. /\ ready' \in [Conns -> ReadyStates]
      /\ \A d \in Conns : \/ ready'[d] = ready[d]
                          \/ ready[d] = "OPEN" /\ ready'[d] = "CLOSING"
    BY DEF Reject, TypeOK, ReadyStates
<1>2. violations' \in [Conns -> 0 .. MaxViolations]
    BY RelayConstants DEF Reject, TypeOK
<1>3. sent' \in [Conns -> Frame \cup {NoFrame}]
  <2>1. Deliver({c}, "error", NoFp) \in [Conns -> Frame \cup {NoFrame}]
      BY DeliverType DEF Events
  <2>2. sent' = Silence \/ sent' = Deliver({c}, "error", NoFp)
      BY DEF Reject
  <2> QED BY <2>1, <2>2, SilenceType
<1> QED BY <1>1, <1>2, <1>3

(* The limiter and the replay guard keep their types.                       *)
LEMMA LimiterType ==
    ASSUME Limiter!TypeOK
    PROVE  /\ \A k \in Fps : Limiter!Count(k) \/ Limiter!Delete(k) => Limiter!TypeOK'
           /\ Limiter!Tick => Limiter!TypeOK'
<1>1. Limiter!NoBucket \in Limiter!Bucket
    BY RelayConstants DEF Limiter!NoBucket, Limiter!Bucket
<1>2. ASSUME NEW k \in Fps, Limiter!Count(k) PROVE Limiter!TypeOK'
  <2> DEFINE next == IF Limiter!WindowOver(k) THEN [count |-> 1, age |-> 0]
                     ELSE Limiter!Counted(buckets[k])
  <2>1. buckets[k] \in Limiter!Bucket
      BY DEF Limiter!TypeOK
  <2>2. next \in Limiter!Bucket
    <3>1. CASE Limiter!WindowOver(k)
        BY <3>1, RelayConstants DEF Limiter!Bucket
    <3>2. CASE ~Limiter!WindowOver(k)
      <4> DEFINE n == IF buckets[k].count > RateLimit THEN buckets[k].count
                      ELSE buckets[k].count + 1
      <4>1. n \in 0 .. RateLimit + 1
          BY <2>1, RelayConstants DEF Limiter!Bucket
      <4> HIDE DEF n
      <4>2. next = [buckets[k] EXCEPT !.count = n]
          BY <3>2 DEF n, Limiter!Counted
      <4> QED BY <2>1, <4>1, <4>2 DEF Limiter!Bucket
    <3> QED BY <3>1, <3>2
  <2>3. buckets' = [buckets EXCEPT ![k] = next]
      BY <1>2 DEF Limiter!Count
  <2> QED BY <2>2, <2>3 DEF Limiter!TypeOK
<1>3. ASSUME NEW k \in Fps, Limiter!Delete(k) PROVE Limiter!TypeOK'
    BY <1>1, <1>3 DEF Limiter!TypeOK, Limiter!Delete
<1>4. ASSUME Limiter!Tick PROVE Limiter!TypeOK'
  <2>1. ASSUME NEW k \in Fps, ~(buckets[k].age >= RateWindow)
        PROVE  [buckets[k] EXCEPT !.age = @ + 1] \in Limiter!Bucket
      BY <2>1, RelayConstants DEF Limiter!TypeOK, Limiter!Bucket
  <2> QED BY <1>1, <1>4, <2>1 DEF Limiter!TypeOK, Limiter!Tick
<1> QED BY <1>2, <1>3, <1>4

LEMMA GuardType ==
    ASSUME Guard!TypeOK
    PROVE  /\ \A f \in Fps : Guard!Purge(f) => Guard!TypeOK'
           /\ \A f \in Fps, n \in Nonces : Guard!Mark(f, n) => Guard!TypeOK'
           /\ Guard!Tick => Guard!TypeOK'
<1>1. ASSUME NEW f \in Fps, Guard!Purge(f) PROVE Guard!TypeOK'
    BY <1>1, RelayConstants DEF Guard!TypeOK, Guard!Purge, Guard!NotSeen
<1>2. ASSUME NEW f \in Fps, NEW n \in Nonces, Guard!Mark(f, n) PROVE Guard!TypeOK'
    BY <1>2, RelayConstants DEF Guard!TypeOK, Guard!Mark, Guard!NotSeen
<1>3. ASSUME Guard!Tick PROVE Guard!TypeOK'
  <2>1. ASSUME NEW f \in Fps, NEW n \in Nonces
        PROVE  (IF seen[f][n] = Guard!NotSeen THEN Guard!NotSeen ELSE seen[f][n] + 1)
                    \in 0 .. Guard!NotSeen
    <3>1. seen[f][n] \in 0 .. MessageTtl + 1
        BY DEF Guard!TypeOK, Guard!NotSeen
    <3> QED BY <3>1, RelayConstants DEF Guard!NotSeen
  <2> QED BY <1>3, <2>1 DEF Guard!TypeOK, Guard!Tick
<1> QED BY <1>1, <1>2, <1>3

LEMMA CountMessageType ==
    ASSUME TypeOK, NEW c \in Conns, CountMessage(c)
    PROVE  Limiter!TypeOK'
<1>1. CASE fingerprint[c] = NoFp
    BY <1>1 DEF CountMessage, TypeOK, Limiter!TypeOK
<1>2. CASE fingerprint[c] # NoFp
  <2>1. fingerprint[c] \in Fps
      BY <1>2 DEF TypeOK
  <2> QED BY <1>2, <2>1, LimiterType DEF CountMessage, TypeOK
<1> QED BY <1>1, <1>2

LEMMA PurgeReplayType ==
    ASSUME TypeOK, NEW c \in Conns, PurgeReplay(c)
    PROVE  Guard!TypeOK'
<1>1. CASE fingerprint[c] = NoFp
    BY <1>1 DEF PurgeReplay, TypeOK, Guard!TypeOK
<1>2. CASE fingerprint[c] # NoFp
  <2>1. fingerprint[c] \in Fps
      BY <1>2 DEF TypeOK
  <2> QED BY <1>2, <2>1, GuardType DEF PurgeReplay, TypeOK
<1> QED BY <1>1, <1>2

(* What the departure of c makes of the rooms.                              *)
LEMMA RoomsWithoutType ==
    ASSUME TypeOK, NEW c \in Conns
    PROVE  /\ RoomsWithout(c) \in [RoomIds -> RoomStates]
           /\ \A r \in RoomIds :
                /\ RoomsWithout(c)[r] = NoRoom <=> rooms[r] = NoRoom
                /\ r # roomId[c] => RoomsWithout(c)[r] = rooms[r]
                /\ rooms[r] # NoRoom /\ r = roomId[c] =>
                        RoomsWithout(c)[r].clients = Without(rooms[r].clients, c)
<1>1. rooms \in [RoomIds -> RoomStates]
    BY DEF TypeOK, RoomStates
<1>2. CASE HasRoom(roomId[c])
  <2> DEFINE room == UpdateLastActivity(RemoveClient(rooms[roomId[c]], c))
  <2>1. roomId[c] \in RoomIds /\ rooms[roomId[c]] \in Room
      BY <1>1, <1>2 DEF HasRoom, RoomStates
  <2>2. /\ room \in Room
        /\ room.clients = Without(rooms[roomId[c]].clients, c)
      BY <2>1, RemoveClientType, UpdateLastActivityType
  <2>3. RoomsWithout(c) = [rooms EXCEPT ![roomId[c]] = room]
      BY <1>2 DEF RoomsWithout
  <2> HIDE DEF room
  <2> QED BY <1>1, <2>1, <2>2, <2>3, <1>2, NoRoomAssumption DEF HasRoom, RoomStates
<1>3. CASE ~HasRoom(roomId[c])
  <2>1. RoomsWithout(c) = rooms
      BY <1>3 DEF RoomsWithout
  <2> QED BY <1>1, <1>3, <2>1 DEF HasRoom
<1> QED BY <1>2, <1>3
-----------------------------------------------------------------------------
(* The relay's state never leaves its types: TypeOK.                        *)

LEMMA InitTypeOK == Init => TypeOK
<1>1. Limiter!NoBucket \in Limiter!Bucket
    BY RelayConstants DEF Limiter!NoBucket, Limiter!Bucket
<1>2. Guard!NotSeen \in 0 .. Guard!NotSeen
    BY RelayConstants DEF Guard!NotSeen
<1> QED BY <1>1, <1>2, RelayConstants
        DEF Init, TypeOK, ReadyStates, Limiter!Init, Limiter!TypeOK, Guard!Init, Guard!TypeOK

(* Storing a room under an id.                                              *)
LEMMA StoreRoom ==
    ASSUME TypeOK, NEW r \in RoomIds, NEW room \in Room
    PROVE  [rooms EXCEPT ![r] = room] \in [RoomIds -> Room \cup {NoRoom}]
BY DEF TypeOK

(* The unprimed parts of the type invariant that a handler leaves alone.    *)
LEMMA FingerprintType ==
    ASSUME TypeOK, NEW c \in Conns, NEW f \in {NoFp, Identity[c]},
           fingerprint' = [fingerprint EXCEPT ![c] = f]
    PROVE  /\ \A d \in Conns : fingerprint'[d] \in {NoFp, Identity[d]}
           /\ fingerprint' \in [Conns -> Fps \cup {NoFp}]
BY RelayConstants DEF TypeOK

LEMMA UnchangedType ==
    ASSUME TypeOK
    PROVE  /\ rooms' = rooms => rooms' \in [RoomIds -> Room \cup {NoRoom}]
           /\ ready' = ready => ready' \in [Conns -> ReadyStates]
           /\ roomId' = roomId => roomId' \in [Conns -> RoomIds \cup {NoRoomId}]
           /\ fingerprint' = fingerprint =>
                /\ \A d \in Conns : fingerprint'[d] \in {NoFp, Identity[d]}
                /\ fingerprint' \in [Conns -> Fps \cup {NoFp}]
           /\ violations' = violations => violations' \in [Conns -> 0 .. MaxViolations]
           /\ seen' = seen => Guard!TypeOK'
           /\ buckets' = buckets => Limiter!TypeOK'
BY DEF TypeOK, Guard!TypeOK, Limiter!TypeOK

(* The frames on entering a room, and on leaving one.                       *)
LEMMA EnterFrames ==
    ASSUME TypeOK, NEW c \in Conns, NEW f \in {NoFp} \cup Fps, NEW D
    PROVE  /\ SuccessAnd(c, Deliver(D, "client:joined", f)) \in [Conns -> Frame \cup {NoFrame}]
           /\ SuccessAnd(c, Deliver(D, "client:left", f)) \in [Conns -> Frame \cup {NoFrame}]
           /\ Success(c) \in [Conns -> Frame \cup {NoFrame}]
<1>1. /\ Deliver(D, "client:joined", f) \in [Conns -> Frame \cup {NoFrame}]
      /\ Deliver(D, "client:left", f) \in [Conns -> Frame \cup {NoFrame}]
    BY DeliverType DEF Events
<1> QED BY <1>1, SilenceType, SuccessAndType DEF Success

LEMMA NextTypeOK == TypeOK /\ [Next]_vars => TypeOK'
<1> SUFFICES ASSUME TypeOK, [Next]_vars PROVE TypeOK'
    OBVIOUS
<1> USE UnchangedType
<1>1. ASSUME NEW c \in Conns, Accept(c) PROVE TypeOK'
    BY <1>1, SilenceType DEF Accept, TypeOK, ReadyStates
<1>2. ASSUME NEW c \in Conns, NEW r \in RoomIds, NEW t \in Tokens, NEW f \in Announces(c),
             CreateRoom(c, r, t, f)
      PROVE TypeOK'
  <2>1. rooms' \in [RoomIds -> Room \cup {NoRoom}]
      BY <1>2, AddRoomType, AddClientType, StoreRoom DEF CreateRoom
  <2>2. roomId' \in [Conns -> RoomIds \cup {NoRoomId}]
      BY <1>2 DEF CreateRoom, TypeOK
  <2>3. /\ \A d \in Conns : fingerprint'[d] \in {NoFp, Identity[d]}
        /\ fingerprint' \in [Conns -> Fps \cup {NoFp}]
      BY <1>2, KnownType, FingerprintType DEF CreateRoom
  <2>4. sent' \in [Conns -> Frame \cup {NoFrame}]
      BY <1>2, EnterFrames DEF CreateRoom
  <2> QED BY <1>2, <2>1, <2>2, <2>3, <2>4 DEF CreateRoom, TypeOK
<1>3. ASSUME NEW c \in Conns, NEW r \in RoomIds, NEW t \in Tokens, NEW f \in Announces(c),
             RejoinRoom(c, r, t, f)
      PROVE TypeOK'
  <2>1. rooms[r] \in Room
      BY <1>3 DEF RejoinRoom, CanRejoin, HasRoom, TypeOK
  <2>2. rooms' \in [RoomIds -> Room \cup {NoRoom}]
      BY <1>3, <2>1, AddClientType, StoreRoom DEF RejoinRoom
  <2>3. roomId' \in [Conns -> RoomIds \cup {NoRoomId}]
      BY <1>3 DEF RejoinRoom, TypeOK
  <2>4. /\ \A d \in Conns : fingerprint'[d] \in {NoFp, Identity[d]}
        /\ fingerprint' \in [Conns -> Fps \cup {NoFp}]
      BY <1>3, KnownType, FingerprintType DEF RejoinRoom
  <2>5. sent' \in [Conns -> Frame \cup {NoFrame}]
      BY <1>3, KnownType, EnterFrames DEF RejoinRoom
  <2> QED BY <1>3, <2>2, <2>3, <2>4, <2>5 DEF RejoinRoom, TypeOK
<1>4. ASSUME NEW c \in Conns, NEW r \in RoomIds, NEW t \in Tokens, NEW f \in Announces(c),
             JoinRoom(c, r, t, f)
      PROVE TypeOK'
  <2>1. rooms[r] \in Room
      BY <1>4 DEF JoinRoom, CanJoin, HasRoom, TypeOK
  <2>2. rooms' \in [RoomIds -> Room \cup {NoRoom}]
      BY <1>4, <2>1, AddClientType, BindInviteTokenType, KnownType, StoreRoom DEF JoinRoom
  <2>3. roomId' \in [Conns -> RoomIds \cup {NoRoomId}]
      BY <1>4 DEF JoinRoom, TypeOK
  <2>4. /\ \A d \in Conns : fingerprint'[d] \in {NoFp, Identity[d]}
        /\ fingerprint' \in [Conns -> Fps \cup {NoFp}]
      BY <1>4, KnownType, FingerprintType DEF JoinRoom
  <2>5. sent' \in [Conns -> Frame \cup {NoFrame}]
      BY <1>4, KnownType, EnterFrames DEF JoinRoom
  <2> QED BY <1>4, <2>2, <2>3, <2>4, <2>5 DEF JoinRoom, TypeOK
<1>5. ASSUME NEW c \in Conns, NEW r \in RoomIds, NEW t \in Tokens, NEW f \in Announces(c),
             RefuseCreate(c, r, t, f)
      PROVE TypeOK'
  <2>1. /\ \A d \in Conns : fingerprint'[d] \in {NoFp, Identity[d]}
        /\ fingerprint' \in [Conns -> Fps \cup {NoFp}]
      BY <1>5, KnownType, FingerprintType DEF RefuseCreate
  <2>2. Reject(c)
      BY <1>5 DEF RefuseCreate
  <2> QED BY <1>5, <2>1, <2>2, RejectType DEF RefuseCreate, TypeOK
<1>6. ASSUME NEW c \in Conns, NEW r \in RoomIds, NEW t \in Tokens, NEW f \in Announces(c),
             RefuseJoin(c, r, t, f)
      PROVE TypeOK'
  <2>1. /\ \A d \in Conns : fingerprint'[d] \in {NoFp, Identity[d]}
        /\ fingerprint' \in [Conns -> Fps \cup {NoFp}]
      BY <1>6, KnownType, FingerprintType DEF RefuseJoin
  <2>2. Reject(c)
      BY <1>6 DEF RefuseJoin
  <2> QED BY <1>6, <2>1, <2>2, RejectType DEF RefuseJoin, TypeOK
<1>7. ASSUME NEW c \in Conns, NEW r \in RoomIds, KeyExchange(c, r) PROVE TypeOK'
  <2>1. rooms' \in [RoomIds -> Room \cup {NoRoom}]
      BY <1>7, TouchedType DEF KeyExchange, RoomStates
  <2>2. /\ \A d \in Conns : fingerprint'[d] \in {NoFp, Identity[d]}
        /\ fingerprint' \in [Conns -> Fps \cup {NoFp}]
      BY <1>7, FingerprintType DEF KeyExchange
  <2>3. sent' \in [Conns -> Frame \cup {NoFrame}]
    <3>1. Identity[c] \in {NoFp} \cup Fps
        BY RelayConstants
    <3> QED BY <1>7, <3>1, DeliverType DEF KeyExchange, Events
  <2> QED BY <1>7, <2>1, <2>2, <2>3 DEF KeyExchange, TypeOK
<1>8. ASSUME NEW c \in Conns, NEW r \in RoomIds, RefuseKeyExchange(c, r) PROVE TypeOK'
  <2>1. Reject(c)
      BY <1>8 DEF RefuseKeyExchange
  <2> QED BY <1>8, <2>1, RejectType DEF RefuseKeyExchange, TypeOK
<1>9. ASSUME NEW c \in Conns, NEW r \in RoomIds, RefuseMessage(c, r) PROVE TypeOK'
  <2>1. Reject(c)
      BY <1>9 DEF RefuseMessage
  <2> QED BY <1>9, <2>1, RejectType DEF RefuseMessage, TypeOK
<1>10. ASSUME NEW c \in Conns, NEW r \in RoomIds, NEW t \in Tokens,
              RefuseInvite(c, r, t)
       PROVE TypeOK'
  <2>1. Reject(c)
      BY <1>10 DEF RefuseInvite
  <2> QED BY <1>10, <2>1, RejectType DEF RefuseInvite, TypeOK
<1>11. ASSUME NEW c \in Conns, BadRequest(c) PROVE TypeOK'
  <2>1. Reject(c)
      BY <1>11 DEF BadRequest
  <2> QED BY <1>11, <2>1, RejectType DEF BadRequest, TypeOK
<1>12. ASSUME NEW c \in Conns, RateLimitMessage(c) PROVE TypeOK'
  <2>1. Reject(c) /\ CountMessage(c)
      BY <1>12 DEF RateLimitMessage
  <2> QED BY <1>12, <2>1, RejectType, CountMessageType DEF RateLimitMessage, TypeOK
<1>13. ASSUME NEW c \in Conns, RefuseFile(c) PROVE TypeOK'
  <2>1. Reject(c) /\ CountMessage(c)
      BY <1>13 DEF RefuseFile
  <2> QED BY <1>13, <2>1, RejectType, CountMessageType DEF RefuseFile, TypeOK
<1>14. ASSUME NEW c \in Conns, NEW n \in Nonces, RefuseReplay(c, n) PROVE TypeOK'
  <2>1. Reject(c) /\ CountMessage(c)
      BY <1>14 DEF RefuseReplay
  <2> QED BY <1>14, <2>1, RejectType, CountMessageType DEF RefuseReplay, TypeOK
<1>15. ASSUME NEW c \in Conns, NEW n \in Nonces, NEW to \in Fps, SendTargeted(c, n, to)
       PROVE TypeOK'
  <2>1. Limiter!TypeOK'
      BY <1>15, CountMessageType DEF SendTargeted, PassChecks
  <2>2. Guard!TypeOK'
    <3>1. Identity[c] \in Fps
        BY RelayConstants
    <3> QED BY <1>15, <3>1, GuardType DEF SendTargeted, PassChecks, TypeOK
  <2>3. sent' \in [Conns -> Frame \cup {NoFrame}]
    <3>1. Identity[c] \in {NoFp} \cup Fps
        BY RelayConstants
    <3> QED BY <1>15, <3>1, DeliverType DEF SendTargeted, Events
  <2> QED BY <1>15, <2>1, <2>2, <2>3 DEF SendTargeted, TypeOK, conn
<1>16. ASSUME NEW c \in Conns, NEW n \in Nonces, SendBroadcast(c, n) PROVE TypeOK'
  <2>1. Limiter!TypeOK'
      BY <1>16, CountMessageType DEF SendBroadcast, PassChecks
  <2>2. Guard!TypeOK'
    <3>1. Identity[c] \in Fps
        BY RelayConstants
    <3> QED BY <1>16, <3>1, GuardType DEF SendBroadcast, PassChecks, TypeOK
  <2>3. sent' \in [Conns -> Frame \cup {NoFrame}]
    <3>1. Identity[c] \in {NoFp} \cup Fps
        BY RelayConstants
    <3> QED BY <1>16, <3>1, DeliverType DEF SendBroadcast, Events
  <2>4. rooms' \in [RoomIds -> Room \cup {NoRoom}]
      BY <1>16, TouchedType DEF SendBroadcast, RoomStates
  <2> QED BY <1>16, <2>1, <2>2, <2>3, <2>4 DEF SendBroadcast, TypeOK, conn
<1>17. ASSUME NEW c \in Conns, NEW r \in RoomIds, NEW t \in Tokens,
              InviteCreate(c, r, t)
       PROVE TypeOK'
  <2>1. rooms[r] \in Room
      BY <1>17 DEF InviteCreate, CanInvite, HasRoom, TypeOK
  <2>2. rooms' \in [RoomIds -> Room \cup {NoRoom}]
      BY <1>17, <2>1, AddInviteTokenType, StoreRoom DEF InviteCreate
  <2>3. sent' \in [Conns -> Frame \cup {NoFrame}]
      BY <1>17, EnterFrames DEF InviteCreate
  <2> QED BY <1>17, <2>2, <2>3 DEF InviteCreate, TypeOK, conn
<1>18. ASSUME NEW c \in Conns, Typing(c) PROVE TypeOK'
  <2>1. rooms' \in [RoomIds -> Room \cup {NoRoom}]
      BY <1>18, TouchedType DEF Typing, RoomStates
  <2>2. sent' \in [Conns -> Frame \cup {NoFrame}]
    <3>1. fingerprint[c] \in {NoFp} \cup Fps
        BY DEF TypeOK
    <3> QED BY <1>18, <3>1, DeliverType DEF Typing, Events
  <2> QED BY <1>18, <2>1, <2>2 DEF Typing, TypeOK, conn
<1>19. ASSUME NEW c \in Conns, LeaveRoom(c) PROVE TypeOK'
  <2>1. rooms' \in [RoomIds -> Room \cup {NoRoom}]
      BY <1>19, RoomsWithoutType DEF LeaveRoom, RoomStates
  <2>2. Guard!TypeOK'
      BY <1>19, PurgeReplayType DEF LeaveRoom
  <2>3. sent' \in [Conns -> Frame \cup {NoFrame}]
    <3>1. fingerprint[c] \in {NoFp} \cup Fps
        BY DEF TypeOK
    <3> QED BY <1>19, <3>1, EnterFrames DEF LeaveRoom
  <2>4. roomId' \in [Conns -> RoomIds \cup {NoRoomId}]
      BY <1>19 DEF LeaveRoom, TypeOK
  <2> QED BY <1>19, <2>1, <2>2, <2>3, <2>4 DEF LeaveRoom, TypeOK
<1>20. ASSUME NEW c \in Conns, Malformed(c) PROVE TypeOK'
  <2>1. sent' \in [Conns -> Frame \cup {NoFrame}]
      BY <1>20, DeliverType DEF Malformed, Events
  <2> QED BY <1>20, <2>1 DEF Malformed, TypeOK, conn
<1>21. ASSUME NEW c \in Conns, BeginClose(c) PROVE TypeOK'
    BY <1>21, SilenceType DEF BeginClose, TypeOK, ReadyStates
<1>22. ASSUME NEW c \in Conns, Disconnect(c) PROVE TypeOK'
  <2>1. rooms' \in [RoomIds -> Room \cup {NoRoom}]
      BY <1>22, RoomsWithoutType DEF Disconnect, RoomStates
  <2>2. Guard!TypeOK' /\ Limiter!TypeOK'
    <3>1. CASE roomId[c] = NoRoomId \/ fingerprint[c] = NoFp
        BY <1>22, <3>1 DEF Disconnect
    <3>2. CASE ~(roomId[c] = NoRoomId \/ fingerprint[c] = NoFp)
      <4>1. fingerprint[c] \in Fps
          BY <3>2 DEF TypeOK
      <4>2. Guard!Purge(fingerprint[c]) /\ Limiter!Delete(fingerprint[c])
          BY <1>22, <3>2 DEF Disconnect
      <4> QED BY <4>1, <4>2, GuardType, LimiterType DEF TypeOK
    <3> QED BY <3>1, <3>2
  <2>3. sent' \in [Conns -> Frame \cup {NoFrame}]
    <3>1. fingerprint[c] \in {NoFp} \cup Fps
        BY DEF TypeOK
    <3> QED BY <1>22, <3>1, DeliverType DEF Disconnect, Events
  <2>4. ready' \in [Conns -> ReadyStates]
      BY <1>22 DEF Disconnect, TypeOK, ReadyStates
  <2> QED BY <1>22, <2>1, <2>2, <2>3, <2>4 DEF Disconnect, TypeOK
<1>23. ASSUME Cleanup PROVE TypeOK'
  <2>1. rooms' \in [RoomIds -> Room \cup {NoRoom}]
      BY <1>23 DEF Cleanup, TypeOK
  <2>2. ready' \in [Conns -> ReadyStates]
      BY <1>23 DEF Cleanup, TypeOK, ReadyStates
  <2>3. sent' \in [Conns -> Frame \cup {NoFrame}]
      BY <1>23, DeliverType DEF Cleanup, Events
  <2> QED BY <1>23, <2>1, <2>2, <2>3 DEF Cleanup, TypeOK
<1>24. ASSUME Tick PROVE TypeOK'
  <2>1. rooms' \in [RoomIds -> Room \cup {NoRoom}]
    <3>1. \A r \in RoomIds : HasRoom(r) => Aged(rooms[r]) \in Room
        BY AgedType DEF HasRoom, TypeOK
    <3> QED BY <1>24, <3>1 DEF Tick
  <2>2. Guard!TypeOK' /\ Limiter!TypeOK'
      BY <1>24, GuardType, LimiterType DEF Tick, TypeOK
  <2> QED BY <1>24, <2>1, <2>2, SilenceType DEF Tick, TypeOK, conn
<1>25. ASSUME UNCHANGED vars PROVE TypeOK'
    BY <1>25 DEF vars, conn, TypeOK
<1> QED
  BY <1>1, <1>2, <1>3, <1>4, <1>5, <1>6, <1>7, <1>8, <1>9, <1>10,
     <1>11, <1>12, <1>13, <1>14, <1>15, <1>16, <1>17, <1>18, <1>19, <1>20,
     <1>21, <1>22, <1>23, <1>24, <1>25
     DEF Next, Handle, SocketEvent, RoomRequest, PeerRequest, MessageRequest

(* Whatever frames arrive in whatever order, sockets close and timers fire, *)
(* every part of the relay's state keeps its type; in particular a          *)
(* connection is only ever known by its own fingerprint, and violations,    *)
(* ages and counters stay within their bounds.                             *)
THEOREM TypeCorrect == Spec => []TypeOK
<1>1. Init => TypeOK
    BY InitTypeOK
<1>2. TypeOK /\ [Next]_vars => TypeOK'
    BY NextTypeOK
<1> QED BY <1>1, <1>2, PTL DEF Spec
=============================================================================
