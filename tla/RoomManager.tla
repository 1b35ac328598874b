---------------------------- MODULE RoomManager ----------------------------
(***************************************************************************)
(* The room store of the relay: backend/src/rooms/manager.ts and room.ts.  *)
(*                                                                         *)
(* A room is a record of what RoomModel and RoomManager.inviteTokens keep  *)
(* for one room id.  Every method of the two classes is an operator from   *)
(* room to room; a handler composes the calls it makes and stores the      *)
(* result, which is faithful because Node runs a handler without yielding. *)
(*                                                                         *)
(* Time stamps (createdAt, lastActivity) are kept as ages.  An age stops   *)
(* growing one past the bound it is compared with: beyond that point the   *)
(* comparisons of the code cannot tell two ages apart.                     *)
(***************************************************************************)
EXTENDS Integers, FiniteSets, SequencesExt

CONSTANTS
    Conns,            \* the sockets that may ever be opened
    Fps,              \* fingerprints
    Tokens,           \* invite tokens
    NoFp,             \* the empty fingerprint: '' or undefined
    Absent,           \* a token the room's map has no entry for
    NoRoom,           \* a room id the rooms map has no entry for
    MaxParticipants,  \* config.maxParticipantsPerRoom
    IdleTimeout,      \* config.roomIdleTimeoutMinutes
    Lifetime          \* config.maxRoomLifetimeMinutes

ASSUME RoomConstants ==
    /\ MaxParticipants \in Nat \ {0}
    /\ IdleTimeout \in Nat
    /\ Lifetime \in Nat
    /\ NoFp \notin Fps
    /\ Absent \notin Fps \cup {NoFp}

(* What the token map can say of a token: no entry, '' (still unused), or   *)
(* the fingerprint it is bound to.                                         *)
TokenState == {Absent, NoFp} \cup Fps

Room == [clients : Seq(Conns),
         tokens  : [Tokens -> TokenState],
         age     : 0 .. Lifetime + 1,
         idle    : 0 .. IdleTimeout + 1]

ASSUME NoRoomAssumption == NoRoom \notin Room

Members(room) == ToSet(room.clients)

(* RoomManager.addRoom on a free id: nobody inside, one unused token.       *)
AddRoom(token) ==
    [clients |-> <<>>,
     tokens  |-> [t \in Tokens |-> IF t = token THEN NoFp ELSE Absent],
     age     |-> 0,
     idle    |-> 0]

UpdateLastActivity(room) == [room EXCEPT !.idle = 0]

(* Mutant of CanAddClient: the capacity is checked with <= instead of <.    *)
CanAddOneMore(room, conn) ==
    Len(room.clients) <= MaxParticipants /\ conn \notin Members(room)

(* RoomModel.addClient refuses a full room and a socket already listed.     *)
CanAddClient(room, conn) ==
    /\ Len(room.clients) < MaxParticipants
    /\ conn \notin Members(room)

AddClient(room, conn) ==
    IF CanAddClient(room, conn)
    THEN UpdateLastActivity([room EXCEPT !.clients = Append(@, conn)])
    ELSE room

(* The list without one of its elements.  The code filters by socket, and   *)
(* since addClient never lists a socket twice the filter drops one place.  *)
Without(list, conn) ==
    IF conn \in ToSet(list)
    THEN RemoveAt(list, CHOOSE i \in DOMAIN list : list[i] = conn)
    ELSE list

RemoveClient(room, conn) ==
    IF conn \in Members(room)
    THEN UpdateLastActivity([room EXCEPT !.clients = Without(@, conn)])
    ELSE room

(* A token opens the room while it is unused or when it belongs to the      *)
(* fingerprint that presents it.                                           *)
VerifyInviteToken(room, token, fp) == room.tokens[token] \in {NoFp, fp}

(* Mutant of BindInviteToken: the token is stored where its owner belongs.  *)
BindToItself(room, token, fp) == [room EXCEPT !.tokens[token] = token]

(* Binding with no fingerprint stores '', which leaves the token unused.    *)
BindInviteToken(room, token, fp) ==
    IF room.tokens[token] = NoFp THEN [room EXCEPT !.tokens[token] = fp]
                                 ELSE room

(* Mutant of CanAddInviteToken: a token that is registered is taken again.  *)
AlwaysAddInviteToken(room, token) == TRUE

CanAddInviteToken(room, token) == room.tokens[token] = Absent

AddInviteToken(room, token) == [room EXCEPT !.tokens[token] = NoFp]

(* Mutant of IsExpired: the absolute lifetime is forgotten.                 *)
IsIdle(room) == room.idle > IdleTimeout

IsExpired(room) == room.age > Lifetime \/ room.idle > IdleTimeout

(* One unit of time passes for a room.                                      *)
Aged(room) ==
    [room EXCEPT !.age  = IF @ > Lifetime THEN @ ELSE @ + 1,
                 !.idle = IF @ > IdleTimeout THEN @ ELSE @ + 1]
=============================================================================
