----------------------------- MODULE RoomAccess -----------------------------
(***************************************************************************)
(* What the relay promises about rooms, without lists, clocks, violations, *)
(* sockets or frames: who is inside which open room, and what each invite  *)
(* token of it is worth.                                                   *)
(*                                                                         *)
(*   - a room is opened by one connection with one unused token;           *)
(*   - an open room is entered one connection at a time, within its        *)
(*     capacity, on a token that is unused or belongs to the identity of   *)
(*     the connection, and a token changes hands only from unused to the   *)
(*     identity that enters on it;                                         *)
(*   - a connection goes out of one room at a time, and otherwise nobody   *)
(*     is put out except by the closing of the room, which ends its tokens *)
(*     with it.                                                            *)
(*                                                                         *)
(* Relay implements this specification (Relay!ImplementsRoomAccess).       *)
(***************************************************************************)
EXTENDS Integers, FiniteSets

CONSTANTS Conns, Fps, Tokens, RoomIds, Identity, NoFp, Absent, MaxParticipants

VARIABLES
    open,     \* the rooms that exist
    members,  \* the connections inside each room
    invites   \* the worth of each token: Absent, NoFp (unused) or its owner

access == <<open, members, invites>>

TypeOK ==
    /\ open \subseteq RoomIds
    /\ members \in [RoomIds -> SUBSET Conns]
    /\ invites \in [RoomIds -> [Tokens -> {Absent, NoFp} \cup Fps]]

NoInvites == [t \in Tokens |-> Absent]

Init ==
    /\ open = {}
    /\ members = [r \in RoomIds |-> {}]
    /\ invites = [r \in RoomIds |-> NoInvites]

Open(c, r, t) ==
    /\ r \notin open
    /\ open' = open \cup {r}
    /\ members' = [members EXCEPT ![r] = {c}]
    /\ invites' = [invites EXCEPT ![r] = [NoInvites EXCEPT ![t] = NoFp]]

(* f is the fingerprint c enters with; owner what becomes of an unused t.   *)
Enter(c, r, t, f) ==
    /\ r \in open
    /\ c \notin members[r]
    /\ Cardinality(members[r]) < MaxParticipants
    /\ f \in {NoFp, Identity[c]}
    /\ invites[r][t] \in {NoFp, f}
    /\ members' = [members EXCEPT ![r] = @ \cup {c}]
    /\ \E owner \in {invites[r][t], f} : invites' = [invites EXCEPT ![r][t] = owner]
    /\ UNCHANGED open

Mint(r, t) ==
    /\ r \in open
    /\ invites[r][t] = Absent
    /\ invites' = [invites EXCEPT ![r][t] = NoFp]
    /\ UNCHANGED <<open, members>>

Depart(c, r) ==
    /\ c \in members[r]
    /\ members' = [members EXCEPT ![r] = @ \ {c}]
    /\ UNCHANGED <<open, invites>>

Close(R) ==
    /\ R \subseteq open
    /\ open' = open \ R
    /\ members' = [r \in RoomIds |-> IF r \in R THEN {} ELSE members[r]]
    /\ invites' = [r \in RoomIds |-> IF r \in R THEN NoInvites ELSE invites[r]]

Next ==
    \/ \E c \in Conns, r \in RoomIds :
        \/ Depart(c, r)
        \/ \E t \in Tokens :
            \/ Open(c, r, t)
            \/ \E f \in Fps \cup {NoFp} : Enter(c, r, t, f)
    \/ \E r \in RoomIds, t \in Tokens : Mint(r, t)
    \/ \E R \in SUBSET RoomIds : Close(R)

Spec == Init /\ [][Next]_access
=============================================================================
