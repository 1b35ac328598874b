--------------------------- MODULE MessageHistory ---------------------------
(* Relay with a record of when something was last broadcast in a room.      *)
EXTENDS Relay

VARIABLE
    hushed     \* hushed[r]: time since anything was broadcast in r

HistoryInit ==
    /\ Init
    /\ hushed = [r \in RoomIds |-> IdleTimeout + 1]

(* A frame that broadcastToRoom put on a socket in this step.               *)
Broadcasts(c, r) ==
    /\ roomId[c] = r
    /\ \/ \E n \in Nonces : SendBroadcast(c, n)
       \/ KeyExchange(c, r)
       \/ Typing(c)
       \/ LeaveRoom(c)

Later(age, bound) == IF age > bound THEN age ELSE age + 1

Elapse ==
    /\ Tick
    /\ hushed' = [r \in RoomIds |-> Later(hushed[r], IdleTimeout)]

Record ==
    /\ Cleanup \/ \E c \in Conns : Handle(c)
    /\ hushed' = [r \in RoomIds |->
        IF \E c \in Conns : Broadcasts(c, r) THEN 0 ELSE hushed[r]]

HistoryNext == Elapse \/ Record

HistorySpec == HistoryInit /\ [][HistoryNext]_<<vars, hushed>>

(* The room has closed although its lifetime was not over.                  *)
ClosedIdle(r) == HasRoom(r) /\ ~HasRoom(r)' /\ rooms[r].age <= Lifetime

(* Whatever is broadcast in a room keeps it for another idle timeout        *)
(* (broadcastToRoom refreshes lastActivity).                                *)
BroadcastKeepsRoom ==
    [][\A r \in RoomIds : ClosedIdle(r) => hushed[r] > IdleTimeout]_<<vars, hushed>>
=============================================================================
