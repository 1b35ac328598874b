----------------------------- MODULE Admission -----------------------------
(***************************************************************************)
(* What a message:send has to pass before it is forwarded: the rate limit  *)
(* of its sender, then the replay guard (handleSendMessage), and what      *)
(* leaving and disconnecting do to both.  The rooms are left out; beside   *)
(* the two guards the module keeps a log of what they have let through.    *)
(***************************************************************************)
EXTENDS Integers

CONSTANTS Fps, Nonces, Enabled, Ttl, Limit, Window

ASSUME AdmissionConstants ==
    /\ Enabled \in BOOLEAN
    /\ Ttl \in Nat
    /\ Limit \in Nat
    /\ Window \in Nat

VARIABLES
    buckets,   \* WebSocketHandler.messageRateBuckets
    seen,      \* ReplayGuard.seen
    passed,    \* passed[f][a]: messages within the rate over connections that
               \* announced f, in the last a units and since f's bucket was
               \* last deleted
    since      \* since[f][n]: time since n was last accepted from f, up to one
               \* past the TTL

vars == <<buckets, seen, passed, since>>

Limiter == INSTANCE FixedWindow WITH Keys <- Fps
Guard == INSTANCE ReplayGuard

Nobody == [a \in 0 .. Window |-> 0]

Init ==
    /\ Limiter!Init
    /\ Guard!Init
    /\ passed = [f \in Fps |-> Nobody]
    /\ since = [f \in Fps |-> [n \in Nonces |-> Ttl + 1]]

(* The rate limit goes by the fingerprint of the connection: one that never *)
(* announced its own (announced is FALSE) is not limited.  The replay guard *)
(* goes by the fingerprint in the message.  It is f in both cases: a page   *)
(* knows one fingerprint, its own.                                          *)
WithinRate(f, announced) ==
    \/ /\ announced
       /\ Limiter!Allows(f)
       /\ Limiter!Count(f)
       /\ passed' = [passed EXCEPT ![f] = [a \in 0 .. Window |-> passed[f][a] + 1]]
    \/ /\ ~announced
       /\ UNCHANGED <<buckets, passed>>

TooFast(f) ==
    /\ ~Limiter!Allows(f)
    /\ Limiter!Count(f)
    /\ UNCHANGED <<seen, passed, since>>

(* Mutant of BadFile: the nonce is marked before the file is looked at.     *)
BadFileMarked(f, announced) ==
    /\ WithinRate(f, announced)
    /\ \E n \in Nonces : Guard!Mark(f, n)
    /\ UNCHANGED since

(* A file without a size or above the limit.                                *)
BadFile(f, announced) ==
    /\ WithinRate(f, announced)
    /\ UNCHANGED <<seen, since>>

Replayed(f, n, announced) ==
    /\ WithinRate(f, announced)
    /\ ~Guard!Fresh(f, n)
    /\ UNCHANGED <<seen, since>>

Accepted(f, n, announced) ==
    /\ WithinRate(f, announced)
    /\ Guard!Mark(f, n)
    /\ since' = [since EXCEPT ![f][n] = 0]

(* A connection that announced f leaves its room.  Of one that announced    *)
(* nothing neither guard hears, here and in Disconnect.                     *)
Leave(f) ==
    /\ Guard!Purge(f)
    /\ UNCHANGED <<buckets, passed, since>>

(* A connection that announced f closes while it is in a room.              *)
Disconnect(f) ==
    /\ Guard!Purge(f)
    /\ Limiter!Delete(f)
    /\ passed' = [passed EXCEPT ![f] = Nobody]
    /\ UNCHANGED since

Elapse ==
    /\ Limiter!Tick
    /\ Guard!Tick
    /\ passed' = [f \in Fps |-> [a \in 0 .. Window |->
                    IF a = 0 THEN 0 ELSE passed[f][a - 1]]]
    /\ since' = [f \in Fps |-> [n \in Nonces |->
                    IF since[f][n] > Ttl THEN Ttl + 1 ELSE since[f][n] + 1]]

Next ==
    \/ Elapse
    \/ \E f \in Fps :
        \/ TooFast(f)
        \/ \E announced \in BOOLEAN :
            \/ BadFile(f, announced)
            \/ \E n \in Nonces : Replayed(f, n, announced) \/ Accepted(f, n, announced)
        \/ Leave(f)
        \/ Disconnect(f)

Spec == Init /\ [][Next]_vars

InWindow(f) == passed[f][Window]

(* Over any stretch of one window, wherever it starts, the connections that *)
(* announced a fingerprint get at most twice the limit through under it, as *)
(* long as none disconnects: the end of one window and the start of the     *)
(* next (checkMessageRateLimit).  A limit of 0 still lets one message per   *)
(* window through, the one that opens it.                                   *)
AtMostTwoWindows ==
    \A f \in Fps : InWindow(f) <= 2 * (IF Limit = 0 THEN 1 ELSE Limit)

(* A sender is never slowed down unless it has used up its limit within the *)
(* last window: a refusal is always earned, the replays and files it was    *)
(* refused counting, and a user that comes back after a disconnect starts   *)
(* afresh.                                                                  *)
RefusalsEarned ==
    \A f \in Fps : ~Limiter!Allows(f) => InWindow(f) >= Limit

(* What the guard would refuse as a replay was accepted from that sender    *)
(* within the TTL: a message refused for its rate or its file can be sent   *)
(* again, a nonce is free when the TTL is over, and no other sender's use   *)
(* of it counts (handleSendMessage, checkAndMark).                          *)
OnlyReplaysRefused ==
    \A f \in Fps, n \in Nonces : ~Guard!Fresh(f, n) => since[f][n] <= Ttl

(* "Message nonces tracked per fingerprint within a TTL window.  Duplicate  *)
(* messages (same nonce, same fingerprint) are rejected"                    *)
(* (docs/protocol.md:263-264): what is accepted while the guard is enabled  *)
(* was not accepted from that sender within the TTL.                        *)
DuplicatesRefused ==
    [][\A f \in Fps, n \in Nonces :
        Enabled /\ (\E announced \in BOOLEAN : Accepted(f, n, announced))
            => since[f][n] > Ttl]_vars
=============================================================================
