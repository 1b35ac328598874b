---------------------------- MODULE ReplayGuard ----------------------------
(***************************************************************************)
(* ReplayGuard of backend/src/ws/handler.ts: the nonces seen per sender    *)
(* fingerprint.  seen[f][n] is the age of the entry; an age past the TTL   *)
(* stands for "no entry", since checkAndMark prunes such entries before it *)
(* looks, whichever nonce of that fingerprint it is asked about.           *)
(***************************************************************************)
EXTENDS Integers

CONSTANTS
    Fps,       \* fingerprints
    Nonces,    \* message nonces
    Enabled,   \* config.replayProtectionEnabled, a Boolean
    Ttl        \* config.messageTtlMinutes, a natural number

VARIABLE seen

NotSeen == Ttl + 1

TypeOK == seen \in [Fps -> [Nonces -> 0 .. NotSeen]]

Init == seen = [f \in Fps |-> [n \in Nonces |-> NotSeen]]

Fresh(f, n) == Enabled => seen[f][n] = NotSeen

(* checkAndMark on a fresh nonce; on a known one nothing is stored.         *)
Mark(f, n) ==
    /\ Fresh(f, n)
    /\ seen' = IF Enabled THEN [seen EXCEPT ![f][n] = 0] ELSE seen

Purge(f) == seen' = [seen EXCEPT ![f] = [n \in Nonces |-> NotSeen]]

Tick ==
    seen' = [f \in Fps |-> [n \in Nonces |->
                IF seen[f][n] = NotSeen THEN NotSeen ELSE seen[f][n] + 1]]
=============================================================================
