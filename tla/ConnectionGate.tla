--------------------------- MODULE ConnectionGate ---------------------------
(***************************************************************************)
(* How connections come to the relay and go (backend/src/server.ts): the   *)
(* checks of an upgrade request, the count of connections per IP, the rate *)
(* buckets per IP with the pass that removes stale ones, and SIGTERM.      *)
(*                                                                         *)
(* The ws library calls verifyClient when a request arrives and, if it     *)
(* accepts and the TCP connection is still there, emits 'connection' in    *)
(* the same turn of the event loop; 'close' follows once.                  *)
(***************************************************************************)
EXTENDS Integers, FiniteSets

CONSTANTS
    Ips,
    NoIp,            \* of a socket that is not in use
    Sockets,         \* TCP connections there may be at a time
    Origins,         \* Origin headers: records of protocol, host and port
    AllowedOrigins,  \* config.allowedOrigins
    MaxPerIp,        \* config.rateLimitMaxConnectionsPerIp
    Limit,           \* config.rateLimitMaxRequests
    Window           \* config.rateLimitWindowMs

ASSUME GateConstants ==
    /\ NoIp \notin Ips
    /\ IsFiniteSet(Sockets)
    /\ MaxPerIp \in Nat
    /\ Limit \in Nat
    /\ Window \in Nat

VARIABLES
    stage,        \* stage[s]: "free", "dialed" or, a WebSocket now, "open"
    from,         \* from[s]: where it comes from
    counts,       \* connectionCounts, 0 when there is none
    rateBuckets,
    stopping,     \* SIGTERM has been handled
    exited

vars == <<stage, from, counts, rateBuckets, stopping, exited>>

(* The pass removes the bucket once its window is over twice.               *)
Bucket == [count : 1 .. Limit + 1, age : 0 .. 2 * Window + 1]

NoBucket == [count |-> 0, age |-> 0]

TypeOK ==
    /\ stage \in [Sockets -> {"free", "dialed", "open"}]
    /\ from \in [Sockets -> Ips \cup {NoIp}]
    /\ counts \in [Ips -> Nat]
    /\ rateBuckets \in [Ips -> Bucket \cup {NoBucket}]
    /\ stopping \in BOOLEAN
    /\ exited \in BOOLEAN

Init ==
    /\ stage = [s \in Sockets |-> "free"]
    /\ from = [s \in Sockets |-> NoIp]
    /\ counts = [ip \in Ips |-> 0]
    /\ rateBuckets = [ip \in Ips |-> NoBucket]
    /\ stopping = FALSE
    /\ exited = FALSE

Unused(ip) == rateBuckets[ip] = NoBucket \/ rateBuckets[ip].age > Window

(* checkRateLimit: the answer, and what it leaves behind.                   *)
Allows(ip) == Unused(ip) \/ rateBuckets[ip].count < Limit

(* Mutant of Counted: a request starts the window again.                    *)
CountedAgain(ip) ==
    [rateBuckets EXCEPT ![ip] =
        IF Unused(ip) THEN [count |-> 1, age |-> 0]
        ELSE [count |-> IF @.count > Limit THEN @.count ELSE @.count + 1, age |-> 0]]

Counted(ip) ==
    [rateBuckets EXCEPT ![ip] =
        IF Unused(ip) THEN [count |-> 1, age |-> 0]
        ELSE [count |-> IF @.count > Limit THEN @.count ELSE @.count + 1, age |-> @.age]]

(* isOriginAllowed; an entry without a port allows every port.              *)
OriginAllowed(origin) ==
    \E a \in AllowedOrigins :
        /\ a.host = origin.host
        /\ a.port \in {"", origin.port}
        /\ a.protocol = origin.protocol

(* Mutant of HasRoom: one too many.                                         *)
HasRoomForOneMore(ip) == counts[ip] <= MaxPerIp

(* The last check of verifyClient.                                          *)
HasRoom(ip) == counts[ip] < MaxPerIp

Free(s) ==
    /\ stage' = [stage EXCEPT ![s] = "free"]
    /\ from' = [from EXCEPT ![s] = NoIp]

(* Mutant of Dial: the server goes on listening.                            *)
DialAlways(s, ip) ==
    /\ ~exited
    /\ stage[s] = "free"
    /\ stage' = [stage EXCEPT ![s] = "dialed"]
    /\ from' = [from EXCEPT ![s] = ip]
    /\ UNCHANGED <<counts, rateBuckets, stopping, exited>>

(* A TCP connection; server.close() accepts no more of them.                *)
Dial(s, ip) ==
    /\ ~stopping
    /\ stage[s] = "free"
    /\ stage' = [stage EXCEPT ![s] = "dialed"]
    /\ from' = [from EXCEPT ![s] = ip]
    /\ UNCHANGED <<counts, rateBuckets, stopping, exited>>

(* It ends without having become a WebSocket.                               *)
HangUp(s) ==
    /\ stage[s] = "dialed"
    /\ Free(s)
    /\ UNCHANGED <<counts, rateBuckets, stopping, exited>>

(* verifyClient refuses an origin before anything is counted.               *)
RefuseOrigin(s) ==
    /\ stage[s] = "dialed"
    /\ \E origin \in Origins : ~OriginAllowed(origin)
    /\ Free(s)
    /\ UNCHANGED <<counts, rateBuckets, stopping, exited>>

(* An upgrade request of an allowed origin: it counts, whether it is let    *)
(* in, refused, or its connection is gone by the time it would be.          *)
Upgrade(s) ==
    /\ stage[s] = "dialed"
    /\ \E origin \in Origins : OriginAllowed(origin)
    /\ rateBuckets' = Counted(from[s])
    /\ \/ /\ Allows(from[s]) /\ HasRoom(from[s])
          /\ stage' = [stage EXCEPT ![s] = "open"]
          /\ counts' = [counts EXCEPT ![from[s]] = @ + 1]
          /\ UNCHANGED from
       \/ Free(s) /\ UNCHANGED counts
    /\ UNCHANGED <<stopping, exited>>

(* Mutant of Uncounted: the entry goes with the first of two.               *)
UncountedAll(ip) == [counts EXCEPT ![ip] = IF @ <= 2 THEN 0 ELSE @ - 1]

(* Mutant of Uncounted: 'error' before 'close' takes one back as well.      *)
UncountedTwice(ip) == [counts EXCEPT ![ip] = @ - 2]

(* The 'close' listener: the entry of the last one is deleted.              *)
Uncounted(ip) == [counts EXCEPT ![ip] = IF @ <= 1 THEN 0 ELSE @ - 1]

Close(s) ==
    /\ stage[s] = "open"
    /\ counts' = Uncounted(from[s])
    /\ Free(s)
    /\ UNCHANGED <<rateBuckets, stopping, exited>>

(* Time passes; buckets that are stale already do not get older.            *)
Tick ==
    /\ ~exited
    /\ rateBuckets' = [ip \in Ips |->
        IF rateBuckets[ip] = NoBucket THEN NoBucket
        ELSE [rateBuckets[ip] EXCEPT !.age = IF @ > 2 * Window THEN @ ELSE @ + 1]]
    /\ UNCHANGED <<stage, from, counts, stopping, exited>>

(* Mutant of Stale: a bucket in its window is taken for stale.              *)
StaleEarly(ip) == rateBuckets[ip].age * 2 > Window

Stale(ip) == rateBuckets[ip].age > 2 * Window

(* The pass over the buckets every five minutes, at any time here.          *)
Sweep ==
    /\ ~exited
    /\ rateBuckets' = [ip \in Ips |-> IF Stale(ip) THEN NoBucket ELSE rateBuckets[ip]]
    /\ UNCHANGED <<stage, from, counts, stopping, exited>>

(* SIGTERM.  scheduler.stop() ends the cleanup, which Relay models.         *)
Sigterm ==
    /\ ~stopping
    /\ stopping' = TRUE
    /\ UNCHANGED <<stage, from, counts, rateBuckets, exited>>

(* The callback of server.close(), once every connection has ended.         *)
Exit ==
    /\ stopping /\ ~exited
    /\ \A s \in Sockets : stage[s] = "free"
    /\ exited' = TRUE
    /\ UNCHANGED <<stage, from, counts, rateBuckets, stopping>>

Next ==
    \/ \E s \in Sockets :
        \/ \E ip \in Ips : Dial(s, ip)
        \/ HangUp(s) \/ RefuseOrigin(s) \/ Upgrade(s) \/ Close(s)
    \/ Tick \/ Sweep \/ Sigterm \/ Exit

Spec == Init /\ [][Next]_vars

(* Timers run, and the callback of server.close() is called.                *)
FairSpec == Spec /\ WF_vars(Tick) /\ WF_vars(Exit)

Connected(ip) == {s \in Sockets : stage[s] = "open" /\ from[s] = ip}

(* The count of an IP is the number of its WebSockets, in whatever order    *)
(* they come and go, aborted upgrades included: nobody is locked out by a   *)
(* count that was not taken back, nor let in by one taken back twice        *)
(* (connectionCounts).                                                      *)
CountsMatch == \A ip \in Ips : counts[ip] = Cardinality(Connected(ip))

(* No IP has more WebSockets than it may.                                   *)
LimitKept == \A ip \in Ips : Cardinality(Connected(ip)) <= MaxPerIp

Abstract == INSTANCE FixedWindow WITH
    Keys <- Ips,
    buckets <- [ip \in Ips |->
        IF Unused(ip) THEN [count |-> 0, age |-> Window + 1] ELSE rateBuckets[ip]]

(* The buckets, with the pass that removes stale ones at any time, behave   *)
(* as the fixed-window limiter that has none: the pass never gives an IP a  *)
(* window before its time, nor takes one.                                   *)
ImplementsFixedWindow == Abstract!Counting

(* An IP that keeps being refused is let through again, however often it    *)
(* asks meanwhile: refused requests count but do not put off the window.    *)
NoLockout == \A ip \in Ips : []<>(exited \/ Allows(ip))

(* After SIGTERM the process exits, if no connection stays for ever: none   *)
(* that comes later keeps it.                                               *)
Drains ==
    (\A s \in Sockets : []<>(stage[s] = "free")) => (stopping ~> exited)
=============================================================================
