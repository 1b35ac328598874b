-------------------------- MODULE AdmissionProofs --------------------------
(***************************************************************************)
(* The guards against the log of what they let through, for any            *)
(* fingerprints, nonces, limit, window and TTL.  The replay guard's entry  *)
(* of a nonce is never younger than the log's: Mirrored, inductive with    *)
(* the types.  Of the rate limiter and its log, Paced relates the bucket   *)
(* of one sender to what that sender got through.                          *)
(***************************************************************************)
EXTENDS Admission, TLAPS

GuardTypes ==
    /\ seen \in [Fps -> [Nonces -> 0 .. Ttl + 1]]
    /\ since \in [Fps -> [Nonces -> 0 .. Ttl + 1]]

Mirrored == \A f \in Fps, n \in Nonces : since[f][n] <= seen[f][n]

GuardInv == GuardTypes /\ Mirrored

LEMMA InitMirrored == Init => GuardInv
BY AdmissionConstants DEF Init, GuardInv, GuardTypes, Mirrored, Guard!Init, Guard!NotSeen

LEMMA AcceptedMirrored ==
    ASSUME GuardInv, NEW f \in Fps, NEW n \in Nonces, NEW announced \in BOOLEAN,
           Accepted(f, n, announced)
    PROVE  GuardInv'
<1> USE AdmissionConstants DEF GuardInv, GuardTypes
<1>1. since' = [since EXCEPT ![f][n] = 0]
    BY DEF Accepted
<1>2. seen' = [seen EXCEPT ![f][n] = 0] \/ seen' = seen
    BY DEF Accepted, Guard!Mark
<1>3. GuardTypes'
  <2>1. 0 \in 0 .. Ttl + 1
      OBVIOUS
  <2>2. since' \in [Fps -> [Nonces -> 0 .. Ttl + 1]]
      BY <1>1, <2>1
  <2>3. seen' \in [Fps -> [Nonces -> 0 .. Ttl + 1]]
      BY <1>2, <2>1
  <2> QED BY <2>2, <2>3
<1>4. ASSUME NEW g \in Fps, NEW m \in Nonces PROVE since'[g][m] <= seen'[g][m]
  <2>1. CASE g = f /\ m = n
      BY <1>1, <1>3, <2>1
  <2>2. CASE ~(g = f /\ m = n)
    <3>1. seen'[g][m] = seen[g][m] /\ since'[g][m] = since[g][m]
        BY <1>1, <1>2, <2>2
    <3> QED BY <3>1 DEF Mirrored
  <2> QED BY <2>1, <2>2
<1> QED BY <1>3, <1>4 DEF Mirrored

LEMMA PurgeMirrored ==
    ASSUME GuardInv, NEW f \in Fps, Guard!Purge(f), since' = since
    PROVE  GuardInv'
<1> USE AdmissionConstants DEF GuardInv, GuardTypes
<1>1. seen' = [seen EXCEPT ![f] = [n \in Nonces |-> Ttl + 1]]
    BY DEF Guard!Purge, Guard!NotSeen
<1>2. GuardTypes'
  <2>1. [n \in Nonces |-> Ttl + 1] \in [Nonces -> 0 .. Ttl + 1]
      OBVIOUS
  <2> QED BY <1>1, <2>1
<1>3. ASSUME NEW g \in Fps, NEW m \in Nonces PROVE since'[g][m] <= seen'[g][m]
  <2>1. since[g][m] \in 0 .. Ttl + 1 /\ since[g][m] <= seen[g][m]
      BY DEF Mirrored
  <2> QED BY <1>1, <2>1
<1> QED BY <1>2, <1>3 DEF Mirrored

LEMMA ElapseMirrored ==
    ASSUME GuardInv, Elapse
    PROVE  GuardInv'
<1> DEFINE Older(age) == IF age > Ttl THEN Ttl + 1 ELSE age + 1
<1>1. \A f \in Fps, n \in Nonces :
        /\ seen[f][n] \in 0 .. Ttl + 1
        /\ since[f][n] \in 0 .. Ttl + 1
        /\ since[f][n] <= seen[f][n]
    BY DEF GuardInv, GuardTypes, Mirrored
<1>2. \A age \in 0 .. Ttl + 1 :
        /\ Older(age) \in 0 .. Ttl + 1
        /\ Older(age) = IF age = Ttl + 1 THEN Ttl + 1 ELSE age + 1
    BY AdmissionConstants
<1>3. \A f \in Fps, n \in Nonces :
        seen'[f][n] = Older(seen[f][n]) /\ since'[f][n] = Older(since[f][n])
  <2>1. \A f \in Fps, n \in Nonces :
          seen'[f][n] = IF seen[f][n] = Ttl + 1 THEN Ttl + 1 ELSE seen[f][n] + 1
      BY DEF Elapse, Guard!Tick, Guard!NotSeen
  <2>2. \A f \in Fps, n \in Nonces : since'[f][n] = Older(since[f][n])
      BY DEF Elapse
  <2> HIDE DEF Older
  <2> QED BY <1>1, <1>2, <2>1, <2>2
<1>4. GuardTypes'
  <2>1. seen' = [f \in Fps |-> [n \in Nonces |-> seen'[f][n]]]
        /\ since' = [f \in Fps |-> [n \in Nonces |-> since'[f][n]]]
      BY DEF Elapse, Guard!Tick
  <2>2. \A f \in Fps, n \in Nonces : seen'[f][n] \in 0 .. Ttl + 1 /\ since'[f][n] \in 0 .. Ttl + 1
    <3> HIDE DEF Older
    <3> QED BY <1>1, <1>2, <1>3
  <2> QED BY <2>1, <2>2 DEF GuardTypes
<1>5. \A x, y \in 0 .. Ttl + 1 : x <= y => Older(x) <= Older(y)
    BY AdmissionConstants
<1>6. Mirrored'
  <2> HIDE DEF Older
  <2> QED BY <1>1, <1>3, <1>5 DEF Mirrored
<1> QED BY <1>4, <1>6 DEF GuardInv
-----------------------------------------------------------------------------
LEMMA NextMirrored == GuardInv /\ [Next]_vars => GuardInv'
<1> SUFFICES ASSUME GuardInv, [Next]_vars PROVE GuardInv'
    OBVIOUS
<1>1. CASE Elapse
    BY <1>1, ElapseMirrored
<1>2. ASSUME NEW f \in Fps, NEW n \in Nonces, NEW announced \in BOOLEAN,
             Accepted(f, n, announced)
      PROVE  GuardInv'
    BY <1>2, AcceptedMirrored
<1>3. ASSUME NEW f \in Fps, Leave(f) PROVE GuardInv'
    BY <1>3, PurgeMirrored DEF Leave
<1>4. ASSUME NEW f \in Fps, Disconnect(f) PROVE GuardInv'
    BY <1>4, PurgeMirrored DEF Disconnect
<1>5. CASE UNCHANGED <<seen, since>>
    BY <1>5 DEF GuardInv, GuardTypes, Mirrored
<1> QED BY <1>1, <1>2, <1>3, <1>4, <1>5 DEF Next, TooFast, BadFile, Replayed, vars

(* Nothing but a message accepted from that sender within the TTL is        *)
(* refused as a replay, whatever order messages refused for other reasons,  *)
(* marks, purges, the other senders' messages and time come in              *)
(* (handleSendMessage, checkAndMark).                                       *)
THEOREM OnlyReplaysAlwaysRefused == Spec => []OnlyReplaysRefused
<1>1. GuardInv => OnlyReplaysRefused
  <2> SUFFICES ASSUME GuardInv, NEW f \in Fps, NEW n \in Nonces, ~Guard!Fresh(f, n)
               PROVE  since[f][n] <= Ttl
      BY DEF OnlyReplaysRefused
  <2>1. /\ since[f][n] \in 0 .. Ttl + 1 /\ seen[f][n] \in 0 .. Ttl + 1
        /\ since[f][n] <= seen[f][n]
      BY DEF GuardInv, GuardTypes, Mirrored
  <2>2. seen[f][n] # Ttl + 1
      BY DEF Guard!Fresh, Guard!NotSeen
  <2> QED BY <2>1, <2>2, AdmissionConstants
<1> QED BY <1>1, InitMirrored, NextMirrored, PTL DEF Spec
-----------------------------------------------------------------------------
(* What one window lets through, the request that opens it included.        *)
Cap == IF Limit = 0 THEN 1 ELSE Limit

LEMMA CapPositive == Cap \in Nat /\ Cap >= 1 /\ Limit <= Cap
BY AdmissionConstants DEF Cap

Log == [0 .. Window -> Nat]

(* Within the current window as many messages got through as it has         *)
(* counted, up to the limit; before it, within the length of a window, at   *)
(* most those of the one before.                                            *)
Paced(bucket, log) ==
    /\ \A a, b \in 0 .. Window : a <= b => log[a] <= log[b]
    /\ bucket.age <= Window =>
        /\ bucket.count >= 1
        /\ log[bucket.age] = IF bucket.count > Cap THEN Cap ELSE bucket.count
        /\ \A a \in bucket.age .. Window : log[a] <= log[bucket.age] + Cap
    /\ bucket.age > Window => log[0] = 0 /\ log[Window] <= Cap

RateTypes ==
    /\ buckets \in [Fps -> Limiter!Bucket]
    /\ passed \in [Fps -> Log]

RateInv == RateTypes /\ \A f \in Fps : Paced(buckets[f], passed[f])

LEMMA NobodyPaced == Limiter!NoBucket \in Limiter!Bucket /\ Nobody \in Log
                     /\ Paced(Limiter!NoBucket, Nobody)
<1>1. 0 \in 0 .. Window /\ Window \in 0 .. Window
    BY AdmissionConstants
<1> QED BY <1>1, CapPositive, AdmissionConstants
        DEF Limiter!NoBucket, Limiter!Bucket, Nobody, Log, Paced

(* The request that opens a window.                                         *)
LEMMA OpensPaced ==
    ASSUME NEW b \in Limiter!Bucket, NEW log \in Log, Paced(b, log), b.age > Window
    PROVE  Paced([count |-> 1, age |-> 0], [a \in 0 .. Window |-> log[a] + 1])
<1> DEFINE after == [a \in 0 .. Window |-> log[a] + 1]
<1>1. 0 \in 0 .. Window /\ Window \in 0 .. Window
    BY AdmissionConstants
<1>2. \A a \in 0 .. Window : after[a] = log[a] + 1 /\ log[a] \in Nat
    BY DEF Log
<1>3. log[0] = 0 /\ log[Window] <= Cap
    BY DEF Paced
<1>4. \A a, c \in 0 .. Window : a <= c => log[a] <= log[c]
    BY DEF Paced
<1>5. \A a \in 0 .. Window : log[a] <= Cap
    BY <1>1, <1>2, <1>3, <1>4, CapPositive, AdmissionConstants
<1>6. \A a, c \in 0 .. Window : a <= c => after[a] <= after[c]
    BY <1>2, <1>4
<1>7. after[0] = 1
    BY <1>1, <1>2, <1>3
<1>8. \A a \in 0 .. Window : after[a] <= after[0] + Cap
    BY <1>2, <1>5, <1>7, CapPositive
<1> DEFINE b1 == [count |-> 1, age |-> 0]
<1>9. b1.count = 1 /\ b1.age = 0
    OBVIOUS
<1> HIDE DEF after, b1
<1>10. Paced(b1, after)
    BY <1>6, <1>7, <1>8, <1>9, CapPositive, AdmissionConstants DEF Paced
<1> QED BY <1>10 DEF after, b1

(* A request that the window still has room for.                            *)
LEMMA CountsPaced ==
    ASSUME NEW b \in Limiter!Bucket, NEW log \in Log, Paced(b, log),
           b.age <= Window, b.count < Limit
    PROVE  Paced([b EXCEPT !.count = @ + 1], [a \in 0 .. Window |-> log[a] + 1])
<1> DEFINE after == [a \in 0 .. Window |-> log[a] + 1]
<1> DEFINE c == [b EXCEPT !.count = @ + 1]
<1>1. b.age \in 0 .. Window /\ b.count \in Nat /\ c.age = b.age /\ c.count = b.count + 1
    BY AdmissionConstants DEF Limiter!Bucket
<1>2. \A a \in 0 .. Window : after[a] = log[a] + 1 /\ log[a] \in Nat
    BY DEF Log
<1>3. \A x, y \in 0 .. Window : x <= y => after[x] <= after[y]
    BY <1>2 DEF Paced
<1>4. c.count <= Cap /\ log[b.age] = b.count
    BY <1>1, CapPositive, AdmissionConstants DEF Paced
<1>5. after[c.age] = c.count
    BY <1>1, <1>2, <1>4
<1>6. ASSUME NEW a \in b.age .. Window PROVE after[a] <= after[c.age] + Cap
  <2>1. a \in 0 .. Window /\ log[a] <= log[b.age] + Cap
      BY <1>1, AdmissionConstants DEF Paced
  <2> QED BY <1>1, <1>2, <2>1, CapPositive
<1> HIDE DEF after, c
<1>7. Paced(c, after)
    BY <1>1, <1>3, <1>4, <1>5, <1>6, CapPositive, AdmissionConstants DEF Paced
<1> QED BY <1>7 DEF after, c

(* A request that is refused.                                               *)
LEMMA RefusedPaced ==
    ASSUME NEW b \in Limiter!Bucket, NEW log \in Log, Paced(b, log),
           b.age <= Window, b.count >= Limit
    PROVE  Paced(Limiter!Counted(b), log)
<1> DEFINE c == Limiter!Counted(b)
<1>1. b.age \in 0 .. Window /\ b.count \in Nat /\ c.age = b.age
    BY AdmissionConstants DEF Limiter!Bucket, Limiter!Counted
<1>2. c.count = IF b.count > Limit THEN b.count ELSE b.count + 1
    BY AdmissionConstants DEF Limiter!Bucket, Limiter!Counted
<1>3. b.count >= 1 /\ c.count >= 1
    BY <1>1, <1>2 DEF Paced
<1>4. (IF c.count > Cap THEN Cap ELSE c.count) = (IF b.count > Cap THEN Cap ELSE b.count)
    BY <1>1, <1>2, <1>3, AdmissionConstants DEF Cap
<1> HIDE DEF c
<1>5. Paced(c, log)
    BY <1>1, <1>3, <1>4, AdmissionConstants DEF Paced
<1> QED BY <1>5 DEF c

(* A unit of time.                                                          *)
Later(log) == [a \in 0 .. Window |-> IF a = 0 THEN 0 ELSE log[a - 1]]

LEMMA LaterLog ==
    ASSUME NEW log \in Log, \A a, b \in 0 .. Window : a <= b => log[a] <= log[b]
    PROVE  /\ Later(log) \in Log
           /\ \A a, b \in 0 .. Window : a <= b => Later(log)[a] <= Later(log)[b]
<1>1. \A a \in 0 .. Window : a # 0 => a - 1 \in 0 .. Window
    BY AdmissionConstants
<1>2. \A a \in 0 .. Window : log[a] \in Nat
    BY DEF Log
<1>3. \A a \in 0 .. Window : Later(log)[a] = IF a = 0 THEN 0 ELSE log[a - 1]
    BY DEF Later
<1>4. ASSUME NEW a \in 0 .. Window, NEW b \in 0 .. Window, a <= b
      PROVE  Later(log)[a] <= Later(log)[b]
  <2>1. CASE a = 0
      BY <1>1, <1>2, <1>3, <2>1
  <2>2. CASE a # 0
    <3>1. b # 0 /\ a - 1 \in 0 .. Window /\ b - 1 \in 0 .. Window /\ a - 1 <= b - 1
        BY <1>1, <1>4, <2>2
    <3> QED BY <1>3, <2>2, <3>1
  <2> QED BY <2>1, <2>2
<1>5. Later(log) \in Log
    BY <1>1, <1>2 DEF Later, Log
<1> QED BY <1>4, <1>5

LEMMA AgesPaced ==
    ASSUME NEW b \in Limiter!Bucket, NEW log \in Log, Paced(b, log), b.age < Window
    PROVE  Paced([b EXCEPT !.age = @ + 1], Later(log))
<1> DEFINE c == [b EXCEPT !.age = @ + 1]
<1>1. b.age \in 0 .. Window /\ c.age = b.age + 1 /\ c.count = b.count /\ c.age \in 1 .. Window
    BY AdmissionConstants DEF Limiter!Bucket
<1>2. \A a \in 1 .. Window : Later(log)[a] = log[a - 1]
    BY AdmissionConstants DEF Later
<1>3. Later(log)[c.age] = log[b.age]
    BY <1>1, <1>2
<1>4. ASSUME NEW a \in c.age .. Window PROVE Later(log)[a] <= Later(log)[c.age] + Cap
  <2>1. a \in 1 .. Window /\ a - 1 \in b.age .. Window
      BY <1>1, AdmissionConstants
  <2>2. log[a - 1] <= log[b.age] + Cap
      BY <1>1, <2>1 DEF Paced
  <2> QED BY <1>2, <1>3, <2>1, <2>2
<1>5. \A x, y \in 0 .. Window : x <= y => Later(log)[x] <= Later(log)[y]
    BY LaterLog DEF Paced
<1>6. /\ b.count >= 1
      /\ log[b.age] = IF b.count > Cap THEN Cap ELSE b.count
    BY <1>1 DEF Paced
<1> HIDE DEF c
<1>7. Paced(c, Later(log))
    BY <1>1, <1>3, <1>4, <1>5, <1>6, AdmissionConstants DEF Paced
<1> QED BY <1>7 DEF c

(* The window is over with this unit, or was before.                        *)
LEMMA EndsPaced ==
    ASSUME NEW b \in Limiter!Bucket, NEW log \in Log, Paced(b, log), b.age >= Window
    PROVE  Paced(Limiter!NoBucket, Later(log))
<1>1. Window \in 0 .. Window /\ 0 \in 0 .. Window /\ b.age \in 0 .. Window + 1 /\ b.count \in Nat
    BY AdmissionConstants DEF Limiter!Bucket
<1>2. \A a \in 0 .. Window : log[a] \in Nat
    BY DEF Log
<1>3. \A x, y \in 0 .. Window : x <= y => log[x] <= log[y]
    BY DEF Paced
<1>4. log[Window] <= Cap
  <2>1. CASE b.age = Window
      BY <1>1, <2>1, CapPositive, AdmissionConstants DEF Paced
  <2>2. CASE b.age > Window
      BY <2>2 DEF Paced
  <2> QED BY <1>1, <2>1, <2>2, AdmissionConstants
<1>5. Later(log)[0] = 0 /\ Later(log)[Window] <= Cap
  <2>1. Window # 0 => Window - 1 \in 0 .. Window /\ log[Window - 1] <= log[Window]
      BY <1>1, <1>3, AdmissionConstants
  <2>2. /\ Later(log)[0] = 0
        /\ Later(log)[Window] = IF Window = 0 THEN 0 ELSE log[Window - 1]
      BY <1>1 DEF Later
  <2> QED BY <1>1, <1>2, <1>4, <2>1, <2>2, CapPositive, AdmissionConstants
<1>6. \A x, y \in 0 .. Window : x <= y => Later(log)[x] <= Later(log)[y]
    BY <1>3, LaterLog
<1>7. Limiter!NoBucket.age = Window + 1
    BY DEF Limiter!NoBucket
<1> QED BY <1>5, <1>6, <1>7, AdmissionConstants DEF Paced
-----------------------------------------------------------------------------
LEMMA InitPaced == Init => RateInv
BY NobodyPaced DEF Init, Limiter!Init, RateInv, RateTypes

(* What one sender does leaves the others as they are.                      *)
LEMMA OneSender ==
    ASSUME RateInv, NEW f \in Fps, NEW b \in Limiter!Bucket, NEW log \in Log, Paced(b, log),
           buckets' = [buckets EXCEPT ![f] = b], passed' = [passed EXCEPT ![f] = log]
    PROVE  RateInv'
BY DEF RateInv, RateTypes

LEMMA WithinRatePaced ==
    ASSUME RateInv, NEW f \in Fps, NEW announced \in BOOLEAN, WithinRate(f, announced)
    PROVE  RateInv'
<1>1. CASE ~announced
    BY <1>1 DEF WithinRate, RateInv, RateTypes
<1> SUFFICES ASSUME announced PROVE RateInv'
    BY <1>1
<1> DEFINE b == buckets[f]
<1> DEFINE log == [a \in 0 .. Window |-> passed[f][a] + 1]
<1>2. b \in Limiter!Bucket /\ passed[f] \in Log /\ Paced(b, passed[f])
    BY DEF RateInv, RateTypes
<1>3. log \in Log
  <2>1. \A a \in 0 .. Window : passed[f][a] \in Nat
      BY <1>2 DEF Log
  <2>2. \A a \in 0 .. Window : passed[f][a] + 1 \in Nat
      BY <2>1
  <2> QED BY <2>2 DEF Log
<1>4. CASE Limiter!WindowOver(f)
  <2> DEFINE c == [count |-> 1, age |-> 0]
  <2>1. c \in Limiter!Bucket
      BY AdmissionConstants DEF Limiter!Bucket
  <2>2. buckets' = [buckets EXCEPT ![f] = c] /\ passed' = [passed EXCEPT ![f] = log]
      BY <1>4 DEF WithinRate, Limiter!Count
  <2>3. Paced(c, log)
      BY <1>2, <1>4, OpensPaced DEF Limiter!WindowOver
  <2> HIDE DEF c, log
  <2> QED BY <1>3, <2>1, <2>2, <2>3, OneSender
<1>5. CASE ~Limiter!WindowOver(f)
  <2> DEFINE c == [b EXCEPT !.count = @ + 1]
  <2>1. b.count \in 0 .. Limit + 1 /\ b.age \in 0 .. Window + 1
      BY <1>2 DEF Limiter!Bucket
  <2>2. b.count < Limit /\ b.age <= Window
      BY <1>5, <2>1, AdmissionConstants DEF WithinRate, Limiter!Allows, Limiter!WindowOver
  <2>3. c \in Limiter!Bucket
      BY <1>2, <2>1, <2>2, AdmissionConstants DEF Limiter!Bucket
  <2>4. Limiter!Counted(b) = c
      BY <2>1, <2>2, AdmissionConstants DEF Limiter!Counted
  <2>5. buckets' = [buckets EXCEPT ![f] = c] /\ passed' = [passed EXCEPT ![f] = log]
      BY <1>5, <2>4 DEF WithinRate, Limiter!Count
  <2>6. Paced(c, log)
      BY <1>2, <2>2, CountsPaced
  <2> HIDE DEF c, log
  <2> QED BY <1>3, <2>3, <2>5, <2>6, OneSender
<1> QED BY <1>4, <1>5

LEMMA TooFastPaced ==
    ASSUME RateInv, NEW f \in Fps, TooFast(f)
    PROVE  RateInv'
<1> DEFINE b == buckets[f]
<1>1. b \in Limiter!Bucket /\ passed[f] \in Log /\ Paced(b, passed[f])
    BY DEF RateInv, RateTypes
<1>2. b.count \in 0 .. Limit + 1 /\ b.age \in 0 .. Window + 1
    BY <1>1 DEF Limiter!Bucket
<1>3. ~Limiter!WindowOver(f) /\ b.age <= Window /\ b.count >= Limit
    BY <1>2, AdmissionConstants DEF TooFast, Limiter!Allows, Limiter!WindowOver
<1>4. Limiter!Counted(b) \in Limiter!Bucket
    BY <1>1, <1>2, AdmissionConstants DEF Limiter!Bucket, Limiter!Counted
<1>5. buckets' = [buckets EXCEPT ![f] = Limiter!Counted(b)]
    BY <1>3 DEF TooFast, Limiter!Count
<1>6. passed' = [passed EXCEPT ![f] = passed[f]]
    BY DEF TooFast, RateInv, RateTypes
<1> QED BY <1>1, <1>3, <1>4, <1>5, <1>6, RefusedPaced, OneSender

LEMMA ElapsePaced ==
    ASSUME RateInv, Elapse
    PROVE  RateInv'
<1>1. ASSUME NEW f \in Fps
      PROVE  /\ buckets'[f] \in Limiter!Bucket /\ passed'[f] \in Log
             /\ Paced(buckets'[f], passed'[f])
  <2> DEFINE b == buckets[f]
  <2>1. b \in Limiter!Bucket /\ passed[f] \in Log /\ Paced(b, passed[f])
      BY DEF RateInv, RateTypes
  <2>2. passed'[f] = Later(passed[f]) /\ Later(passed[f]) \in Log
      BY <2>1, LaterLog DEF Elapse, Later, Paced
  <2>3. b.age \in 0 .. Window + 1
      BY <2>1 DEF Limiter!Bucket
  <2>4. CASE b.age >= Window
    <3>1. buckets'[f] = Limiter!NoBucket
        BY <2>4 DEF Elapse, Limiter!Tick
    <3> QED BY <2>1, <2>2, <2>4, <3>1, EndsPaced, NobodyPaced
  <2>5. CASE b.age < Window
    <3>1. buckets'[f] = [b EXCEPT !.age = @ + 1]
        BY <2>3, <2>5, AdmissionConstants DEF Elapse, Limiter!Tick
    <3>2. [b EXCEPT !.age = @ + 1] \in Limiter!Bucket
        BY <2>1, <2>3, <2>5, AdmissionConstants DEF Limiter!Bucket
    <3> QED BY <2>1, <2>2, <2>5, <3>1, <3>2, AgesPaced
  <2> QED BY <2>3, <2>4, <2>5, AdmissionConstants
<1>2. /\ buckets' = [f \in Fps |-> buckets'[f]]
      /\ passed' = [f \in Fps |-> passed'[f]]
    BY DEF Elapse, Limiter!Tick
<1> QED BY <1>1, <1>2 DEF RateInv, RateTypes

LEMMA NextPaced == RateInv /\ [Next]_vars => RateInv'
<1> SUFFICES ASSUME RateInv, [Next]_vars PROVE RateInv'
    OBVIOUS
<1>1. ASSUME NEW f \in Fps, NEW announced \in BOOLEAN, WithinRate(f, announced) PROVE RateInv'
    BY <1>1, WithinRatePaced
<1>2. ASSUME NEW f \in Fps, Disconnect(f) PROVE RateInv'
    BY <1>2, NobodyPaced, OneSender DEF Disconnect, Limiter!Delete
<1>3. CASE UNCHANGED <<buckets, passed>>
    BY <1>3 DEF RateInv, RateTypes
<1> QED BY <1>1, <1>2, <1>3, TooFastPaced, ElapsePaced DEF Next, BadFile, Replayed, Accepted, Leave, vars

(* Over any stretch of one window the connections that announced a          *)
(* fingerprint get at most two windows' worth of messages through under it, *)
(* as long as none disconnects, for every limit and window, 0 included      *)
(* (checkMessageRateLimit).                                                 *)
THEOREM AlwaysAtMostTwoWindows == Spec => []AtMostTwoWindows
<1>1. RateInv => AtMostTwoWindows
  <2> SUFFICES ASSUME RateInv, NEW f \in Fps PROVE passed[f][Window] <= 2 * Cap
      BY DEF AtMostTwoWindows, InWindow, Cap
  <2> DEFINE b == buckets[f]
  <2>1. b \in Limiter!Bucket /\ passed[f] \in Log /\ Paced(b, passed[f])
      BY DEF RateInv, RateTypes
  <2>2. /\ b.age \in 0 .. Window + 1 /\ b.count \in Nat
        /\ Window \in 0 .. Window
        /\ \A a \in 0 .. Window : passed[f][a] \in Nat
      BY <2>1, AdmissionConstants DEF Limiter!Bucket, Log
  <2>3. CASE b.age <= Window
    <3>1. b.age \in 0 .. Window /\ Window \in b.age .. Window
        BY <2>2, <2>3, AdmissionConstants
    <3>2. passed[f][b.age] <= Cap /\ passed[f][Window] <= passed[f][b.age] + Cap
        BY <2>1, <2>2, <2>3, <3>1, CapPositive DEF Paced
    <3> QED BY <2>2, <3>1, <3>2, CapPositive
  <2>4. CASE b.age > Window
      BY <2>1, <2>2, <2>4, CapPositive DEF Paced
  <2> QED BY <2>2, <2>3, <2>4, AdmissionConstants
<1> QED BY <1>1, InitPaced, NextPaced, PTL DEF Spec

(* A sender is refused only when it has used up its limit within the last   *)
(* window, for every limit and window.                                      *)
THEOREM RefusalsAlwaysEarned == Spec => []RefusalsEarned
<1>1. RateInv => RefusalsEarned
  <2> SUFFICES ASSUME RateInv, NEW f \in Fps, ~Limiter!Allows(f)
               PROVE  passed[f][Window] >= Limit
      BY DEF RefusalsEarned, InWindow
  <2> DEFINE b == buckets[f]
  <2>1. b \in Limiter!Bucket /\ passed[f] \in Log /\ Paced(b, passed[f])
      BY DEF RateInv, RateTypes
  <2>2. /\ b.age \in 0 .. Window /\ Window \in 0 .. Window
        /\ b.count \in Nat /\ b.count >= Limit
      BY <2>1, AdmissionConstants DEF Limiter!Bucket, Limiter!Allows, Limiter!WindowOver
  <2>3. passed[f][b.age] >= Limit
      BY <2>1, <2>2, CapPositive, AdmissionConstants DEF Paced
  <2>4. passed[f][b.age] <= passed[f][Window]
      BY <2>1, <2>2 DEF Paced
  <2>5. passed[f][b.age] \in Nat /\ passed[f][Window] \in Nat
      BY <2>1, <2>2 DEF Log
  <2> QED BY <2>3, <2>4, <2>5, AdmissionConstants
<1> QED BY <1>1, InitPaced, NextPaced, PTL DEF Spec
=============================================================================
