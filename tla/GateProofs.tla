----------------------------- MODULE GateProofs -----------------------------
(***************************************************************************)
(* The connection gate for any number of sockets and IPs.  CountsMatch is  *)
(* inductive beside the types and the fact that a socket in use has an IP: *)
(* each step adds at most one socket to those of one IP, or removes one.   *)
(* The refinement of FixedWindow needs the types alone.                    *)
(***************************************************************************)
EXTENDS ConnectionGate, FiniteSetTheorems, TLAPS

(* Whatever socket is in use comes from somewhere.                          *)
InUseFrom == \A s \in Sockets : stage[s] # "free" => from[s] \in Ips

GateInv == TypeOK /\ InUseFrom /\ CountsMatch

LEMMA ConnectedFinite ==
    ASSUME NEW ip
    PROVE  IsFiniteSet(Connected(ip)) /\ Cardinality(Connected(ip)) \in Nat
<1>1. Connected(ip) \in SUBSET Sockets
    BY DEF Connected
<1>2. IsFiniteSet(Connected(ip))
    BY <1>1, FS_Subset, GateConstants
<1> QED BY <1>2, FS_CardinalityType

(* What Counted leaves behind is a bucket.                                  *)
LEMMA CountedTyped ==
    ASSUME TypeOK, NEW ip \in Ips
    PROVE  Counted(ip) \in [Ips -> Bucket \cup {NoBucket}]
<1> DEFINE b == rateBuckets[ip]
<1>1. b \in Bucket \cup {NoBucket}
    BY DEF TypeOK
<1>2. CASE Unused(ip)
  <2>1. [count |-> 1, age |-> 0] \in Bucket
      BY GateConstants DEF Bucket
  <2> QED BY <1>2, <2>1 DEF Counted, TypeOK
<1>3. CASE ~Unused(ip)
  <2>1. b \in Bucket
      BY <1>1, <1>3 DEF Unused
  <2>2. [count |-> IF b.count > Limit THEN b.count ELSE b.count + 1, age |-> b.age] \in Bucket
      BY <2>1, GateConstants DEF Bucket
  <2> QED BY <1>3, <2>2 DEF Counted, TypeOK
<1> QED BY <1>2, <1>3

LEMMA InitGate == Init => GateInv
<1> SUFFICES ASSUME Init PROVE GateInv
    OBVIOUS
<1>1. TypeOK
    BY DEF Init, TypeOK
<1>2. InUseFrom
    BY DEF Init, InUseFrom
<1>3. ASSUME NEW ip \in Ips PROVE counts[ip] = Cardinality(Connected(ip))
  <2>1. Connected(ip) = {}
      BY DEF Init, Connected
  <2> QED BY <2>1, FS_EmptySet DEF Init
<1> QED BY <1>1, <1>2, <1>3 DEF GateInv, CountsMatch

(* Only stage, from and counts matter to CountsMatch.                       *)
LEMMA SameSockets ==
    ASSUME GateInv, stage' = stage, from' = from, counts' = counts
    PROVE  InUseFrom' /\ CountsMatch'
<1>1. \A ip \in Ips : Connected(ip)' = Connected(ip)
    BY DEF Connected
<1> QED BY <1>1 DEF GateInv, InUseFrom, CountsMatch

(* A socket that was not a WebSocket and is freed leaves no trace.          *)
LEMMA FreedUncounted ==
    ASSUME GateInv, NEW s \in Sockets, stage[s] = "dialed", Free(s), counts' = counts
    PROVE  InUseFrom' /\ CountsMatch'
<1> USE DEF GateInv, TypeOK, Free
<1>1. \A t \in Sockets : t # s => stage'[t] = stage[t] /\ from'[t] = from[t]
    OBVIOUS
<1>2. stage'[s] = "free"
    OBVIOUS
<1>3. InUseFrom'
    BY <1>1, <1>2 DEF InUseFrom
<1>4. \A ip \in Ips : Connected(ip)' = Connected(ip)
    BY <1>1, <1>2 DEF Connected
<1> QED BY <1>3, <1>4 DEF CountsMatch

LEMMA DialCounts ==
    ASSUME GateInv, NEW s \in Sockets, NEW ip \in Ips, Dial(s, ip)
    PROVE  TypeOK' /\ InUseFrom' /\ CountsMatch'
<1> USE DEF GateInv, TypeOK, Dial
<1>1. \A t \in Sockets : t # s => stage'[t] = stage[t] /\ from'[t] = from[t]
    OBVIOUS
<1>2. stage'[s] = "dialed" /\ from'[s] = ip
    OBVIOUS
<1>3. TypeOK'
    OBVIOUS
<1>4. InUseFrom'
    BY <1>1, <1>2 DEF InUseFrom
<1>5. \A i \in Ips : Connected(i)' = Connected(i)
    BY <1>1, <1>2 DEF Connected
<1> QED BY <1>3, <1>4, <1>5 DEF CountsMatch

LEMMA UpgradeCounts ==
    ASSUME GateInv, NEW s \in Sockets, Upgrade(s)
    PROVE  TypeOK' /\ InUseFrom' /\ CountsMatch'
<1> DEFINE ip == from[s]
<1>1. stage[s] = "dialed" /\ ip \in Ips /\ TypeOK
    BY DEF GateInv, InUseFrom, Upgrade
<1>2. rateBuckets' \in [Ips -> Bucket \cup {NoBucket}]
    BY <1>1, CountedTyped DEF Upgrade
<1>3. CASE /\ stage' = [stage EXCEPT ![s] = "open"]
           /\ counts' = [counts EXCEPT ![ip] = @ + 1]
           /\ from' = from
  <2>1. TypeOK'
      BY <1>1, <1>2, <1>3 DEF TypeOK, Upgrade
  <2>2. InUseFrom'
      BY <1>1, <1>3 DEF InUseFrom, GateInv, TypeOK
  <2>3. ASSUME NEW i \in Ips PROVE counts'[i] = Cardinality(Connected(i)')
    <3>1. CASE i = ip
      <4>1. Connected(i)' = Connected(i) \cup {s} /\ s \notin Connected(i)
          BY <1>1, <1>3, <3>1 DEF Connected, TypeOK
      <4>2. Cardinality(Connected(i)') = Cardinality(Connected(i)) + 1
          BY <4>1, ConnectedFinite, FS_AddElement
      <4> QED BY <1>1, <1>3, <3>1, <4>2 DEF GateInv, CountsMatch, TypeOK
    <3>2. CASE i # ip
      <4>1. Connected(i)' = Connected(i)
          BY <1>1, <1>3, <3>2 DEF Connected, TypeOK
      <4> QED BY <1>1, <1>3, <3>2, <4>1 DEF GateInv, CountsMatch, TypeOK
    <3> QED BY <3>1, <3>2
  <2> QED BY <2>1, <2>2, <2>3 DEF CountsMatch
<1>4. CASE Free(s) /\ counts' = counts
  <2>1. TypeOK'
      BY <1>1, <1>2, <1>4 DEF TypeOK, Upgrade, Free
  <2> QED BY <1>1, <1>4, <2>1, FreedUncounted
<1> QED BY <1>3, <1>4 DEF Upgrade

LEMMA CloseCounts ==
    ASSUME GateInv, NEW s \in Sockets, Close(s)
    PROVE  TypeOK' /\ InUseFrom' /\ CountsMatch'
<1> DEFINE ip == from[s]
<1>1. stage[s] = "open" /\ ip \in Ips /\ TypeOK
    BY DEF GateInv, InUseFrom, Close
<1>2. \A t \in Sockets : t # s => stage'[t] = stage[t] /\ from'[t] = from[t]
    BY <1>1 DEF Close, Free, TypeOK
<1>3. stage'[s] = "free"
    BY <1>1 DEF Close, Free, TypeOK
<1>4. TypeOK'
    BY <1>1 DEF Close, Free, TypeOK, Uncounted
<1>5. InUseFrom'
    BY <1>2, <1>3 DEF InUseFrom, GateInv
<1>6. ASSUME NEW i \in Ips PROVE counts'[i] = Cardinality(Connected(i)')
  <2>1. CASE i = ip
    <3>1. Connected(i)' = Connected(i) \ {s} /\ s \in Connected(i)
        BY <1>1, <1>2, <1>3, <2>1 DEF Connected
    <3>2. Cardinality(Connected(i)') = Cardinality(Connected(i)) - 1
        BY <3>1, ConnectedFinite, FS_RemoveElement
    <3>3. counts[i] = Cardinality(Connected(i)) /\ counts[i] \in Nat
        BY <1>1 DEF GateInv, CountsMatch, TypeOK
    <3>4. Cardinality(Connected(i)) - 1 \in Nat
      <4>1. Connected(i)' = Connected(i) \ {s}
          BY <3>1
      <4>2. IsFiniteSet(Connected(i) \ {s})
          BY ConnectedFinite, FS_RemoveElement
      <4> QED BY <3>2, <4>1, <4>2, FS_CardinalityType
    <3>5. counts'[i] = IF counts[i] <= 1 THEN 0 ELSE counts[i] - 1
        BY <1>1, <2>1 DEF Close, Uncounted, TypeOK
    <3> QED BY <3>2, <3>3, <3>4, <3>5
  <2>2. CASE i # ip
    <3>1. Connected(i)' = Connected(i)
        BY <1>1, <1>2, <1>3, <2>2 DEF Connected
    <3>2. counts'[i] = counts[i]
        BY <1>1, <2>2 DEF Close, Uncounted, TypeOK
    <3> QED BY <3>1, <3>2 DEF GateInv, CountsMatch
  <2> QED BY <2>1, <2>2
<1> QED BY <1>4, <1>5, <1>6 DEF CountsMatch
-----------------------------------------------------------------------------
LEMMA NextGate == GateInv /\ [Next]_vars => GateInv'
<1> SUFFICES ASSUME GateInv, [Next]_vars PROVE TypeOK' /\ InUseFrom' /\ CountsMatch'
    BY DEF GateInv
<1>0. TypeOK
    BY DEF GateInv
<1>1. ASSUME NEW s \in Sockets, NEW ip \in Ips, Dial(s, ip)
      PROVE  TypeOK' /\ InUseFrom' /\ CountsMatch'
    BY <1>1, DialCounts
<1>2. ASSUME NEW s \in Sockets, HangUp(s) PROVE TypeOK' /\ InUseFrom' /\ CountsMatch'
    BY <1>0, <1>2, FreedUncounted DEF HangUp, Free, TypeOK
<1>3. ASSUME NEW s \in Sockets, RefuseOrigin(s) PROVE TypeOK' /\ InUseFrom' /\ CountsMatch'
    BY <1>0, <1>3, FreedUncounted DEF RefuseOrigin, Free, TypeOK
<1>4. ASSUME NEW s \in Sockets, Upgrade(s) PROVE TypeOK' /\ InUseFrom' /\ CountsMatch'
    BY <1>4, UpgradeCounts
<1>5. ASSUME NEW s \in Sockets, Close(s) PROVE TypeOK' /\ InUseFrom' /\ CountsMatch'
    BY <1>5, CloseCounts
<1>6. CASE Tick
  <2>1. ASSUME NEW b \in Bucket
        PROVE  [b EXCEPT !.age = IF @ > 2 * Window THEN @ ELSE @ + 1] \in Bucket
      BY GateConstants DEF Bucket
  <2>2. TypeOK'
      BY <1>0, <1>6, <2>1 DEF Tick, TypeOK
  <2> QED BY <1>6, <2>2, SameSockets DEF Tick
<1>7. CASE Sweep
    BY <1>0, <1>7, SameSockets DEF Sweep, TypeOK
<1>8. CASE Sigterm
    BY <1>0, <1>8, SameSockets DEF Sigterm, TypeOK
<1>9. CASE Exit
    BY <1>0, <1>9, SameSockets DEF Exit, TypeOK
<1>10. CASE UNCHANGED vars
    BY <1>0, <1>10, SameSockets DEF vars, TypeOK
<1> QED BY <1>1, <1>2, <1>3, <1>4, <1>5, <1>6, <1>7, <1>8, <1>9, <1>10 DEF Next

(* No IP gets past its limit: HasRoom looks at a count that is right.       *)
LEMMA NextLimit == GateInv /\ LimitKept /\ [Next]_vars => LimitKept'
<1> SUFFICES ASSUME GateInv, LimitKept, [Next]_vars, NEW ip \in Ips
             PROVE  Cardinality(Connected(ip)') <= MaxPerIp
    BY DEF LimitKept
<1> DEFINE n == Cardinality(Connected(ip))
<1>1. /\ Cardinality(Connected(ip)') = counts'[ip]
      /\ n = counts[ip] /\ n <= MaxPerIp
      /\ counts \in [Ips -> Nat]
    BY NextGate DEF GateInv, CountsMatch, LimitKept, TypeOK
<1>2. counts'[ip] <= MaxPerIp
  <2>1. ASSUME NEW s \in Sockets, Upgrade(s) PROVE counts'[ip] <= MaxPerIp
    <3>1. CASE HasRoom(from[s]) /\ counts' = [counts EXCEPT ![from[s]] = @ + 1]
        BY <1>1, <3>1, GateConstants DEF HasRoom
    <3>2. CASE counts' = counts
        BY <1>1, <3>2
    <3> QED BY <2>1, <3>1, <3>2 DEF Upgrade
  <2>2. ASSUME NEW s \in Sockets, Close(s) PROVE counts'[ip] <= MaxPerIp
      BY <1>1, <2>2, GateConstants DEF Close, Uncounted
  <2>3. CASE counts' = counts
      BY <1>1, <2>3
  <2> QED BY <2>1, <2>2, <2>3 DEF Next, Dial, HangUp, RefuseOrigin, Tick, Sweep, Sigterm, Exit, vars
<1> QED BY <1>1, <1>2

LEMMA InitLimit == Init => LimitKept
<1> SUFFICES ASSUME Init, NEW ip \in Ips PROVE Cardinality(Connected(ip)) <= MaxPerIp
    BY DEF LimitKept
<1>1. Connected(ip) = {}
    BY DEF Init, Connected
<1> QED BY <1>1, FS_EmptySet, GateConstants

(* What the gate knows of sockets, of counts and of rate buckets keeps its  *)
(* types.                                                                   *)
THEOREM GateTypeCorrect == Spec => []TypeOK
<1>1. GateInv => TypeOK
    BY DEF GateInv
<1> QED BY <1>1, InitGate, NextGate, PTL DEF Spec

(* The count of an IP is the number of its WebSockets, however dials,       *)
(* aborted upgrades and closes mix (connectionCounts).                      *)
THEOREM CountsAlwaysMatch == Spec => []CountsMatch
<1>1. GateInv => CountsMatch
    BY DEF GateInv
<1> QED BY <1>1, InitGate, NextGate, PTL DEF Spec

(* No IP ever has more WebSockets than config.rateLimitMaxConnectionsPerIp, *)
(* 0 included.                                                              *)
THEOREM LimitAlwaysKept == Spec => []LimitKept
BY InitGate, NextGate, InitLimit, NextLimit, PTL DEF Spec
-----------------------------------------------------------------------------
(* The buckets against the limiter without a pass over them.                *)

Image == [ip \in Ips |->
    IF Unused(ip) THEN [count |-> 0, age |-> Window + 1] ELSE rateBuckets[ip]]

CountImage(k) ==
    Image' = [Image EXCEPT ![k] =
        IF Image[k].age > Window THEN [count |-> 1, age |-> 0]
        ELSE [Image[k] EXCEPT !.count = IF @ > Limit THEN @ ELSE @ + 1]]

TickImage ==
    Image' = [k \in Ips |->
        IF Image[k].age >= Window THEN [count |-> 0, age |-> Window + 1]
        ELSE [Image[k] EXCEPT !.age = @ + 1]]

(* An IP's bucket is in use exactly when the limiter's window is not over.  *)
LEMMA ImageOf ==
    ASSUME TypeOK, NEW k \in Ips
    PROVE  /\ Unused(k) => Image[k] = [count |-> 0, age |-> Window + 1]
           /\ ~Unused(k) => /\ Image[k] = rateBuckets[k]
                            /\ rateBuckets[k] \in Bucket
                            /\ rateBuckets[k].age <= Window
<1>1. rateBuckets[k] \in Bucket \cup {NoBucket}
    BY DEF TypeOK
<1>2. ~Unused(k) => rateBuckets[k] \in Bucket
    BY <1>1 DEF Unused
<1>3. ~Unused(k) => rateBuckets[k].age <= Window
    BY <1>2, GateConstants DEF Unused, Bucket
<1> QED BY <1>2, <1>3 DEF Image

LEMMA CountRefines ==
    ASSUME TypeOK, NEW k \in Ips, rateBuckets' = Counted(k)
    PROVE  CountImage(k)
<1> USE GateConstants
<1>1. ASSUME NEW i \in Ips, i # k PROVE Image'[i] = Image[i]
  <2>1. rateBuckets'[i] = rateBuckets[i]
      BY <1>1 DEF Counted, TypeOK
  <2>2. Unused(i)' <=> Unused(i)
      BY <2>1 DEF Unused
  <2> QED BY <2>1, <2>2 DEF Image
<1>2. CASE Unused(k)
  <2>1. rateBuckets'[k] = [count |-> 1, age |-> 0]
      BY <1>2 DEF Counted, TypeOK
  <2>2. ~Unused(k)'
    <3>1. [count |-> 1, age |-> 0] # NoBucket
        BY DEF NoBucket
    <3> QED BY <2>1, <3>1 DEF Unused
  <2>3. Image'[k] = [count |-> 1, age |-> 0]
      BY <2>1, <2>2 DEF Image
  <2>4. Image[k].age > Window
      BY <1>2, ImageOf
  <2> QED BY <1>1, <2>3, <2>4 DEF CountImage, Image
<1>3. CASE ~Unused(k)
  <2> DEFINE b == rateBuckets[k]
  <2>1. b \in Bucket /\ b.age <= Window /\ Image[k] = b
      BY <1>3, ImageOf
  <2> DEFINE c == [b EXCEPT !.count = IF @ > Limit THEN @ ELSE @ + 1]
  <2>2. rateBuckets'[k] = c
    <3>1. c = [count |-> IF b.count > Limit THEN b.count ELSE b.count + 1, age |-> b.age]
        BY <2>1 DEF Bucket
    <3> QED BY <1>3, <3>1 DEF Counted, TypeOK
  <2>3. c.age = b.age /\ c.count > 0
      BY <2>1 DEF Bucket
  <2>4. c # NoBucket
      BY <2>3 DEF NoBucket
  <2>5. ~Unused(k)'
      BY <2>1, <2>2, <2>3, <2>4 DEF Unused, Bucket
  <2>6. Image'[k] = c
      BY <2>2, <2>5 DEF Image
  <2>7. ~(Image[k].age > Window)
      BY <2>1 DEF Bucket
  <2> QED BY <1>1, <2>1, <2>6, <2>7 DEF CountImage, Image
<1> QED BY <1>2, <1>3

LEMMA TickRefines ==
    ASSUME TypeOK, Tick
    PROVE  TickImage
<1> USE GateConstants
<1> SUFFICES ASSUME NEW k \in Ips
             PROVE  Image'[k] = IF Image[k].age >= Window THEN [count |-> 0, age |-> Window + 1]
                                ELSE [Image[k] EXCEPT !.age = @ + 1]
    BY DEF TickImage, Image
<1> DEFINE b == rateBuckets[k]
<1>0. b \in Bucket \cup {NoBucket}
    BY DEF TypeOK
<1>1. CASE b = NoBucket
  <2>1. rateBuckets'[k] = NoBucket
      BY <1>1 DEF Tick
  <2>2. Unused(k) /\ Unused(k)'
      BY <1>1, <2>1 DEF Unused
  <2> QED BY <2>2, ImageOf DEF Image
<1>2. CASE b # NoBucket
  <2>0. b \in Bucket
      BY <1>0, <1>2
  <2> DEFINE c == [b EXCEPT !.age = IF @ > 2 * Window THEN @ ELSE @ + 1]
  <2>1. rateBuckets'[k] = c
      BY <1>2 DEF Tick
  <2>2. c.count = b.count /\ b.count > 0 /\ b.age \in Nat
      BY <2>0 DEF Bucket
  <2>3. c # NoBucket
      BY <2>2 DEF NoBucket
  <2>4. Unused(k)' <=> c.age > Window
      BY <2>1, <2>3 DEF Unused
  <2>5. CASE b.age >= Window
    <3>1. c.age > Window
        BY <2>0, <2>2, <2>5 DEF Bucket
    <3>2. Image[k].age >= Window
        BY <2>5, ImageOf
    <3> QED BY <2>4, <3>1, <3>2 DEF Image
  <2>6. CASE b.age < Window
    <3>1. c = [b EXCEPT !.age = @ + 1] /\ c.age <= Window
        BY <2>0, <2>2, <2>6 DEF Bucket
    <3>2. ~Unused(k)
        BY <1>2, <2>2, <2>6 DEF Unused
    <3>3. Image[k] = b
        BY <3>2, ImageOf
    <3>4. Image'[k] = c
        BY <2>1, <2>2, <2>4, <3>1 DEF Image
    <3>5. ~(Image[k].age >= Window)
        BY <2>2, <2>6, <3>3
    <3> QED BY <3>1, <3>3, <3>4, <3>5
  <2> QED BY <2>2, <2>5, <2>6
<1> QED BY <1>1, <1>2

LEMMA SweepStutters ==
    ASSUME TypeOK, Sweep
    PROVE  Image' = Image
<1> USE GateConstants
<1> SUFFICES ASSUME NEW k \in Ips PROVE Image'[k] = Image[k]
    BY DEF Image
<1>1. CASE Stale(k)
  <2>1. rateBuckets'[k] = NoBucket
      BY <1>1 DEF Sweep
  <2>2. Unused(k)'
      BY <2>1 DEF Unused
  <2>3. Unused(k)
      BY <1>1, ImageOf DEF Stale, Bucket
  <2> QED BY <2>2, <2>3 DEF Image
<1>2. CASE ~Stale(k)
  <2>1. rateBuckets'[k] = rateBuckets[k]
      BY <1>2 DEF Sweep
  <2>2. Unused(k)' <=> Unused(k)
      BY <2>1 DEF Unused
  <2> QED BY <2>1, <2>2 DEF Image
<1> QED BY <1>1, <1>2

LEMMA StepRefines ==
    ASSUME GateInv, [Next]_vars
    PROVE  TickImage \/ (\E k \in Ips : CountImage(k)) \/ Image' = Image
<1>0. TypeOK
    BY DEF GateInv
<1>1. ASSUME NEW s \in Sockets, Upgrade(s) PROVE \E k \in Ips : CountImage(k)
  <2>1. from[s] \in Ips
      BY <1>1 DEF GateInv, InUseFrom, Upgrade
  <2> QED BY <1>0, <1>1, <2>1, CountRefines DEF Upgrade
<1>2. CASE Tick
    BY <1>0, <1>2, TickRefines
<1>3. CASE Sweep
    BY <1>0, <1>3, SweepStutters
<1>4. CASE rateBuckets' = rateBuckets
    BY <1>4 DEF Image, Unused
<1> QED BY <1>1, <1>2, <1>3, <1>4
        DEF Next, Dial, HangUp, RefuseOrigin, Close, Sigterm, Exit, vars

(* The per-IP limiter with its pass over stale buckets implements the       *)
(* fixed-window limiter that has none, for every limit and window.          *)
THEOREM GateImplementsFixedWindow == Spec => ImplementsFixedWindow
<1>1. Init => Abstract!Init
    BY DEF Init, Abstract!Init, Abstract!NoBucket, Unused
<1>2. GateInv /\ [Next]_vars =>
        [Abstract!Tick \/ \E k \in Ips : Abstract!Count(k)]_Image
    BY StepRefines
       DEF TickImage, CountImage, Image, Abstract!Tick, Abstract!Count, Abstract!Counted,
           Abstract!WindowOver, Abstract!NoBucket
<1> QED BY <1>1, <1>2, InitGate, NextGate, PTL
        DEF Spec, ImplementsFixedWindow, Abstract!Counting, Image
=============================================================================
