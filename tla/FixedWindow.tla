---------------------------- MODULE FixedWindow ----------------------------
(***************************************************************************)
(* The fixed-window rate limiter the relay uses twice: for upgrade         *)
(* requests per IP (server.ts checkRateLimit) and for messages per         *)
(* fingerprint (handler.ts checkMessageRateLimit).                         *)
(*                                                                         *)
(* A bucket is its count and the age of its window.  A key without a       *)
(* bucket and one whose window is over behave alike, so both are NoBucket; *)
(* the count stops at one past the limit.                                  *)
(***************************************************************************)
EXTENDS Integers

CONSTANTS
    Keys,      \* what requests are counted by
    Limit,     \* requests per window, a natural number
    Window     \* length of a window, a natural number

VARIABLE buckets

Bucket == [count : 0 .. Limit + 1, age : 0 .. Window + 1]

NoBucket == [count |-> 0, age |-> Window + 1]

TypeOK == buckets \in [Keys -> Bucket]

Init == buckets = [k \in Keys |-> NoBucket]

WindowOver(k) == buckets[k].age > Window

(* Mutant of Allows: the limit is compared with <= before counting.         *)
AllowsOneMore(k) == WindowOver(k) \/ buckets[k].count <= Limit

(* The request that opens a window is let through without looking at the    *)
(* limit; the others while the count, this request included, is within it. *)
Allows(k) == WindowOver(k) \/ buckets[k].count < Limit

Counted(bucket) ==
    [bucket EXCEPT !.count = IF @ > Limit THEN @ ELSE @ + 1]

Count(k) ==
    buckets' = [buckets EXCEPT ![k] =
        IF WindowOver(k) THEN [count |-> 1, age |-> 0] ELSE Counted(buckets[k])]

(* Mutant of Delete: the bucket stays.                                      *)
DeleteNothing(k) == UNCHANGED buckets

Delete(k) == buckets' = [buckets EXCEPT ![k] = NoBucket]

Tick ==
    buckets' = [k \in Keys |->
        IF buckets[k].age >= Window THEN NoBucket
        ELSE [buckets[k] EXCEPT !.age = @ + 1]]

(* The limiter by itself: time passes and requests are counted.             *)
Counting == Init /\ [][Tick \/ \E k \in Keys : Count(k)]_buckets
=============================================================================
