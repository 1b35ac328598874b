------------------------------ MODULE KeyStore ------------------------------
(***************************************************************************)
(* The key pair of a browser: IndexedDB, which all its tabs share          *)
(* (frontend/src/storage/index.ts), and how a tab gets its own when it is  *)
(* loaded (page.tsx, init).  A transaction of IndexedDB happens at once;   *)
(* between two of them anything may.                                       *)
(***************************************************************************)

CONSTANTS Tabs, Pairs, None

VARIABLES
    db,      \* the pair in the object store
    stage,   \* "closed"; "loading" up to loadKeyPair; "saving"; "up"
    pair,    \* the pair of the tab's SessionManager
    used     \* pairs generated so far

vars == <<db, stage, pair, used>>

Init ==
    /\ db = None
    /\ stage = [t \in Tabs |-> "closed"]
    /\ pair = [t \in Tabs |-> None]
    /\ used = {}

(* The tab is opened, or loaded again: a save under way may still happen.   *)
Load(t) ==
    /\ stage' = [stage EXCEPT ![t] = "loading"]
    /\ pair' = [pair EXCEPT ![t] = None]
    /\ db' \in IF stage[t] = "saving" THEN {db, pair[t]} ELSE {db}
    /\ UNCHANGED used

(* loadKeyPair finds a pair: the constructor of SessionManager takes it.    *)
Restore(t) ==
    /\ stage[t] = "loading"
    /\ db # None
    /\ pair' = [pair EXCEPT ![t] = db]
    /\ stage' = [stage EXCEPT ![t] = "up"]
    /\ UNCHANGED <<db, used>>

(* There is none: it generates one.                                         *)
Generate(t) ==
    /\ stage[t] = "loading"
    /\ db = None
    /\ \E kp \in Pairs \ used :
        /\ pair' = [pair EXCEPT ![t] = kp]
        /\ used' = used \cup {kp}
    /\ stage' = [stage EXCEPT ![t] = "saving"]
    /\ UNCHANGED db

(* saveKeyPair, whatever has been stored meanwhile.                         *)
Save(t) ==
    /\ stage[t] = "saving"
    /\ db' = pair[t]
    /\ stage' = [stage EXCEPT ![t] = "up"]
    /\ UNCHANGED <<pair, used>>

Next == \E t \in Tabs : Load(t) \/ Restore(t) \/ Generate(t) \/ Save(t)

Spec == Init /\ [][Next]_vars

(* handleKeyExchangeFromServer: a key of one's own fingerprint is dropped.  *)
Hears(t, u) == pair[t] # pair[u]

(* README.md:33: "Open `http://localhost:3000` in two tabs.  Create a room  *)
(* in one, paste the invite link in the other": two tabs that are up can    *)
(* exchange keys.                                                           *)
TabsMeet ==
    \A t, u \in Tabs : t # u /\ stage[t] = "up" /\ stage[u] = "up" => Hears(t, u)
=============================================================================
