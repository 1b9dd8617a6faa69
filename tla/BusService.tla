----------------------------- MODULE BusService -----------------------------
(***************************************************************************)
(* What the SMBus driver promises to those who use the bus.  One of them   *)
(* owns it at a time, and only the owner asks for a transaction.  On a bus *)
(* without faults each transaction is run exactly once before its owner    *)
(* goes on, which is told how this very transaction ended and, of a read,  *)
(* holds the bytes of it until it asks again or gives the bus back and     *)
(* takes it another time.                                                  *)
(***************************************************************************)
EXTENDS Naturals

CONSTANTS Users, None, Transactions

VARIABLES
    reliable,   \* nothing is late and no slave pulls SMBALERT# on this bus
    owner,
    asked,      \* the transaction a user waits for
    ran,        \* what became of it: not "no" from the moment it is run
    answer      \* what the user was told, and the bytes it was given
vars == <<reliable, owner, asked, ran, answer>>

\* The bytes that belong to a request: its user, its number, their places.
BytesOf(u, r) == [k \in 1 .. r.len |-> <<<<u, r.sn>>, k - 1>>]

Silence == [told |-> "none", bytes |-> <<>>]
Verdict(u) ==
    [told |-> ran[u],
     bytes |-> IF ran[u] = "ok" /\ asked[u].op = "read" THEN BytesOf(u, asked[u]) ELSE <<>>]
Unreliable == {"ok", "error", "timeout"}

Init ==
    /\ reliable \in BOOLEAN
    /\ owner = None
    /\ asked = [u \in Users |-> None]
    /\ ran = [u \in Users |-> "no"]
    /\ answer = [u \in Users |-> Silence]

Lock(u) ==
    /\ owner = None /\ owner' = u
    /\ answer' = [answer EXCEPT ![u] = Silence]
    /\ UNCHANGED <<reliable, asked, ran>>

Unlock(u) ==
    /\ owner = u /\ asked[u] = None
    /\ owner' = None
    /\ UNCHANGED <<reliable, asked, ran, answer>>

Ask(u) ==
    /\ owner = u /\ asked[u] = None
    /\ \E r \in Transactions : asked' = [asked EXCEPT ![u] = r]
    /\ answer' = [answer EXCEPT ![u] = Silence]
    /\ UNCHANGED <<reliable, owner, ran>>

\* The controller is still at a transaction somebody gave up.
Refuse(u) ==
    /\ owner = u /\ asked[u] = None /\ ~reliable
    /\ answer' = [answer EXCEPT ![u] = [told |-> "refused", bytes |-> <<>>]]
    /\ UNCHANGED <<reliable, owner, asked, ran>>

Run(u) ==
    /\ reliable /\ asked[u] # None /\ ran[u] = "no"
    /\ \E v \in {"ok", "error"} : ran' = [ran EXCEPT ![u] = v]
    /\ UNCHANGED <<reliable, owner, asked, answer>>

\* With faults nothing is promised of what is told.
Return(u) ==
    /\ owner = u /\ asked[u] # None
    /\ \/ reliable /\ ran[u] # "no" /\ answer' = [answer EXCEPT ![u] = Verdict(u)]
       \/ /\ ~reliable
          /\ \E t \in Unreliable : answer' = [answer EXCEPT ![u] = [told |-> t, bytes |-> <<>>]]
    /\ asked' = [asked EXCEPT ![u] = None]
    /\ ran' = [ran EXCEPT ![u] = "no"]
    /\ UNCHANGED <<reliable, owner>>

Next == \E u \in Users : Lock(u) \/ Unlock(u) \/ Ask(u) \/ Refuse(u) \/ Run(u) \/ Return(u)

Spec == Init /\ [][Next]_vars
=============================================================================
