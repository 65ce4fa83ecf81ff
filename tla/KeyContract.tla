---------------------------- MODULE KeyContract ----------------------------
(***************************************************************************)
(* What the Idempotency-Key header promises, without sessions, records or  *)
(* transactions: a key is owned by at most one execution at a time; an     *)
(* execution that ends either keeps its response under the key or gives    *)
(* the key up; while a response is kept nobody owns the key and every      *)
(* stored answer handed out is the kept one; kept responses are forgotten  *)
(* only as a whole, and never while somebody owns the key.                 *)
(***************************************************************************)
CONSTANTS Requests, Keys, None

VARIABLES
    owner,     \* per key: the execution that owns it
    kept,      \* per key: the execution whose response is kept
    answered   \* per request: the execution its stored answer stems from

vars == <<owner, kept, answered>>

Init ==
    /\ owner    = [k \in Keys |-> None]
    /\ kept     = [k \in Keys |-> None]
    /\ answered = [r \in Requests |-> None]

Take(r, k) ==
    /\ owner[k] = None
    /\ kept[k] = None
    /\ owner' = [owner EXCEPT ![k] = r]
    /\ UNCHANGED <<kept, answered>>

\* The owner's response is kept; the owner is answered with it unless the
\* answer got lost
Keep(r, k) ==
    /\ owner[k] = r
    /\ owner' = [owner EXCEPT ![k] = None]
    /\ kept'  = [kept EXCEPT ![k] = r]
    /\ \/ answered' = [answered EXCEPT ![r] = r]
       \/ UNCHANGED answered

\* Executions fail or die together
GiveUp(K) ==
    /\ \A k \in K : owner[k] # None
    /\ owner' = [k \in Keys |-> IF k \in K THEN None ELSE owner[k]]
    /\ UNCHANGED <<kept, answered>>

Replay(r, k) ==
    /\ answered[r] = None
    /\ kept[k] # None
    /\ answered' = [answered EXCEPT ![r] = kept[k]]
    /\ UNCHANGED <<owner, kept>>

Forget(K) ==
    /\ \A k \in K : kept[k] # None
    /\ kept' = [k \in Keys |-> IF k \in K THEN None ELSE kept[k]]
    /\ UNCHANGED <<owner, answered>>

Next ==
    \/ \E r \in Requests, k \in Keys : Take(r, k) \/ Keep(r, k) \/ Replay(r, k)
    \/ \E K \in SUBSET Keys : GiveUp(K) \/ Forget(K)

Spec == Init /\ [][Next]_vars
=============================================================================
