-------------------------- MODULE CallerLifecycle --------------------------
(***************************************************************************)
(* What the credential routes promise an account about its callers' keys,  *)
(* with no setup request, code, database row or clock in sight: a caller   *)
(* has at most one working key and at most one offered to it, an offered   *)
(* key takes over in one step, a revocation takes both, and a key that was *)
(* taken or given up never works again.                                    *)
(***************************************************************************)
CONSTANTS
    Caller,     \* callers of the account
    Key,        \* credentials that may ever be minted
    NoKey       \* no key

VARIABLES
    working,    \* the key each caller can call the API with
    offered,    \* the key each caller was handed and has not activated
    spent       \* keys that will never work again

lifecycleVars == <<working, offered, spent>>

Known == {working[c] : c \in Caller} \cup {offered[c] : c \in Caller} \cup spent

Init ==
    /\ working \in [Caller -> Key \cup {NoKey}]
    /\ \A c, d \in Caller : c # d /\ working[c] = working[d] => working[c] = NoKey
    /\ offered = [c \in Caller |-> NoKey]
    /\ spent = {}

\* A caller is handed a new key; one offered before is given up for it.
Offer(c, k) ==
    /\ k \notin Known
    /\ offered' = [offered EXCEPT ![c] = k]
    /\ spent' = spent \cup ({offered[c]} \ {NoKey})
    /\ UNCHANGED working

\* The offered key becomes the working one, in one step.
Adopt(c) ==
    /\ offered[c] # NoKey
    /\ working' = [working EXCEPT ![c] = offered[c]]
    /\ offered' = [offered EXCEPT ![c] = NoKey]
    /\ spent' = spent \cup ({working[c]} \ {NoKey})

GiveUp(c) ==
    /\ offered' = [offered EXCEPT ![c] = NoKey]
    /\ spent' = spent \cup ({offered[c]} \ {NoKey})
    /\ UNCHANGED working

Revoke(c) ==
    /\ working' = [working EXCEPT ![c] = NoKey]
    /\ offered' = [offered EXCEPT ![c] = NoKey]
    /\ spent' = spent \cup ({working[c], offered[c]} \ {NoKey})

Next ==
    \/ \E c \in Caller, k \in Key : Offer(c, k)
    \/ \E c \in Caller : Adopt(c) \/ GiveUp(c) \/ Revoke(c)

Spec == Init /\ [][Next]_lifecycleVars
=============================================================================
