------------------------- MODULE CallerCredentials -------------------------
(***************************************************************************)
(* The caller control plane of one account: setup requests (connect,       *)
(* rotate, revoke; browser or device flow), the callers they create, and   *)
(* the credentials they mint, activate, abort and revoke.  Every handler   *)
(* that changes state is one action.  A handler's transaction holds the    *)
(* row lock of its setup request and, when it changes a caller's existing  *)
(* credentials, the caller's advisory lock, and reads again under it what  *)
(* it decides on: it is one step.  The lookup transaction before it only   *)
(* adds refusals.  Whoever calls the routes may call them in any order.    *)
(***************************************************************************)
EXTENDS Naturals, Sequences, FiniteSets

CONSTANTS
    Setup,      \* setup requests that may be started
    Caller,     \* callers, by slug: a slug names one caller row at a time
    Key,        \* credentials that may ever be minted
    NoSetup, NoCaller, NoKey    \* the value of an empty reference

ASSUME CredentialsAssumption ==
    NoSetup \notin Setup /\ NoCaller \notin Caller /\ NoKey \notin Key

VARIABLES
    setup,      \* agent_outbox_caller_setup_requests
    caller,     \* agent_outbox_callers: none, fresh, or old enough to be pruned
    cred,       \* agent_outbox_caller_credentials
    audit,      \* the caller events of agent_outbox_audit_events
    mintedBy    \* history: the setup request each credential came from

credentialVars == <<setup, caller, cred, audit, mintedBy>>

Operation  == {"connect", "rotate", "revoke"}
Flow       == {"browser", "device"}

\* "none" and "pruned" are rows not yet and no longer in the table.  clock is
\* expires_at against now: live, lapsed, or lapsed for the retention window.
SetupRow ==
    [op : Operation, flow : Flow, caller : Caller \cup {NoCaller},
     name : Caller \cup {NoCaller}, coded : BOOLEAN,
     status : {"none", "pending", "approved", "exchanged", "denied", "expired", "pruned"},
     clock : {"live", "lapsed", "old"}]

\* "none" and "gone" are rows not yet and no longer in the table.
CredRow ==
    [status : {"none", "pending", "active", "revoked", "expired", "gone"},
     caller : Caller \cup {NoCaller}, replaces : Key \cup {NoKey},
     setup : Setup \cup {NoSetup}]

BlankSetup(status) ==
    [op |-> "connect", flow |-> "browser", caller |-> NoCaller, name |-> NoCaller,
     coded |-> FALSE, status |-> status, clock |-> "live"]

BlankCred(status) ==
    [status |-> status, caller |-> NoCaller, replaces |-> NoKey, setup |-> NoSetup]

CredentialsTypeOK ==
    /\ setup \in [Setup -> SetupRow]
    /\ caller \in [Caller -> {"none", "fresh", "old"}]
    /\ cred \in [Key -> CredRow]
    /\ audit \in [Caller -> Seq({"registered", "rotated", "revoked"})]
    /\ mintedBy \in [Key -> Setup \cup {NoSetup}]

\* The callers in connected, each with a key of its own.
InitWith(connected, key) ==
    /\ setup = [s \in Setup |-> BlankSetup("none")]
    /\ caller = [c \in Caller |-> IF c \in connected THEN "old" ELSE "none"]
    /\ cred = [k \in Key |->
                IF \E c \in connected : key[c] = k
                THEN [BlankCred("active") EXCEPT !.caller = CHOOSE c \in connected : key[c] = k]
                ELSE BlankCred("none")]
    /\ audit = [c \in Caller |-> IF c \in connected THEN <<"registered">> ELSE <<>>]
    /\ mintedBy = [k \in Key |-> NoSetup]

\* Callers connected some time ago, their setup requests pruned since, may be
\* in the tables already.
CredentialsInit ==
    \E connected \in SUBSET Caller :
        \E key \in [connected -> Key] :
            /\ \A c, d \in connected : key[c] = key[d] => c = d
            /\ InitWith(connected, key)

---------------------------------------------------------------------------
(* What the statements select                                              *)

Live(s)       == setup[s].clock = "live"
ActiveKeys(c) == {k \in Key : cred[k].status = "active" /\ cred[k].caller = c}
PendingOf(c)  == {k \in Key : cred[k].status = "pending" /\ cred[k].caller = c}

\* A pending credential expires with the request that minted it.
KeyLapsed(k)  == ~Live(cred[k].setup)

\* The setup code this request can be exchanged by is valid.
Exchangeable(s) ==
    /\ setup[s].status = "approved" /\ Live(s)
    /\ setup[s].coded \/ (setup[s].op = "connect" /\ setup[s].flow = "device")

SetStatus(s, status) == setup' = [setup EXCEPT ![s].status = status]

\* Credentials that leave pending_activation lose their two references.
Ended(K, status) ==
    [k \in Key |-> IF k \in K
                   THEN [cred[k] EXCEPT !.status = status, !.replaces = NoKey,
                                        !.setup = NoSetup]
                   ELSE cred[k]]

\* Mutant: an event the audit table does not know.
Misfiled(c, event) == audit' = [audit EXCEPT ![c] = Append(@, "connected")]

Log(c, event) == audit' = [audit EXCEPT ![c] = Append(@, event)]

---------------------------------------------------------------------------
(* Setup requests                                                          *)

\* rotate and revoke name a caller: the foreign key refuses an unknown one.
StartSetup(s, op, flow, c) ==
    /\ setup[s].status = "none"
    /\ op # "connect" => caller[c] # "none"
    /\ setup' = [setup EXCEPT ![s] =
            [op |-> op, flow |-> flow, name |-> c, coded |-> FALSE,
             caller |-> IF op = "connect" THEN NoCaller ELSE c,
             status |-> "pending", clock |-> "live"]]
    /\ UNCHANGED <<caller, cred, audit, mintedBy>>

\* The caller an approval binds: connect creates it unless the slug is taken,
\* rotate needs a key to replace.
Approvable(s) ==
    LET c == setup[s].name IN
    /\ setup[s].status = "pending" /\ Live(s)
    /\ (setup[s].op = "connect") <=> (caller[c] = "none")
    /\ setup[s].op = "rotate" => ActiveKeys(c) # {}

\* A browser approval hands out the setup code, a device approval does not.
Approve(s) ==
    LET c == setup[s].name IN
    /\ Approvable(s)
    /\ setup' = [setup EXCEPT ![s].status = "approved", ![s].caller = c,
                              ![s].coded = (setup[s].flow = "browser")]
    /\ caller' = [caller EXCEPT ![c] = IF setup[s].op = "connect" THEN "fresh" ELSE @]
    /\ UNCHANGED <<cred, audit, mintedBy>>

\* A denial does not look at the clock.
Deny(s) ==
    /\ setup[s].status = "pending"
    /\ SetStatus(s, "denied")
    /\ UNCHANGED <<caller, cred, audit, mintedBy>>

\* A rotate or revoke poll mints the setup code, once.
DevicePoll(s) ==
    /\ setup[s].op # "connect" /\ setup[s].flow = "device"
    /\ setup[s].status = "approved" /\ Live(s) /\ ~setup[s].coded
    /\ setup' = [setup EXCEPT ![s].coded = TRUE]
    /\ UNCHANGED <<caller, cred, audit, mintedBy>>

\* Any handler that finds the request past expires_at marks it and refuses;
\* the retention window starts again.
MarkExpired(s) ==
    /\ setup[s].status \in {"pending", "approved"} /\ ~Live(s)
    /\ setup' = [setup EXCEPT ![s].status = "expired", ![s].clock = "lapsed"]
    /\ UNCHANGED <<caller, cred, audit, mintedBy>>

---------------------------------------------------------------------------
(* Credentials                                                             *)

\* Mutant: an exchange forgets to use up its request.
KeepsRequest(s) == SetStatus(s, "approved")

UseUp(s) == SetStatus(s, "exchanged")

\* The index on pending_activation admits one pending credential per caller.
Mint(s, k, old, expired) ==
    LET c == setup[s].caller IN
    /\ cred[k].status = "none"
    /\ PendingOf(c) \subseteq expired
    /\ cred' = [Ended(expired, "expired") EXCEPT ![k] =
                    [status |-> "pending", caller |-> c, replaces |-> old, setup |-> s]]
    /\ mintedBy' = [mintedBy EXCEPT ![k] = s]
    /\ UseUp(s)
    /\ UNCHANGED <<caller, audit>>

ExchangeConnect(s, k) ==
    /\ setup[s].op = "connect" /\ Exchangeable(s)
    /\ Mint(s, k, NoKey, {})

\* Replacements that lapsed unused make room for the new one.
ExchangeRotate(s, k) ==
    LET c == setup[s].caller IN
    /\ setup[s].op = "rotate" /\ Exchangeable(s)
    /\ \E old \in ActiveKeys(c) :
        Mint(s, k, old, {p \in PendingOf(c) : KeyLapsed(p) /\ cred[p].replaces # NoKey})

\* The row a finalize handler finds under the lock: a replacement is joined
\* with the credential it replaces while that one is active.
Pending(k) ==
    /\ cred[k].status = "pending"
    /\ cred[k].replaces # NoKey => cred[cred[k].replaces].status = "active"

Verified(k) == Pending(k) /\ ~KeyLapsed(k)

\* Mutant: a rotation leaves the key it replaces alone.
NothingRevoked(k) == cred

\* The replaced credential is revoked first, so the index on active holds.
RevokeReplaced(k) ==
    LET old == cred[k].replaces IN
    IF old = NoKey THEN cred ELSE [cred EXCEPT ![old].status = "revoked"]

Activate(k) ==
    LET c == cred[k].caller
        revoked == RevokeReplaced(k)
    IN
    /\ Verified(k)
    /\ cred' = [revoked EXCEPT ![k] = [BlankCred("active") EXCEPT !.caller = c]]
    /\ Log(c, IF cred[k].replaces = NoKey THEN "registered" ELSE "rotated")
    /\ UNCHANGED <<setup, caller, mintedBy>>

Abort(k) ==
    /\ Verified(k)
    /\ cred' = Ended({k}, "expired")
    /\ UNCHANGED <<setup, caller, audit, mintedBy>>

\* A finalize handler that finds the credential past expires_at expires it.
ExpireKey(k) ==
    /\ Pending(k) /\ KeyLapsed(k)
    /\ cred' = Ended({k}, "expired")
    /\ UNCHANGED <<setup, caller, audit, mintedBy>>

\* Mutant: a revocation leaves the pending replacement alone.
NoPending(c) == {}

\* The pending credentials a revocation takes with it.
Withdrawn(c) == PendingOf(c)

ConfirmRevoke(s) ==
    LET c == setup[s].caller
        ended == Ended(Withdrawn(c), "expired")
    IN
    /\ setup[s].op = "revoke" /\ Exchangeable(s)
    /\ cred' = [k \in Key |-> IF k \in ActiveKeys(c)
                              THEN [ended[k] EXCEPT !.status = "revoked"] ELSE ended[k]]
    /\ UseUp(s)
    /\ Log(c, "revoked")
    /\ UNCHANGED <<caller, mintedBy>>

\* The key authenticates a caller API request.
Authenticates(k) == cred[k].status = "active"

---------------------------------------------------------------------------
(* Time and scheduled cleanup                                              *)

\* Ten minutes after the start, and the retention window after that.
Lapse(s) ==
    /\ setup[s].status \notin {"none", "pruned"} /\ Live(s)
    /\ setup' = [setup EXCEPT ![s].clock = "lapsed"]
    /\ UNCHANGED <<caller, cred, audit, mintedBy>>

Age(s) ==
    /\ setup[s].clock = "lapsed"
    /\ setup' = [setup EXCEPT ![s].clock = "old"]
    /\ UNCHANGED <<caller, cred, audit, mintedBy>>

\* The retention window of a caller is longer than the life of the request
\* that created it.
AgeCaller(c) ==
    /\ caller[c] = "fresh"
    /\ \A s \in Setup : setup[s].caller = c /\ setup[s].op = "connect" => ~Live(s)
    /\ caller' = [caller EXCEPT ![c] = "old"]
    /\ UNCHANGED <<setup, cred, audit, mintedBy>>

\* A request some credential still refers to is kept.
PruneSetup(s) ==
    /\ setup[s].clock = "old" /\ setup[s].status # "pruned"
    /\ \A k \in Key : cred[k].setup # s
    /\ setup' = [setup EXCEPT ![s] = BlankSetup("pruned")]
    /\ UNCHANGED <<caller, cred, audit, mintedBy>>

\* Mutant: only active keys keep a caller from being pruned.
NotActive(c) == ActiveKeys(c) = {}

\* The caller never had a working key and left no trace in the audit log.
NeverActivated(c) ==
    /\ audit[c] = <<>>
    /\ \A k \in Key : cred[k].caller = c => cred[k].status \notin {"active", "revoked"}

\* Credentials and setup requests of the caller are deleted with it.
PruneCaller(c) ==
    /\ caller[c] = "old" /\ NeverActivated(c)
    /\ caller' = [caller EXCEPT ![c] = "none"]
    /\ cred' = [k \in Key |-> IF cred[k].caller = c THEN BlankCred("gone") ELSE cred[k]]
    /\ setup' = [s \in Setup |-> IF setup[s].caller = c THEN BlankSetup("pruned") ELSE setup[s]]
    /\ UNCHANGED <<audit, mintedBy>>

---------------------------------------------------------------------------
CredentialsNext ==
    \/ \E s \in Setup, op \in Operation, flow \in Flow, c \in Caller :
            StartSetup(s, op, flow, c)
    \/ \E s \in Setup : Approve(s)
    \/ \E s \in Setup : Deny(s)
    \/ \E s \in Setup : DevicePoll(s)
    \/ \E s \in Setup : MarkExpired(s)
    \/ \E s \in Setup, k \in Key : ExchangeConnect(s, k)
    \/ \E s \in Setup, k \in Key : ExchangeRotate(s, k)
    \/ \E k \in Key : Activate(k)
    \/ \E k \in Key : Abort(k)
    \/ \E k \in Key : ExpireKey(k)
    \/ \E s \in Setup : ConfirmRevoke(s)
    \/ \E s \in Setup : Lapse(s)
    \/ \E s \in Setup : Age(s)
    \/ \E c \in Caller : AgeCaller(c)
    \/ \E s \in Setup : PruneSetup(s)
    \/ \E c \in Caller : PruneCaller(c)

CredentialsSpec == CredentialsInit /\ [][CredentialsNext]_credentialVars

---------------------------------------------------------------------------
(* Properties                                                              *)

\* Nothing is minted without a person's approval, and one approval mints at
\* most one key: every credential came from a request of its own that was
\* approved and is used up (exchange and rotate/connect code single use).
OneKeyPerApproval ==
    \A k \in Key : mintedBy[k] # NoSetup =>
        /\ setup[mintedBy[k]].status \in {"exchanged", "pruned"}
        /\ \A j \in Key : mintedBy[j] = mintedBy[k] => j = k

\* The two partial unique indexes are never what saves an activation: a
\* caller has at most one active key, a pending connect key belongs to a
\* caller without one, and at most one key is pending.
ActivationFits ==
    \A c \in Caller :
        /\ Cardinality(ActiveKeys(c)) <= 1
        /\ Cardinality(PendingOf(c)) <= 1
        /\ \A k \in PendingOf(c) : cred[k].replaces = NoKey => ActiveKeys(c) = {}

\* The audit log tells which callers can call: a caller has a working key
\* exactly when its last event is not a revocation, whatever was pending,
\* aborted, expired or pruned in between, and a caller with a history is
\* never deleted.
AuditTellsKeys ==
    \A c \in Caller :
        /\ ActiveKeys(c) # {} <=>
               audit[c] # <<>> /\ audit[c][Len(audit[c])] # "revoked"
        /\ caller[c] = "none" => audit[c] = <<>>

\* The value of a set with at most one key.
TheKey(K) == IF K = {} THEN NoKey ELSE CHOOSE k \in K : TRUE

Lifecycle == INSTANCE CallerLifecycle WITH
    working <- [c \in Caller |-> TheKey(ActiveKeys(c))],
    offered <- [c \in Caller |-> TheKey(PendingOf(c))],
    spent   <- {k \in Key : cred[k].status \in {"revoked", "expired", "gone"}}

\* The credential routes implement the lifecycle a person relies on: a
\* rotation is one swap with no moment without a key, a revocation takes the
\* pending replacement with it, and a key that was revoked, aborted or
\* expired never works again.
ImplementsLifecycle == Lifecycle!Spec
=============================================================================
