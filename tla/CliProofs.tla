------------------------------ MODULE CliProofs ------------------------------
(***************************************************************************)
(* The command-line client keeps a key that works, proved for any number   *)
(* of commands, callers and keys.                                          *)
(*                                                                         *)
(* The client's requests are routes, so the credentials keep KeyInv.  The  *)
(* argument then follows the lock: only its holder has stored a key that   *)
(* may not work yet, and an activation that is handled after its command   *)
(* has let go of the lock is of an excused caller.                         *)
(***************************************************************************)
EXTENDS CallerCli, CredentialsProofs

Place ==
    {"idle", "waiting", "code", "pending", "stored", "saved", "activating", "aborting",
     "failed", "done", "rolledback", "inconsistent", "kept", "crashed"}

CliTypeOK ==
    /\ command \in [Setup -> Command]
    /\ pc \in [Setup -> Place]
    /\ held \in [Setup -> Key \cup {NoKey}]
    /\ old \in [Setup -> Key \cup {NoKey}]
    /\ activating \subseteq Setup
    /\ answer \in [Setup -> {"none", "activated", "refused"}]
    /\ secret \in [Caller -> Key \cup {NoKey}]
    /\ config \in [Caller -> BOOLEAN]
    /\ lock \in Setup \cup {NoSetup}
    /\ excused \subseteq Caller

\* The requests of the commands that run name their callers.
Requested ==
    \A s \in Setup :
        /\ pc[s] = "idle" => setup[s] = BlankSetup("none")
        /\ pc[s] # "idle" => Named(s) \in Caller
        /\ setup[s].status = "pending" => setup[s].name = Named(s)
        /\ setup[s].status = "approved" => setup[s].caller = Named(s)

Critical == {"stored", "saved", "activating"}

\* The lock is held exactly inside the critical section, and an activation is
\* sent from there.
Locked ==
    \A s \in Setup :
        /\ lock = s <=> pc[s] \in Critical
        /\ answer[s] # "none" => pc[s] = "activating" /\ s \notin activating
        /\ s \in activating => pc[s] \in {"activating", "kept", "crashed"}

Keeping == Critical \cup {"pending", "aborting", "rolledback"}

\* A command's key is its own; it works only once the command's activation was
\* handled.
OwnKeys ==
    \A s \in Setup :
        /\ pc[s] \in Keeping \/ s \in activating => held[s] # NoKey
        /\ held[s] # NoKey =>
            /\ pc[s] # "idle"
            /\ mintedBy[held[s]] = s /\ cred[held[s]].status # "none"
            /\ cred[held[s]].status \in {"pending", "active"} => cred[held[s]].caller = Named(s)
            /\ cred[held[s]].status = "active" =>
                /\ s \notin activating
                /\ pc[s] \in {"activating", "done", "kept", "crashed"}
                /\ pc[s] = "activating" => answer[s] = "activated"

\* Inside the critical section the key is stored, and the caller is configured
\* once the config is saved.
Stored ==
    \A s \in Setup : pc[s] \in Critical =>
        /\ secret[Named(s)] = held[s]
        /\ command[s].op # "connect" \/ pc[s] # "stored" => config[Named(s)]

Busy(c)   == lock # NoSetup /\ Named(lock) = c
Proven(c) == Busy(c) /\ answer[lock] = "activated"

\* An activation that is handled late is of an excused caller,
\* and that no later command has activated.
LateIsExcused ==
    \A s \in activating : cred[held[s]].status = "pending" /\ lock # s =>
        Named(s) \in excused /\ ~Proven(Named(s))

\* A working key is stored and its caller configured, or a rotation that is not
\* answered yet would restore it.
Keeps(c) ==
    \A k \in ActiveKeys(c) :
        IF Busy(c) /\ ~Proven(c)
        THEN command[lock].op # "connect" /\ old[lock] = k
        ELSE secret[c] = k /\ config[c]

Kept == \A c \in Caller : c \notin excused \/ Proven(c) => Keeps(c)

CliInv ==
    /\ KeyInv
    /\ CliTypeOK /\ Requested /\ Locked /\ OwnKeys /\ Stored /\ LateIsExcused /\ Kept
---------------------------------------------------------------------------
(* The client's requests are routes                                        *)

LEMMA HoldsKey ==
    ASSUME CliInv, NEW s \in Setup, pc[s] \in Keeping \/ s \in activating
    PROVE  held[s] \in Key
BY DEF CliInv, CliTypeOK, OwnKeys

LEMMA RequestMaps ==
    ASSUME CliInv, [CliNext]_allVars
    PROVE  [CredentialsNext]_credentialVars
<1>1. ASSUME NEW s \in Setup, NEW op \in Operation, NEW flow \in Flow, NEW c \in Caller,
             Begin(s, op, flow, c)
      PROVE  CredentialsNext
  BY <1>1 DEF Begin, CredentialsNext
<1>2. ASSUME NEW s \in Setup, Person(s) \/ Poll(s) \/ Confirm(s)
      PROVE  CredentialsNext
  BY <1>2 DEF Person, Poll, Confirm, CredentialsNext
<1>3. ASSUME NEW s \in Setup, NEW k \in Key, Exchange(s, k)
      PROVE  CredentialsNext
  BY <1>3 DEF Exchange, CredentialsNext
<1>4. ASSUME NEW s \in Setup, AbortPending(s)
      PROVE  [CredentialsNext]_credentialVars
  <2>1. held[s] \in Key
    BY <1>4, HoldsKey DEF AbortPending, At, Keeping
  <2> QED
    BY <1>4, <2>1 DEF AbortPending, CredentialsNext
<1>5. ASSUME NEW s \in Setup, Serve(s)
      PROVE  [CredentialsNext]_credentialVars
  <2>1. held[s] \in Key
    BY <1>5, HoldsKey DEF Serve, HandleActivate, RefuseActivate
  <2> QED
    BY <1>5, <2>1 DEF Serve, HandleActivate, RefuseActivate, CredentialsNext
<1>6. ASSUME NEW s \in Setup,
             \/ Callback(s) \/ StopWaiting(s) \/ CodeFails(s) \/ StoreSecret(s)
             \/ StoreFails(s) \/ StoreFailsLate(s)
             \/ SaveConfig(s) \/ SaveFails(s) \/ SendActivate(s)
             \/ ActivateDone(s) \/ RollBack(s) \/ RollBackFails(s) \/ KeepKey(s)
             \/ PollFails(s) \/ Crash(s)
      PROVE  UNCHANGED credentialVars
  BY <1>6 DEF Callback, StopWaiting, CodeFails, StoreSecret, StoreFails, StoreFailsLate,
     SaveConfig, SaveFails, SendActivate, ActivateDone, RollBack, RollBackFails, KeepKey, PollFails,
     Crash
<1>7. ASSUME NEW c \in Caller, Disconnect(c) PROVE UNCHANGED credentialVars
  BY <1>7 DEF Disconnect
<1>8. CASE Time
  BY <1>8 DEF Time, CredentialsNext
<1>9. CASE UNCHANGED allVars
  BY <1>9 DEF allVars
<1> QED
  BY <1>1, <1>2, <1>3, <1>4, <1>5, <1>6, <1>7, <1>8, <1>9 DEF CliNext, Proceed

LEMMA KeysStay ==
    ASSUME CliInv, [CliNext]_allVars
    PROVE  KeyInv'
BY RequestMaps, KeysKept DEF CliInv

---------------------------------------------------------------------------
(* What the routes do to keys and requests                                 *)

\* No key starts to work or to wait, and none is forgotten.
Calm ==
    /\ mintedBy' = mintedBy
    /\ \A k \in Key :
        /\ cred'[k].status \in {"pending", "active"} =>
              cred'[k].status = cred[k].status /\ cred'[k].caller = cred[k].caller
        /\ cred[k].status # "none" => cred'[k].status # "none"

\* Requests end, or are approved for the caller they name.
Steady ==
    \A s \in Setup :
        /\ setup[s] = BlankSetup("none") => setup'[s] = setup[s]
        /\ setup'[s].status = "pending" =>
              setup[s].status = "pending" /\ setup'[s].name = setup[s].name
        /\ setup'[s].status = "approved" =>
              \/ setup[s].status = "approved" /\ setup'[s].caller = setup[s].caller
              \/ setup[s].status = "pending" /\ setup'[s].caller = setup[s].name

LEMMA SameIsCalm ==
    ASSUME UNCHANGED credentialVars
    PROVE  Calm /\ Steady
BY DEF credentialVars, Calm, Steady

LEMMA RequestsAreCalm ==
    ASSUME KeyInv, NEW s \in Setup,
           \/ Approve(s) \/ Deny(s) \/ DevicePoll(s) \/ MarkExpired(s) \/ Lapse(s)
           \/ Age(s) \/ PruneSetup(s)
    PROVE  Calm /\ Steady
<1>1. setup[s] \in SetupRow /\ setup \in [Setup -> SetupRow]
  BY DEF KeyInv, CredentialsTypeOK
<1>2. cred' = cred /\ mintedBy' = mintedBy
  BY DEF Approve, Deny, DevicePoll, MarkExpired, Lapse, Age, PruneSetup
<1>3. setup[s] = BlankSetup("none") => setup[s].status = "none" /\ setup[s].clock = "live"
  BY DEF BlankSetup
<1>4. \A t \in Setup : t # s => setup'[t] = setup[t]
  BY <1>1 DEF Approve, Deny, SetStatus, DevicePoll, MarkExpired, Lapse, Age, PruneSetup
<1>5. CASE Approve(s)
  <2>1. setup[s].status = "pending" /\ setup'[s].caller = setup[s].name
        /\ setup'[s].status = "approved"
    BY <1>1, <1>5 DEF Approve, Approvable, SetupRow
  <2> QED
    BY <1>2, <1>3, <1>4, <2>1 DEF Calm, Steady
<1>6. CASE ~Approve(s)
  <2>1. setup[s] # BlankSetup("none")
    BY <1>3, <1>6 DEF Deny, DevicePoll, MarkExpired, Lapse, Live, Age, PruneSetup
  <2>2. /\ setup'[s].status \in {setup[s].status, "denied", "expired", "pruned"}
        /\ setup'[s].status = setup[s].status =>
              setup'[s].name = setup[s].name /\ setup'[s].caller = setup[s].caller
    <3>1. CASE Deny(s)
      BY <1>1, <3>1 DEF Deny, SetStatus, SetupRow
    <3>2. CASE DevicePoll(s)
      BY <1>1, <3>2 DEF DevicePoll, SetupRow
    <3>3. CASE MarkExpired(s)
      BY <1>1, <3>3 DEF MarkExpired, SetupRow
    <3>4. CASE Lapse(s) \/ Age(s)
      BY <1>1, <3>4 DEF Lapse, Age, SetupRow
    <3>5. CASE PruneSetup(s)
      BY <1>1, <3>5 DEF PruneSetup, BlankSetup
    <3> QED
      BY <1>6, <3>1, <3>2, <3>3, <3>4, <3>5
  <2> QED
    BY <1>2, <1>4, <2>1, <2>2 DEF Calm, Steady
<1> QED
  BY <1>5, <1>6

LEMMA EndsAreCalm ==
    ASSUME KeyInv, NEW k \in Key, Abort(k) \/ ExpireKey(k)
    PROVE  Calm /\ Steady
<1>1. cred' = Ended({k}, "expired") /\ cred[k].status = "pending"
      /\ setup' = setup /\ mintedBy' = mintedBy
  BY DEF Abort, ExpireKey, Verified, Pending
<1>2. \A j \in Key : /\ cred'[j].caller = cred[j].caller
                     /\ j = k => cred'[j].status = "expired"
                     /\ j # k => cred'[j] = cred[j]
  BY <1>1, EndedShrinks DEF KeyInv
<1> QED
  BY <1>1, <1>2 DEF Calm, Steady

LEMMA RevocationIsCalm ==
    ASSUME KeyInv, NEW s \in Setup, ConfirmRevoke(s)
    PROVE  Calm /\ Steady
<1>1. mintedBy' = mintedBy /\ setup' = [setup EXCEPT ![s].status = "exchanged"]
      /\ setup[s].status = "approved"
  BY DEF ConfirmRevoke, UseUp, SetStatus, Exchangeable
<1>2. \A k \in Key : Shrinks(k)
  BY Revocation
<1>3. Steady
  <2>1. setup[s] # BlankSetup("none")
    BY <1>1 DEF BlankSetup
  <2>2. setup'[s].status = "exchanged" /\ \A t \in Setup : t # s => setup'[t] = setup[t]
    BY <1>1 DEF KeyInv, CredentialsTypeOK, SetupRow
  <2> QED
    BY <2>1, <2>2 DEF Steady
<1> QED
  BY <1>1, <1>2, <1>3 DEF Calm, Shrinks

LEMMA CallersAreCalm ==
    ASSUME KeyInv, NEW c \in Caller, AgeCaller(c) \/ PruneCaller(c)
    PROVE  Calm /\ Steady
<1>1. CASE AgeCaller(c)
  BY <1>1 DEF AgeCaller, Calm, Steady
<1>2. CASE PruneCaller(c)
  <2>1. \A k \in Key : cred'[k] = cred[k] \/ cred'[k].status = "gone"
    BY <1>2 DEF PruneCaller, BlankCred
  <2>2. \A s \in Setup : IF setup[s].caller = c THEN setup'[s].status = "pruned"
                                               ELSE setup'[s] = setup[s]
    BY <1>2 DEF PruneCaller, BlankSetup
  <2>3. BlankSetup("none").caller # c
    BY CredentialsAssumption DEF BlankSetup
  <2>4. mintedBy' = mintedBy
    BY <1>2 DEF PruneCaller
  <2> QED
    BY <2>1, <2>2, <2>3, <2>4 DEF Calm, Steady
<1> QED
  BY <1>1, <1>2
---------------------------------------------------------------------------
(* The parts of the invariant that a step leaves alone                     *)

LEMMA Goes ==
    ASSUME CliTypeOK, NEW s \in Setup, NEW p \in Place, Goto(s, p)
    PROVE  /\ pc' \in [Setup -> Place]
           /\ pc'[s] = p
           /\ \A t \in Setup : t # s => pc'[t] = pc[t]
BY DEF CliTypeOK, Goto

LEMMA Ends ==
    ASSUME CliTypeOK, NEW s \in Setup, NEW p \in Place, End(s, p)
    PROVE  /\ pc' \in [Setup -> Place] /\ old' \in [Setup -> Key \cup {NoKey}]
           /\ answer' \in [Setup -> {"none", "activated", "refused"}]
           /\ pc'[s] = p /\ answer'[s] = "none"
           /\ \A t \in Setup : t # s => /\ pc'[t] = pc[t] /\ old'[t] = old[t]
                                        /\ answer'[t] = answer[t]
           /\ command' = command /\ held' = held
BY DEF CliTypeOK, Goto, End

\* A command is asked for one thing.
SameNames == \A s \in Setup : pc[s] # "idle" => command'[s] = command[s]

LEMMA NamesAreSame == ASSUME command' = command PROVE SameNames
BY DEF SameNames

\* The requests of commands that have begun, and the commands they came from.
LEMMA RequestedKept ==
    ASSUME Requested, Steady, command' = command,
           \A s \in Setup : pc'[s] = "idle" <=> pc[s] = "idle"
    PROVE  Requested'
BY DEF Requested, Steady, Named

\* Keys stay their commands' when the places change as a command may go.
LEMMA OwnKeysKept ==
    ASSUME CliInv, Calm, SameNames, held' = held,
           \A s \in activating' : s \in activating \/ pc[s] = "saved",
           \A s \in Setup :
               /\ pc'[s] = "idle" => pc[s] = "idle"
               /\ pc'[s] \in Keeping => pc[s] \in Keeping
               /\ pc[s] \in {"activating", "done", "kept", "crashed"} /\
                  (pc[s] = "activating" => answer[s] = "activated") =>
                      /\ pc'[s] \in {"activating", "done", "kept", "crashed"}
                      /\ pc'[s] = "activating" => answer'[s] = "activated"
    PROVE  OwnKeys'
<1> SUFFICES ASSUME NEW s \in Setup
             PROVE  /\ pc'[s] \in Keeping \/ s \in activating' => held'[s] # NoKey
                    /\ held'[s] # NoKey =>
                        /\ pc'[s] # "idle"
                        /\ mintedBy'[held'[s]] = s /\ cred'[held'[s]].status # "none"
                        /\ cred'[held'[s]].status \in {"pending", "active"} =>
                              cred'[held'[s]].caller = Named(s)'
                        /\ cred'[held'[s]].status = "active" =>
                            /\ s \notin activating'
                            /\ pc'[s] \in {"activating", "done", "kept", "crashed"}
                            /\ pc'[s] = "activating" => answer'[s] = "activated"
  BY DEF OwnKeys
<1>1. held[s] # NoKey => Named(s)' = Named(s)
  BY DEF Named, SameNames, CliInv, OwnKeys
<1>2. pc'[s] \in Keeping \/ s \in activating' => held'[s] # NoKey
  BY DEF CliInv, OwnKeys, Keeping, Critical
<1>3. ASSUME held[s] # NoKey
      PROVE  /\ held[s] \in Key /\ pc[s] # "idle"
             /\ mintedBy'[held[s]] = s /\ cred'[held[s]].status # "none"
             /\ cred'[held[s]].status \in {"pending", "active"} =>
                   /\ cred'[held[s]].caller = Named(s)
                   /\ cred[held[s]].status = cred'[held[s]].status
  BY <1>3 DEF CliInv, CliTypeOK, OwnKeys, Calm
<1>4. ASSUME held[s] # NoKey, cred'[held[s]].status = "active"
      PROVE  /\ s \notin activating'
             /\ pc'[s] \in {"activating", "done", "kept", "crashed"}
             /\ pc'[s] = "activating" => answer'[s] = "activated"
  <2>1. cred[held[s]].status = "active"
    BY <1>3, <1>4
  <2>2. /\ s \notin activating
        /\ pc[s] \in {"activating", "done", "kept", "crashed"}
        /\ pc[s] = "activating" => answer[s] = "activated"
    BY <1>4, <2>1 DEF CliInv, OwnKeys
  <2> QED
    BY <2>2
<1> QED
  BY <1>1, <1>2, <1>3, <1>4

\* The lock and the excused callers stay, and no activation is sent or answered.
LEMMA LateKept ==
    ASSUME CliInv, Calm, SameNames, held' = held,
           lock' = lock, excused \subseteq excused',
           lock # NoSetup /\ answer'[lock] = "activated" => answer[lock] = "activated",
           activating' \subseteq activating
    PROVE  LateIsExcused'
<1> SUFFICES ASSUME NEW s \in activating', cred'[held'[s]].status = "pending", lock' # s
             PROVE  Named(s)' \in excused' /\ ~Proven(Named(s))'
  BY DEF LateIsExcused
<1>1. s \in activating /\ lock # s /\ held[s] \in Key /\ s \in Setup
  BY HoldsKey DEF CliInv, CliTypeOK
<1>2. cred[held[s]].status = "pending"
  BY <1>1 DEF Calm
<1>3. Named(s) \in excused /\ ~Proven(Named(s))
  BY <1>1, <1>2 DEF CliInv, LateIsExcused
<1>4. Named(s)' = Named(s) /\ (lock # NoSetup => Named(lock)' = Named(lock))
  BY <1>1 DEF Named, SameNames, CliInv, CliTypeOK, Locked, Critical
<1> QED
  BY <1>3, <1>4 DEF Proven, Busy

\* A caller is left alone: its key, its configuration and who is busy with it.
LEMMA KeepsKept ==
    ASSUME CliInv, Calm, NEW c \in Caller, Keeps(c),
           secret'[c] = secret[c], config'[c] = config[c],
           Busy(c)' <=> Busy(c),
           Busy(c) => /\ lock' = lock /\ command'[lock] = command[lock]
                      /\ old'[lock] = old[lock]
                      /\ answer'[lock] = "activated" <=> answer[lock] = "activated"
    PROVE  Keeps(c)'
<1> SUFFICES ASSUME NEW k \in ActiveKeys(c)'
             PROVE  IF Busy(c)' /\ ~Proven(c)'
                    THEN command'[lock'].op # "connect" /\ old'[lock'] = k
                    ELSE secret'[c] = k /\ config'[c]
  BY DEF Keeps
<1>1. k \in ActiveKeys(c)
  BY DEF ActiveKeys, Calm
<1>2. IF Busy(c) /\ ~Proven(c)
      THEN command[lock].op # "connect" /\ old[lock] = k
      ELSE secret[c] = k /\ config[c]
  BY <1>1 DEF Keeps
<1>3. Proven(c)' <=> Proven(c)
  BY DEF Proven
<1> QED
  BY <1>2, <1>3

---------------------------------------------------------------------------
(* Waiting for approval                                                    *)

\* Where a command goes before it has stored a key.
Early(s) ==
    \/ pc'[s] = pc[s]
    \/ pc[s] \in {"waiting", "code"} /\ pc'[s] \in {"code", "failed", "done"}
    \/ pc[s] = "pending" /\ pc'[s] = "aborting"

LEMMA EarlyKeeps ==
    ASSUME CliInv, KeyInv', Calm, Steady, UNCHANGED <<Protocol, Local>>,
           pc' \in [Setup -> Place], \A s \in Setup : Early(s)
    PROVE  CliInv'
<1> USE DEF Protocol, Local
<1>1. CliTypeOK'
  BY DEF CliInv, CliTypeOK
<1>2. Requested'
  BY RequestedKept DEF CliInv, Early
<1>3. Locked'
  BY DEF CliInv, Locked, Early, Critical
<1>4. OwnKeys'
  BY OwnKeysKept, NamesAreSame DEF CliInv, Early, Keeping, Critical
<1>5. Stored'
  BY DEF CliInv, Stored, Early, Critical, Named
<1>6. LateIsExcused'
  BY LateKept, NamesAreSame
<1>7. Kept'
  <2> SUFFICES ASSUME NEW c \in Caller, c \notin excused' \/ Proven(c)'
               PROVE  Keeps(c)'
    BY DEF Kept
  <2>1. (Busy(c)' <=> Busy(c)) /\ (Proven(c)' <=> Proven(c))
    BY DEF Busy, Proven, Named
  <2>2. Keeps(c)
    BY <2>1 DEF CliInv, Kept
  <2> QED
    BY <2>1, <2>2, KeepsKept
<1> QED
  BY <1>1, <1>2, <1>3, <1>4, <1>5, <1>6, <1>7 DEF CliInv
LEMMA BeginKeeps ==
    ASSUME CliInv, KeyInv', NEW s \in Setup, NEW op \in Operation, NEW flow \in Flow,
           NEW c \in Caller, Begin(s, op, flow, c)
    PROVE  CliInv'
<1> USE DEF Local
<1>1. /\ pc[s] = "idle" /\ "waiting" \in Place
      /\ StartSetup(s, op, flow, c) /\ Goto(s, "waiting")
      /\ command' = [command EXCEPT ![s] = [op |-> op, flow |-> flow, name |-> c]]
      /\ UNCHANGED <<held, old, activating, answer, Local>>
  BY DEF Begin, At, Place
<1>2. /\ pc' \in [Setup -> Place] /\ pc'[s] = "waiting"
      /\ \A t \in Setup : t # s => pc'[t] = pc[t]
  BY <1>1, Goes DEF CliInv
<1>3. /\ command' \in [Setup -> Command] /\ command'[s].name = c
      /\ \A t \in Setup : t # s => command'[t] = command[t]
  <2>1. [op |-> op, flow |-> flow, name |-> c] \in Command
    BY DEF Command
  <2> QED
    BY <1>1, <2>1 DEF CliInv, CliTypeOK
<1>4. Calm
  BY <1>1 DEF StartSetup, Calm
<1>5. SameNames
  BY <1>1, <1>3 DEF SameNames
<1>6. CliTypeOK'
  BY <1>1, <1>2, <1>3 DEF CliInv, CliTypeOK
<1>7. Requested'
  <2>1. setup \in [Setup -> SetupRow]
    BY DEF CliInv, KeyInv, CredentialsTypeOK
  <2>2. /\ setup'[s].status = "pending" /\ setup'[s].name = c
        /\ \A t \in Setup : t # s => setup'[t] = setup[t]
    BY <1>1, <2>1 DEF StartSetup
  <2> QED
    BY <1>2, <1>3, <2>2 DEF CliInv, Requested, Named
<1>8. Locked'
  BY <1>1, <1>2 DEF CliInv, Locked, Critical
<1>9. OwnKeys'
  BY <1>1, <1>2, <1>4, <1>5, OwnKeysKept DEF CliInv, Keeping, Critical
<1>10. Stored'
  BY <1>1, <1>2, <1>3 DEF CliInv, Stored, Critical, Named
<1>11. LateIsExcused'
  BY <1>1, <1>4, <1>5, LateKept
<1>12. Kept'
  <2> SUFFICES ASSUME NEW d \in Caller, d \notin excused' \/ Proven(d)'
               PROVE  Keeps(d)'
    BY DEF Kept
  <2>1. lock # s
    BY <1>1 DEF CliInv, Locked, Critical
  <2>2. lock # NoSetup => command'[lock] = command[lock]
    BY <1>3, <2>1 DEF CliInv, CliTypeOK
  <2>3. (Busy(d)' <=> Busy(d)) /\ (Proven(d)' <=> Proven(d))
    BY <1>1, <2>2 DEF Busy, Proven, Named
  <2>4. Keeps(d)
    BY <1>1, <2>3 DEF CliInv, Kept
  <2> QED
    BY <1>1, <1>4, <2>2, <2>3, <2>4, KeepsKept DEF Busy
<1> QED
  BY <1>6, <1>7, <1>8, <1>9, <1>10, <1>11, <1>12 DEF CliInv

\* What an exchange does to keys and requests.
LEMMA Minted ==
    ASSUME KeyInv, NEW s \in Setup, NEW k \in Key, ExchangeConnect(s, k) \/ ExchangeRotate(s, k)
    PROVE  /\ setup[s].status = "approved" /\ cred[k].status = "none"
           /\ cred'[k].status = "pending" /\ cred'[k].caller = setup[s].caller
           /\ mintedBy' \in [Key -> Setup \cup {NoSetup}] /\ mintedBy'[k] = s
           /\ Steady
           /\ \A j \in Key : j # k =>
               /\ mintedBy'[j] = mintedBy[j]
               /\ cred'[j].status \in {"pending", "active"} =>
                     cred'[j].status = cred[j].status /\ cred'[j].caller = cred[j].caller
               /\ cred[j].status # "none" => cred'[j].status # "none"
<1> DEFINE c == setup[s].caller
           lapsed == {p \in PendingOf(c) : KeyLapsed(p) /\ cred[p].replaces # NoKey}
<1>1. PICK former, expired : /\ Mint(s, k, former, expired)
                             /\ \A p \in expired : p \in Key /\ cred[p].status = "pending"
  <2>1. \A p \in lapsed : p \in Key /\ cred[p].status = "pending"
    BY DEF PendingOf
  <2>2. (\E o : Mint(s, k, o, lapsed)) \/ Mint(s, k, NoKey, {})
    BY DEF ExchangeConnect, ExchangeRotate
  <2> HIDE DEF lapsed
  <2> QED
    BY <2>1, <2>2
<1>2. setup[s].status = "approved"
  BY DEF ExchangeConnect, ExchangeRotate, Exchangeable
<1>3. /\ k \notin expired
      /\ cred' = [Ended(expired, "expired") EXCEPT ![k] =
                    [status |-> "pending", caller |-> c, replaces |-> former, setup |-> s]]
      /\ mintedBy' = [mintedBy EXCEPT ![k] = s] /\ cred[k].status = "none"
      /\ setup' = [setup EXCEPT ![s].status = "exchanged"]
  BY <1>1 DEF Mint, UseUp, SetStatus
<1>4. k \in DOMAIN Ended(expired, "expired")
  BY DEF Ended
<1>5. cred'[k].status = "pending" /\ cred'[k].caller = c
  BY <1>3, <1>4
<1>6. ASSUME NEW j \in Key, j # k
      PROVE  /\ cred'[j].status \in {"pending", "active"} =>
                   cred'[j].status = cred[j].status /\ cred'[j].caller = cred[j].caller
             /\ cred[j].status # "none" => cred'[j].status # "none"
  <2>1. cred'[j] = Ended(expired, "expired")[j]
    BY <1>3, <1>6
  <2>2. /\ Ended(expired, "expired")[j].caller = cred[j].caller
        /\ j \in expired => Ended(expired, "expired")[j].status = "expired"
        /\ j \notin expired => Ended(expired, "expired")[j] = cred[j]
    BY <1>1, EndedShrinks DEF KeyInv
  <2> QED
    BY <2>1, <2>2
<1>7. Steady
  <2>1. setup[s] # BlankSetup("none")
    BY <1>2 DEF BlankSetup
  <2>2. setup'[s].status = "exchanged" /\ \A t \in Setup : t # s => setup'[t] = setup[t]
    BY <1>3 DEF KeyInv, CredentialsTypeOK, SetupRow
  <2> QED
    BY <2>1, <2>2 DEF Steady
<1>8. mintedBy \in [Key -> Setup \cup {NoSetup}]
  BY DEF KeyInv, CredentialsTypeOK
<1> QED
  BY <1>2, <1>3, <1>5, <1>6, <1>7, <1>8

LEMMA ExchangeKeeps ==
    ASSUME CliInv, KeyInv', NEW s \in Setup, NEW k \in Key, Exchange(s, k)
    PROVE  CliInv'
<1> USE DEF Local
<1>1. /\ pc[s] \in {"waiting", "code"} /\ "pending" \in Place /\ "failed" \in Place
      /\ \/ Goto(s, "pending") /\ held' = [held EXCEPT ![s] = k]
         \/ Goto(s, "failed") /\ held' = held
      /\ UNCHANGED <<command, old, activating, answer, Local>>
  BY DEF Exchange, HasCode, At, Place
<1>2. /\ setup[s].status = "approved" /\ cred[k].status = "none"
      /\ cred'[k].status = "pending" /\ cred'[k].caller = setup[s].caller
      /\ mintedBy'[k] = s
      /\ Steady
      /\ \A j \in Key : j # k =>
          /\ mintedBy'[j] = mintedBy[j]
          /\ cred'[j].status \in {"pending", "active"} =>
                cred'[j].status = cred[j].status /\ cred'[j].caller = cred[j].caller
          /\ cred[j].status # "none" => cred'[j].status # "none"
  BY Minted DEF Exchange, CliInv
<1>3. /\ pc' \in [Setup -> Place]
      /\ \A t \in Setup : t # s => pc'[t] = pc[t] /\ held'[t] = held[t]
      /\ \/ pc'[s] = "pending" /\ held'[s] = k
         \/ pc'[s] = "failed" /\ held'[s] = held[s]
      /\ held' \in [Setup -> Key \cup {NoKey}]
  <2>1. held \in [Setup -> Key \cup {NoKey}]
    BY DEF CliInv, CliTypeOK
  <2>2. \A t \in Setup : t # s => held'[t] = held[t]
    BY <1>1, <2>1
  <2>3. CASE Goto(s, "pending") /\ held' = [held EXCEPT ![s] = k]
    BY <1>1, <2>1, <2>2, <2>3, Goes DEF CliInv
  <2>4. CASE Goto(s, "failed") /\ held' = held
    BY <1>1, <2>1, <2>4, Goes DEF CliInv
  <2> QED
    BY <1>1, <2>3, <2>4
<1>4. \A t \in Setup : held[t] # NoKey => held[t] \in Key /\ held[t] # k
  BY <1>2 DEF CliInv, CliTypeOK, OwnKeys
<1>5. s \notin activating /\ lock # s
  BY <1>1 DEF CliInv, Locked, Critical
<1>6. CliTypeOK'
  BY <1>1, <1>3 DEF CliInv, CliTypeOK
<1>7. Requested'
  BY <1>1, <1>2, <1>3, RequestedKept DEF CliInv
<1>8. Locked'
  BY <1>1, <1>3, <1>5 DEF CliInv, Locked, Critical
<1>9. OwnKeys'
  <2>1. \A t \in Setup : Named(t)' = Named(t)
    BY <1>1 DEF Named
  <2>2. ASSUME NEW t \in Setup, held'[t] = held[t], t # s \/ pc'[t] = "failed"
        PROVE  /\ pc'[t] \in Keeping \/ t \in activating' => held'[t] # NoKey
               /\ held'[t] # NoKey =>
                   /\ pc'[t] # "idle"
                   /\ mintedBy'[held'[t]] = t /\ cred'[held'[t]].status # "none"
                   /\ cred'[held'[t]].status \in {"pending", "active"} =>
                         cred'[held'[t]].caller = Named(t)'
                   /\ cred'[held'[t]].status = "active" =>
                       /\ t \notin activating'
                       /\ pc'[t] \in {"activating", "done", "kept", "crashed"}
                       /\ pc'[t] = "activating" => answer'[t] = "activated"
    <3>1. pc'[t] = pc[t] \/ (t = s /\ pc'[t] = "failed" /\ pc[t] \in {"waiting", "code"})
      BY <1>1, <1>3, <2>2
    <3>2. held[t] # NoKey => held[t] \in Key /\ held[t] # k
      BY <1>4
    <3> QED
      BY <1>1, <1>2, <1>5, <2>1, <2>2, <3>1, <3>2 DEF CliInv, OwnKeys, Keeping, Critical
  <2>3. k # NoKey /\ setup[s].caller = Named(s)
    BY <1>2, CredentialsAssumption DEF CliInv, Requested
  <2>4. CASE pc'[s] = "pending" /\ held'[s] = k
    BY <1>1, <1>2, <1>3, <1>5, <2>1, <2>2, <2>3, <2>4 DEF OwnKeys
  <2>5. CASE pc'[s] = "failed" /\ held'[s] = held[s]
    BY <1>3, <2>2, <2>5 DEF OwnKeys
  <2> QED
    BY <1>3, <2>4, <2>5
<1>10. Stored'
  BY <1>1, <1>3 DEF CliInv, Stored, Critical, Named
<1>11. LateIsExcused'
  <2> SUFFICES ASSUME NEW t \in activating', cred'[held'[t]].status = "pending", lock' # t
               PROVE  Named(t)' \in excused' /\ ~Proven(Named(t))'
    BY DEF LateIsExcused
  <2>1. t \in activating /\ t \in Setup /\ t # s /\ lock # t /\ held'[t] = held[t]
    BY <1>1, <1>3, <1>5 DEF CliInv, CliTypeOK
  <2>2. held[t] \in Key /\ held[t] # k
    BY <1>4, <2>1, HoldsKey, CredentialsAssumption
  <2>3. cred[held[t]].status = "pending"
    BY <1>2, <2>1, <2>2
  <2>4. Named(t) \in excused /\ ~Proven(Named(t))
    BY <2>1, <2>3 DEF CliInv, LateIsExcused
  <2> QED
    BY <1>1, <2>4 DEF Proven, Busy, Named
<1>12. Kept'
  <2> SUFFICES ASSUME NEW d \in Caller, d \notin excused' \/ Proven(d)',
                      NEW j \in ActiveKeys(d)'
               PROVE  IF Busy(d)' /\ ~Proven(d)'
                      THEN command'[lock'].op # "connect" /\ old'[lock'] = j
                      ELSE secret'[d] = j /\ config'[d]
    BY DEF Kept, Keeps
  <2>1. j \in ActiveKeys(d)
    BY <1>2 DEF ActiveKeys
  <2>2. (Busy(d)' <=> Busy(d)) /\ (Proven(d)' <=> Proven(d))
    BY <1>1 DEF Busy, Proven, Named
  <2> QED
    BY <1>1, <2>1, <2>2 DEF CliInv, Kept, Keeps
<1> QED
  BY <1>6, <1>7, <1>8, <1>9, <1>10, <1>11, <1>12 DEF CliInv

---------------------------------------------------------------------------
(* Inside the critical section                                             *)

\* A command takes the lock or keeps it: the other callers are left alone.
LEMMA OthersKept ==
    ASSUME CliInv, Calm, NEW s \in Setup, lock \in {NoSetup, s}, lock' \in {NoSetup, s},
           command' = command,
           \A c \in Caller : c # Named(s) =>
               /\ secret'[c] = secret[c] /\ config'[c] = config[c]
               /\ c \in excused => c \in excused',
           Named(s) \notin excused' \/ Proven(Named(s))' => Keeps(Named(s))'
    PROVE  Kept'
<1>1. Named(s)' = Named(s)
  BY DEF Named
<1> SUFFICES ASSUME NEW c \in Caller, c \notin excused' \/ Proven(c)', c # Named(s)
             PROVE  Keeps(c)'
  <2>1. ASSUME NEW c \in Caller, c = Named(s), c \notin excused' \/ Proven(c)'
        PROVE  Keeps(c)'
    <3>1. c = Named(s)'
      BY <1>1, <2>1
    <3> QED
      BY <2>1, <3>1
  <2> QED
    BY <2>1 DEF Kept
<1>2. ~Busy(c) /\ ~Busy(c)'
  BY <1>1, CredentialsAssumption DEF Busy
<1>3. Keeps(c)
  BY <1>2 DEF Proven, CliInv, Kept
<1> QED
  BY <1>2, <1>3, KeepsKept

\* A command lets go of the lock.
LEMMA Leaves ==
    ASSUME CliInv, KeyInv', UNCHANGED credentialVars,
           NEW s \in Setup, NEW p \in {"aborting", "done", "rolledback", "inconsistent",
                                       "kept", "crashed"},
           lock = s, lock' = NoSetup, Goto(s, p), UNCHANGED <<command, held, activating>>,
           old' \in [Setup -> Key \cup {NoKey}],
           answer' \in [Setup -> {"none", "activated", "refused"}],
           answer'[s] = "none", \A t \in Setup : t # s => answer'[t] = answer[t],
           secret' \in [Caller -> Key \cup {NoKey}], config' \in [Caller -> BOOLEAN],
           \A c \in Caller : c # Named(s) => secret'[c] = secret[c] /\ config'[c] = config[c],
           excused' \subseteq Caller,
           \A c \in excused : c \in excused' \/ Proven(c),
           s \in activating => p \in {"kept", "crashed"} /\ Named(s) \in excused',
           cred[held[s]].status = "active" => p \in {"done", "kept", "crashed"},
           Named(s) \notin excused' => Keeps(Named(s))'
    PROVE  CliInv'
<1>1. /\ pc' \in [Setup -> Place] /\ pc'[s] = p
      /\ \A t \in Setup : t # s => pc'[t] = pc[t]
      /\ pc[s] \in Critical /\ NoSetup # s
  <2>1. p \in Place
    BY DEF Place
  <2> QED
    BY <2>1, Goes, CredentialsAssumption DEF CliInv, Locked
<1>2. Calm /\ Steady
  BY SameIsCalm
<1>3. CliTypeOK'
  BY <1>1 DEF CliInv, CliTypeOK
<1>4. Requested'
  BY <1>1, <1>2, RequestedKept DEF CliInv, Critical
<1>5. Locked'
  BY <1>1, CredentialsAssumption DEF CliInv, Locked, Critical
<1>6. OwnKeys'
  <2>1. cred' = cred /\ mintedBy' = mintedBy
    BY DEF credentialVars
  <2>2. \A t \in Setup : Named(t)' = Named(t)
    BY DEF Named
  <2>3. ASSUME NEW t \in Setup, t # s
        PROVE  pc'[t] = pc[t] /\ answer'[t] = answer[t]
    BY <1>1, <2>3
  <2>4. /\ held[s] # NoKey /\ pc'[s] # "idle"
        /\ pc'[s] \in {"done", "kept", "crashed"} \/ cred[held[s]].status # "active"
        /\ pc'[s] # "activating"
    BY <1>1 DEF CliInv, OwnKeys, Keeping
  <2> QED
    BY <2>1, <2>2, <2>3, <2>4 DEF CliInv, OwnKeys
<1>7. Stored'
  BY <1>1 DEF CliInv, Stored, Locked, Critical
<1>8. LateIsExcused'
  <2> SUFFICES ASSUME NEW t \in activating', cred'[held'[t]].status = "pending"
               PROVE  Named(t)' \in excused' /\ ~Proven(Named(t))'
    BY DEF LateIsExcused
  <2>1. t \in activating /\ cred[held[t]].status = "pending" /\ Named(t)' = Named(t)
    BY DEF credentialVars, Named
  <2>2. Named(t) \in excused'
    <3>1. CASE t = s
      BY <2>1, <3>1
    <3>2. CASE t # s
      BY <2>1, <3>2 DEF CliInv, LateIsExcused
    <3> QED
      BY <3>1, <3>2
  <2> QED
    BY <2>1, <2>2 DEF Proven, Busy
<1>9. Kept'
  <2>1. \A c \in Caller : Proven(c) => c = Named(s)
    BY DEF Proven, Busy
  <2>2. ~Proven(Named(s))'
    BY DEF Proven, Busy
  <2>3. Named(s)' = Named(s)
    BY DEF Named
  <2>4. Named(s) \notin excused' \/ Proven(Named(s))' => Keeps(Named(s))'
    BY <2>2
  <2> QED
    BY <1>2, <2>1, <2>4, OthersKept
<1> QED
  BY <1>3, <1>4, <1>5, <1>6, <1>7, <1>8, <1>9 DEF CliInv

LEMMA StoreSecretKeeps ==
    ASSUME CliInv, KeyInv', NEW s \in Setup, StoreSecret(s)
    PROVE  CliInv'
<1>1. /\ pc[s] = "pending" /\ lock = NoSetup /\ StillMine(s) /\ lock' = s
      /\ old' = [old EXCEPT ![s] = secret[Named(s)]]
      /\ secret' = [secret EXCEPT ![Named(s)] = held[s]]
      /\ Goto(s, "stored") /\ "stored" \in Place
      /\ UNCHANGED <<credentialVars, command, held, activating, answer, config, excused>>
  BY DEF StoreSecret, At, LockFree, Place
<1>2. /\ pc' \in [Setup -> Place] /\ pc'[s] = "stored"
      /\ \A t \in Setup : t # s => pc'[t] = pc[t]
  BY <1>1, Goes DEF CliInv
<1>3. /\ Named(s) \in Caller /\ held[s] \in Key /\ answer[s] = "none" /\ s \notin activating
      /\ \A t \in Setup : Named(t)' = Named(t)
      /\ config[Named(s)] <=> command[s].op # "connect"
  BY <1>1, HoldsKey DEF CliInv, Requested, Locked, Keeping, StillMine, Named
<1>4. Calm /\ Steady
  BY <1>1, SameIsCalm
<1>5. /\ secret'[Named(s)] = held[s] /\ old'[s] = secret[Named(s)]
      /\ \A c \in Caller : c # Named(s) => secret'[c] = secret[c]
      /\ secret' \in [Caller -> Key \cup {NoKey}] /\ old' \in [Setup -> Key \cup {NoKey}]
  BY <1>1, <1>3 DEF CliInv, CliTypeOK
<1>6. CliTypeOK'
  BY <1>1, <1>2, <1>5 DEF CliInv, CliTypeOK
<1>7. Requested'
  BY <1>1, <1>2, <1>4, RequestedKept DEF CliInv
<1>8. Locked'
  BY <1>1, <1>2, <1>3, CredentialsAssumption DEF CliInv, Locked, Critical
<1>9. OwnKeys'
  <2>1. SameNames
    BY <1>1, NamesAreSame
  <2> QED
    BY <1>1, <1>2, <1>4, <2>1, OwnKeysKept DEF Keeping, Critical
<1>10. Stored'
  <2>1. \A t \in Setup : t # s => pc'[t] \notin Critical
    BY <1>1, <1>2, CredentialsAssumption DEF CliInv, Locked
  <2> QED
    BY <1>1, <1>2, <1>3, <1>5, <2>1 DEF Stored
<1>11. LateIsExcused'
  <2> SUFFICES ASSUME NEW t \in activating', cred'[held'[t]].status = "pending"
               PROVE  Named(t)' \in excused' /\ ~Proven(Named(t))'
    BY DEF LateIsExcused
  <2>1. t \in Setup /\ t \in activating /\ cred[held[t]].status = "pending" /\ lock # t
    BY <1>1, CredentialsAssumption DEF credentialVars, CliInv, CliTypeOK
  <2> QED
    BY <1>1, <1>3, <2>1 DEF CliInv, LateIsExcused, Proven
<1>12. Kept'
  <2>1. ASSUME Named(s) \notin excused' \/ Proven(Named(s))'
        PROVE  Keeps(Named(s))'
    <3>1. ~Proven(Named(s))' /\ ~Busy(Named(s)) /\ Busy(Named(s))'
      BY <1>1, <1>3, CredentialsAssumption DEF Proven, Busy
    <3>2. Keeps(Named(s))
      BY <1>1, <1>3, <2>1, <3>1 DEF CliInv, Kept
    <3>3. ASSUME NEW k \in Key, cred[k].status = "active", cred[k].caller = Named(s)
          PROVE  command[s].op # "connect" /\ old'[s] = k
      BY <1>3, <1>5, <3>1, <3>2, <3>3 DEF Keeps, ActiveKeys
    <3> QED
      BY <1>1, <1>3, <3>1, <3>3 DEF Keeps, ActiveKeys, credentialVars
  <2> QED
    BY <1>1, <1>3, <1>4, <1>5, <2>1, OthersKept
<1> QED
  BY <1>6, <1>7, <1>8, <1>9, <1>10, <1>11, <1>12 DEF CliInv

\* A store that took effect and failed loses the old key of a rotation, which is
\* excused; a connect has none, since its caller is not configured.
LEMMA StoreFailsLateKeeps ==
    ASSUME CliInv, KeyInv', NEW s \in Setup, StoreFailsLate(s)
    PROVE  CliInv'
<1> USE DEF Protocol
<1>1. /\ pc[s] = "pending" /\ lock = NoSetup /\ lock' = NoSetup /\ StillMine(s)
      /\ secret' = [secret EXCEPT ![Named(s)] = held[s]]
      /\ \/ command[s].op = "connect" /\ excused' = excused
         \/ excused' = excused \cup {Named(s)}
      /\ Goto(s, "aborting") /\ "aborting" \in Place
      /\ UNCHANGED <<credentialVars, Protocol, config>>
  BY DEF StoreFailsLate, At, LockFree, Excuse, Place
<1>2. /\ pc' \in [Setup -> Place] /\ pc'[s] = "aborting"
      /\ \A t \in Setup : t # s => pc'[t] = pc[t]
  BY <1>1, Goes DEF CliInv
<1>3. /\ Named(s) \in Caller /\ held[s] \in Key /\ answer[s] = "none" /\ s \notin activating
      /\ config[Named(s)] <=> command[s].op # "connect"
  BY <1>1, HoldsKey DEF CliInv, Requested, Locked, Keeping, StillMine, Named
<1>4. Calm /\ Steady /\ SameNames
  BY <1>1, SameIsCalm, NamesAreSame
<1>5. /\ excused \subseteq excused' /\ excused' \subseteq Caller
      /\ \A c \in Caller : c # Named(s) => secret'[c] = secret[c]
      /\ secret' \in [Caller -> Key \cup {NoKey}]
  BY <1>1, <1>3 DEF CliInv, CliTypeOK
<1>6. CliTypeOK'
  BY <1>1, <1>2, <1>5 DEF CliInv, CliTypeOK
<1>7. Requested'
  BY <1>1, <1>2, <1>4, RequestedKept DEF CliInv
<1>8. Locked'
  BY <1>1, <1>2, <1>3, CredentialsAssumption DEF CliInv, Locked, Critical
<1>9. OwnKeys'
  BY <1>1, <1>2, <1>4, OwnKeysKept DEF Keeping, Critical
<1>10. Stored'
  BY <1>1, <1>8, CredentialsAssumption DEF Locked, Stored
<1>11. LateIsExcused'
  BY <1>1, <1>4, <1>5, LateKept
<1>12. Kept'
  <2>1. ASSUME Named(s) \notin excused' \/ Proven(Named(s))'
        PROVE  Keeps(Named(s))'
    <3>1. ~Proven(Named(s))' /\ ~Busy(Named(s)) /\ Named(s)' = Named(s)
      BY <1>1 DEF Proven, Busy, Named
    <3>2. Keeps(Named(s)) /\ ~config[Named(s)]
      BY <1>1, <1>3, <2>1, <3>1 DEF CliInv, Kept
    <3>3. ActiveKeys(Named(s)) = {}
      BY <3>1, <3>2 DEF Keeps
    <3> QED
      BY <1>1, <3>1, <3>3 DEF Keeps, ActiveKeys, credentialVars
  <2> QED
    BY <1>1, <1>3, <1>4, <1>5, <2>1, OthersKept
<1> QED
  BY <1>6, <1>7, <1>8, <1>9, <1>10, <1>11, <1>12 DEF CliInv

LEMMA SaveConfigKeeps ==
    ASSUME CliInv, KeyInv', NEW s \in Setup, SaveConfig(s)
    PROVE  CliInv'
<1> USE DEF Protocol
<1>1. /\ pc[s] = "stored" /\ config' = [config EXCEPT ![Named(s)] = TRUE]
      /\ Goto(s, "saved") /\ "saved" \in Place
      /\ UNCHANGED <<credentialVars, Protocol, secret, lock, excused>>
  BY DEF SaveConfig, At, Place
<1>2. /\ pc' \in [Setup -> Place] /\ pc'[s] = "saved"
      /\ \A t \in Setup : t # s => pc'[t] = pc[t]
  BY <1>1, Goes DEF CliInv
<1>3. /\ Named(s) \in Caller /\ answer[s] = "none" /\ s \notin activating /\ lock = s
      /\ \A t \in Setup : Named(t)' = Named(t)
  BY <1>1 DEF CliInv, Requested, Locked, Critical, Named
<1>4. Calm /\ Steady /\ SameNames
  BY <1>1, SameIsCalm, NamesAreSame
<1>5. /\ config'[Named(s)]
      /\ \A c \in Caller : config'[c] \/ (c # Named(s) /\ config'[c] = config[c])
      /\ config' \in [Caller -> BOOLEAN]
  BY <1>1, <1>3 DEF CliInv, CliTypeOK
<1>6. CliTypeOK'
  BY <1>1, <1>2, <1>5 DEF CliInv, CliTypeOK
<1>7. Requested'
  BY <1>1, <1>2, <1>4, RequestedKept DEF CliInv
<1>8. Locked'
  BY <1>1, <1>2, <1>3 DEF CliInv, Locked, Critical
<1>9. OwnKeys'
  BY <1>1, <1>2, <1>4, OwnKeysKept DEF Keeping, Critical
<1>10. Stored'
  BY <1>1, <1>2, <1>3, <1>5 DEF CliInv, Stored, Locked, Critical
<1>11. LateIsExcused'
  BY <1>1, <1>4, LateKept
<1>12. Kept'
  <2>1. ~Proven(Named(s))' /\ Busy(Named(s))' /\ Busy(Named(s)) /\ ~Proven(Named(s))
    BY <1>1, <1>3, CredentialsAssumption DEF Proven, Busy
  <2>2. ASSUME Named(s) \notin excused' \/ Proven(Named(s))'
        PROVE  Keeps(Named(s))'
    <3>1. Keeps(Named(s))
      BY <1>1, <1>3, <2>1, <2>2 DEF CliInv, Kept
    <3> QED
      BY <1>1, <1>3, <2>1, <3>1 DEF Keeps, ActiveKeys, credentialVars
  <2>3. \A c \in Caller : c # Named(s) => config'[c] = config[c]
    BY <1>1, <1>3 DEF CliInv, CliTypeOK
  <2> QED
    BY <1>1, <1>3, <1>4, <2>2, <2>3, OthersKept
<1> QED
  BY <1>6, <1>7, <1>8, <1>9, <1>10, <1>11, <1>12 DEF CliInv

\* What the holder of the lock knows.
LEMMA Holder ==
    ASSUME CliInv, NEW s \in Setup, pc[s] \in Critical
    PROVE  /\ lock = s /\ s # NoSetup /\ Named(s) \in Caller /\ Busy(Named(s))
           /\ held[s] \in Key /\ held[s] # NoKey /\ secret[Named(s)] = held[s]
           /\ command[s].op # "connect" \/ pc[s] # "stored" => config[Named(s)]
           /\ Proven(Named(s)) <=> answer[s] = "activated"
           /\ \A k \in ActiveKeys(Named(s)) :
                 answer[s] # "activated" /\ Named(s) \notin excused =>
                     command[s].op # "connect" /\ old[s] = k
<1>1. lock = s /\ s # NoSetup /\ Named(s) \in Caller
  BY CredentialsAssumption DEF CliInv, Locked, Requested, Critical
<1>2. Busy(Named(s)) /\ (Proven(Named(s)) <=> answer[s] = "activated")
  BY <1>1 DEF Busy, Proven
<1>3. held[s] \in Key /\ held[s] # NoKey
  BY HoldsKey, CredentialsAssumption DEF Keeping
<1>4. /\ secret[Named(s)] = held[s]
      /\ command[s].op # "connect" \/ pc[s] # "stored" => config[Named(s)]
  BY DEF CliInv, Stored
<1>5. ASSUME answer[s] # "activated", Named(s) \notin excused
      PROVE  \A k \in ActiveKeys(Named(s)) : command[s].op # "connect" /\ old[s] = k
  BY <1>1, <1>2, <1>5 DEF CliInv, Kept, Keeps
<1> QED
  BY <1>1, <1>2, <1>3, <1>4, <1>5

\* A rollback leaves the key that works, unless the caller is excused.
LEMMA RestoredKeeps ==
    ASSUME CliInv, UNCHANGED credentialVars, NEW s \in Setup, pc[s] \in Critical,
           answer[s] # "activated", Named(s) \notin excused, lock' = NoSetup,
           command' = command, secret'[Named(s)] = RolledBack(s),
           command[s].op # "connect" => config'[Named(s)]
    PROVE  Keeps(Named(s))'
<1>1. Named(s)' = Named(s) /\ ~Busy(Named(s))'
  BY DEF Named, Busy
<1>2. ASSUME NEW k \in ActiveKeys(Named(s))
      PROVE  secret'[Named(s)] = k /\ config'[Named(s)]
  BY <1>2, Holder DEF RolledBack
<1> QED
  BY <1>1, <1>2 DEF Keeps, ActiveKeys, credentialVars

LEMMA SaveFailsKeeps ==
    ASSUME CliInv, KeyInv', NEW s \in Setup, SaveFails(s)
    PROVE  CliInv'
<1>1. /\ pc[s] = "stored" /\ lock' = NoSetup /\ Goto(s, "aborting")
      /\ config' \in {config, [config EXCEPT ![Named(s)] = TRUE]}
      /\ \/ /\ secret' = [secret EXCEPT ![Named(s)] = RolledBack(s)]
            /\ excused' = excused
         \/ /\ secret' \in {secret, [secret EXCEPT ![Named(s)] = RolledBack(s)]}
            /\ excused' = excused \cup {Named(s)}
      /\ UNCHANGED <<credentialVars, Protocol>>
  BY DEF SaveFails, At, Excuse
<1>2. /\ lock = s /\ Named(s) \in Caller /\ answer[s] = "none" /\ s \notin activating
      /\ cred[held[s]].status # "active"
      /\ command[s].op # "connect" => config[Named(s)]
  BY <1>1, Holder DEF Critical, CliInv, Locked, OwnKeys
<1>3. /\ secret' \in [Caller -> Key \cup {NoKey}] /\ excused' \subseteq Caller
      /\ config' \in [Caller -> BOOLEAN]
  BY <1>1, <1>2 DEF CliInv, CliTypeOK, RolledBack
<1>4. /\ \A c \in Caller : c # Named(s) => secret'[c] = secret[c] /\ config'[c] = config[c]
      /\ config[Named(s)] => config'[Named(s)]
  BY <1>1, <1>2 DEF CliInv, CliTypeOK
<1>5. ASSUME Named(s) \notin excused'
      PROVE  Keeps(Named(s))'
  <2>1. Named(s) \notin excused /\ secret'[Named(s)] = RolledBack(s)
    BY <1>1, <1>2, <1>5 DEF CliInv, CliTypeOK
  <2> QED
    BY <1>1, <1>2, <1>4, <2>1, RestoredKeeps DEF Critical, Protocol
<1>6. excused \subseteq excused'
  BY <1>1
<1> QED
  BY <1>1, <1>2, <1>3, <1>4, <1>5, <1>6, Leaves DEF Protocol, CliInv, CliTypeOK

LEMMA ActivateDoneKeeps ==
    ASSUME CliInv, KeyInv', NEW s \in Setup, ActivateDone(s)
    PROVE  CliInv'
<1>1. /\ pc[s] = "activating" /\ answer[s] = "activated" /\ lock' = NoSetup
      /\ excused' = excused \ {Named(s)} /\ End(s, "done") /\ Goto(s, "done")
      /\ UNCHANGED <<credentialVars, activating, secret, config>>
  BY DEF ActivateDone, At, End
<1>2. /\ lock = s /\ Named(s) \in Caller /\ Proven(Named(s)) /\ s \notin activating
      /\ \A t \in Setup : Named(t)' = Named(t)
  BY <1>1, Holder DEF Critical, CliInv, Locked, End, Named
<1>3. /\ old' \in [Setup -> Key \cup {NoKey}] /\ answer'[s] = "none"
      /\ answer' \in [Setup -> {"none", "activated", "refused"}]
      /\ \A t \in Setup : t # s => answer'[t] = answer[t]
      /\ command' = command /\ held' = held
  BY <1>1, Ends DEF Place, CliInv
<1>4. Keeps(Named(s))'
  <2>1. Keeps(Named(s)) /\ ~Busy(Named(s))'
    BY <1>1, <1>2 DEF CliInv, Kept, Busy
  <2> QED
    BY <1>1, <1>2, <2>1 DEF Keeps, ActiveKeys, credentialVars
<1> QED
  BY <1>1, <1>2, <1>3, <1>4, Leaves DEF CliInv, CliTypeOK

LEMMA RollBackKeeps ==
    ASSUME CliInv, KeyInv', NEW s \in Setup, RollBack(s)
    PROVE  CliInv'
<1>1. /\ pc[s] = "activating" /\ answer[s] = "refused" /\ lock' = NoSetup
      /\ secret' = [secret EXCEPT ![Named(s)] = RolledBack(s)]
      /\ config' = [config EXCEPT ![Named(s)] = (command[s].op # "connect")]
      /\ End(s, "rolledback") /\ Goto(s, "rolledback")
      /\ UNCHANGED <<credentialVars, activating, excused>>
  BY DEF RollBack, At, Refused, End
<1>2. /\ lock = s /\ Named(s) \in Caller /\ s \notin activating
      /\ cred[held[s]].status # "active"
  BY <1>1, Holder DEF Critical, CliInv, Locked, OwnKeys
<1>3. /\ old' \in [Setup -> Key \cup {NoKey}] /\ answer'[s] = "none"
      /\ answer' \in [Setup -> {"none", "activated", "refused"}]
      /\ \A t \in Setup : t # s => answer'[t] = answer[t]
      /\ command' = command /\ held' = held
  BY <1>1, Ends DEF Place, CliInv
<1>4. /\ secret' \in [Caller -> Key \cup {NoKey}] /\ config' \in [Caller -> BOOLEAN]
      /\ secret'[Named(s)] = RolledBack(s) /\ config'[Named(s)] = (command[s].op # "connect")
      /\ \A c \in Caller : c # Named(s) => secret'[c] = secret[c] /\ config'[c] = config[c]
  <2>1. RolledBack(s) \in Key \cup {NoKey}
    BY DEF CliInv, CliTypeOK, RolledBack
  <2>2. (command[s].op # "connect") \in BOOLEAN
    OBVIOUS
  <2> QED
    BY <1>1, <1>2, <2>1, <2>2 DEF CliInv, CliTypeOK
<1>5. Named(s) \notin excused' => Keeps(Named(s))'
  BY <1>1, <1>3, <1>4, RestoredKeeps DEF Critical
<1> QED
  BY <1>1, <1>2, <1>3, <1>4, <1>5, Leaves DEF CliInv, CliTypeOK

LEMMA RollBackFailsKeeps ==
    ASSUME CliInv, KeyInv', NEW s \in Setup, RollBackFails(s)
    PROVE  CliInv'
<1>1. /\ pc[s] = "activating" /\ answer[s] = "refused" /\ lock' = NoSetup
      /\ \/ secret' = [secret EXCEPT ![Named(s)] = RolledBack(s)]
         \/ secret' = secret
      /\ \/ config' = [config EXCEPT ![Named(s)] = (command[s].op # "connect")]
         \/ config' = config
      /\ excused' = excused \cup {Named(s)}
      /\ End(s, "inconsistent") /\ Goto(s, "inconsistent")
      /\ UNCHANGED <<credentialVars, activating>>
  BY DEF RollBackFails, At, Refused, End, Excuse
<1>2. /\ lock = s /\ Named(s) \in Caller /\ s \notin activating
      /\ cred[held[s]].status # "active"
  BY <1>1, Holder DEF Critical, CliInv, Locked, OwnKeys
<1>3. /\ old' \in [Setup -> Key \cup {NoKey}] /\ answer'[s] = "none"
      /\ answer' \in [Setup -> {"none", "activated", "refused"}]
      /\ \A t \in Setup : t # s => answer'[t] = answer[t]
      /\ command' = command /\ held' = held
  BY <1>1, Ends DEF Place, CliInv
<1>4. /\ secret' \in [Caller -> Key \cup {NoKey}]
      /\ \A c \in Caller : c # Named(s) => secret'[c] = secret[c]
  BY <1>1, <1>2 DEF CliInv, CliTypeOK, RolledBack
<1>5. /\ config' \in [Caller -> BOOLEAN]
      /\ \A c \in Caller : c # Named(s) => config'[c] = config[c]
  BY <1>1, <1>2 DEF CliInv, CliTypeOK
<1> QED
  BY <1>1, <1>2, <1>3, <1>4, <1>5, Leaves DEF CliInv, CliTypeOK

LEMMA KeepKeyKeeps ==
    ASSUME CliInv, KeyInv', NEW s \in Setup, NEW p \in {"kept", "crashed"},
           pc[s] \in Critical, lock' = NoSetup, Excuse(Named(s)), End(s, p),
           UNCHANGED <<credentialVars, activating, secret, config>>
    PROVE  CliInv'
<1>1. /\ lock = s /\ Named(s) \in Caller /\ excused' = excused \cup {Named(s)}
      /\ Goto(s, p)
  BY Holder DEF Excuse, End
<1>2. /\ old' \in [Setup -> Key \cup {NoKey}] /\ answer'[s] = "none"
      /\ answer' \in [Setup -> {"none", "activated", "refused"}]
      /\ \A t \in Setup : t # s => answer'[t] = answer[t]
      /\ command' = command /\ held' = held
  BY Ends DEF Place, CliInv
<1> QED
  BY <1>1, <1>2, Leaves DEF CliInv, CliTypeOK

LEMMA CrashKeeps ==
    ASSUME CliInv, KeyInv', NEW s \in Setup, Crash(s)
    PROVE  CliInv'
<1>1. /\ pc[s] \in Running /\ End(s, "crashed") /\ Goto(s, "crashed")
      /\ UNCHANGED <<credentialVars, activating, secret, config>>
  BY DEF Crash, End
<1>2. CASE lock = s
  <2>1. pc[s] \in Critical /\ lock' = NoSetup /\ Excuse(Named(s))
    BY <1>2 DEF Crash, CliInv, Locked, Excuse
  <2> QED
    BY <1>1, <2>1, KeepKeyKeeps
<1>3. CASE lock # s
  <2>1. /\ lock' = lock /\ excused' = excused
        /\ pc[s] \in {"waiting", "code", "pending", "aborting"}
        /\ s \notin activating /\ answer[s] = "none"
    BY <1>1, <1>3 DEF Crash, CliInv, CliTypeOK, Locked, Critical, Running
  <2>2. /\ pc' \in [Setup -> Place] /\ old' \in [Setup -> Key \cup {NoKey}]
        /\ answer' \in [Setup -> {"none", "activated", "refused"}]
        /\ pc'[s] = "crashed" /\ answer'[s] = "none"
        /\ \A t \in Setup : t # s => /\ pc'[t] = pc[t] /\ old'[t] = old[t]
                                     /\ answer'[t] = answer[t]
        /\ command' = command /\ held' = held
    BY <1>1, Ends DEF Place, CliInv
  <2>3. Calm /\ Steady /\ SameNames
    BY <1>1, <2>2, SameIsCalm, NamesAreSame
  <2>4. CliTypeOK'
    BY <1>1, <2>1, <2>2 DEF CliInv, CliTypeOK
  <2>5. Requested'
    BY <2>1, <2>2, <2>3, RequestedKept DEF CliInv
  <2>6. Locked'
    BY <1>1, <2>1, <2>2 DEF CliInv, Locked, Critical
  <2>7. OwnKeys'
    BY <1>1, <2>1, <2>2, <2>3, OwnKeysKept DEF Keeping, Critical
  <2>8. Stored'
    BY <1>1, <2>1, <2>2 DEF CliInv, Stored, Critical, Named
  <2>9. LateIsExcused'
    BY <1>1, <1>3, <2>1, <2>2, <2>3, LateKept DEF CliInv, CliTypeOK
  <2>10. Kept'
    <3> SUFFICES ASSUME NEW c \in Caller, c \notin excused' \/ Proven(c)'
                 PROVE  Keeps(c)'
      BY DEF Kept
    <3>1. lock # NoSetup => old'[lock] = old[lock] /\ answer'[lock] = answer[lock]
      BY <1>3, <2>2 DEF CliInv, CliTypeOK
    <3>2. (Busy(c)' <=> Busy(c)) /\ (Proven(c)' <=> Proven(c))
      BY <2>1, <2>2, <3>1 DEF Busy, Proven, Named
    <3>3. Keeps(c)
      BY <2>1, <3>2 DEF CliInv, Kept
    <3> QED
      BY <1>1, <2>1, <2>2, <2>3, <3>1, <3>2, <3>3, KeepsKept DEF Busy
  <2> QED
    BY <2>4, <2>5, <2>6, <2>7, <2>8, <2>9, <2>10 DEF CliInv
<1> QED
  BY <1>2, <1>3

LEMMA AbortPendingKeeps ==
    ASSUME CliInv, KeyInv', NEW s \in Setup, AbortPending(s)
    PROVE  CliInv'
<1>1. /\ pc[s] = "aborting"
      /\ Abort(held[s]) \/ UNCHANGED credentialVars
      /\ End(s, "failed") /\ Goto(s, "failed")
      /\ UNCHANGED <<activating, config, lock, excused>>
  BY DEF AbortPending, At, End
<1>2. /\ s \notin activating /\ answer[s] = "none" /\ lock # s
      /\ held[s] \in Key /\ held[s] # NoKey /\ cred[held[s]].status # "active"
  BY <1>1, HoldsKey, CredentialsAssumption DEF CliInv, Locked, Critical, OwnKeys, Keeping
<1>3. /\ pc' \in [Setup -> Place] /\ old' \in [Setup -> Key \cup {NoKey}]
      /\ answer' \in [Setup -> {"none", "activated", "refused"}]
      /\ pc'[s] = "failed" /\ answer'[s] = "none"
      /\ \A t \in Setup : t # s => /\ pc'[t] = pc[t] /\ old'[t] = old[t]
                                   /\ answer'[t] = answer[t]
      /\ command' = command /\ held' = held
  BY <1>1, Ends DEF Place, CliInv
<1>4. Calm /\ Steady /\ SameNames
  BY <1>1, <1>2, <1>3, SameIsCalm, EndsAreCalm, NamesAreSame DEF CliInv
<1>5. /\ secret' \in [Caller -> Key \cup {NoKey}]
      /\ \A c \in Caller : secret'[c] = secret[c] \/ secret[c] = held[s]
  BY DEF AbortPending, CliInv, CliTypeOK
<1>6. CliTypeOK'
  BY <1>1, <1>3, <1>5 DEF CliInv, CliTypeOK
<1>7. Requested'
  BY <1>1, <1>3, <1>4, RequestedKept DEF CliInv
<1>8. Locked'
  BY <1>1, <1>2, <1>3 DEF CliInv, Locked, Critical
<1>9. OwnKeys'
  BY <1>1, <1>3, <1>4, OwnKeysKept DEF Keeping, Critical
<1>10. Stored'
  <2>1. ASSUME NEW t \in Setup, pc'[t] \in Critical
        PROVE  /\ secret'[Named(t)] = held[t]
               /\ command[t].op # "connect" \/ pc'[t] # "stored" => config[Named(t)]
    <3>1. pc'[t] = pc[t] /\ t # s
      BY <1>3, <2>1 DEF Critical
    <3>2. held[t] # held[s]
      BY <1>2, <2>1, <3>1, Holder DEF CliInv, OwnKeys
    <3> QED
      BY <1>5, <2>1, <3>1, <3>2, Holder
  <2> QED
    BY <1>1, <1>3, <2>1 DEF Stored, Named
<1>11. LateIsExcused'
  BY <1>1, <1>2, <1>3, <1>4, LateKept DEF CliInv, CliTypeOK
<1>12. Kept'
  <2> SUFFICES ASSUME NEW c \in Caller, c \notin excused' \/ Proven(c)',
                      NEW k \in ActiveKeys(c)'
               PROVE  IF Busy(c)' /\ ~Proven(c)'
                      THEN command'[lock'].op # "connect" /\ old'[lock'] = k
                      ELSE secret'[c] = k /\ config'[c]
    BY DEF Kept, Keeps
  <2>1. lock # NoSetup => old'[lock] = old[lock] /\ answer'[lock] = answer[lock]
    BY <1>2, <1>3 DEF CliInv, CliTypeOK
  <2>2. (Busy(c)' <=> Busy(c)) /\ (Proven(c)' <=> Proven(c))
    BY <1>1, <1>3, <2>1 DEF Busy, Proven, Named
  <2>3. k \in ActiveKeys(c) /\ k # held[s]
    BY <1>2, <1>4 DEF ActiveKeys, Calm
  <2>4. IF Busy(c) /\ ~Proven(c)
        THEN command[lock].op # "connect" /\ old[lock] = k
        ELSE secret[c] = k /\ config[c]
    BY <1>1, <2>2, <2>3 DEF CliInv, Kept, Keeps
  <2> QED
    BY <1>1, <1>3, <1>5, <2>1, <2>2, <2>3, <2>4 DEF Busy
<1> QED
  BY <1>6, <1>7, <1>8, <1>9, <1>10, <1>11, <1>12 DEF CliInv

---------------------------------------------------------------------------
(* Activation                                                              *)

LEMMA SendActivateKeeps ==
    ASSUME CliInv, KeyInv', NEW s \in Setup, SendActivate(s)
    PROVE  CliInv'
<1> USE DEF Local
<1>1. /\ pc[s] = "saved" /\ activating' = activating \cup {s}
      /\ Goto(s, "activating") /\ "activating" \in Place
      /\ UNCHANGED <<credentialVars, command, held, old, answer, Local>>
  BY DEF SendActivate, At, Place
<1>2. /\ pc' \in [Setup -> Place] /\ pc'[s] = "activating"
      /\ \A t \in Setup : t # s => pc'[t] = pc[t]
  BY <1>1, Goes DEF CliInv
<1>3. Calm /\ Steady /\ SameNames
  BY <1>1, SameIsCalm, NamesAreSame
<1>4. answer[s] = "none" /\ lock = s /\ \A t \in Setup : Named(t)' = Named(t)
  BY <1>1, Holder DEF CliInv, Locked, Critical, Named
<1>5. CliTypeOK'
  BY <1>1, <1>2 DEF CliInv, CliTypeOK
<1>6. Requested'
  BY <1>1, <1>2, <1>3, RequestedKept DEF CliInv
<1>7. Locked'
  BY <1>1, <1>2, <1>4 DEF CliInv, Locked, Critical
<1>8. OwnKeys'
  <2>1. \A t \in activating' : t \in activating \/ pc[t] = "saved"
    BY <1>1
  <2> QED
    BY <1>1, <1>2, <1>3, <2>1, OwnKeysKept DEF Keeping, Critical
<1>9. Stored'
  BY <1>1, <1>2, <1>4 DEF CliInv, Stored, Critical
<1>10. LateIsExcused'
  BY <1>1, <1>4 DEF CliInv, LateIsExcused, Proven, Busy, Named, credentialVars
<1>11. Kept'
  <2>1. \A c \in Caller : Busy(c)' = Busy(c) /\ Proven(c)' = Proven(c)
    BY <1>1 DEF Proven, Busy, Named
  <2> QED
    BY <1>1, <1>3, <2>1, KeepsKept DEF CliInv, Kept
<1> QED
  BY <1>5, <1>6, <1>7, <1>8, <1>9, <1>10, <1>11 DEF CliInv

\* A request is answered: its command learns of it if it still waits.
LEMMA Answered ==
    ASSUME CliInv, NEW s \in activating, NEW text \in {"activated", "refused"},
           Answer(s, text)
    PROVE  /\ s \in Setup /\ answer[s] = "none" /\ pc[s] \in {"activating", "kept", "crashed"}
           /\ activating' = activating \ {s}
           /\ answer' \in [Setup -> {"none", "activated", "refused"}]
           /\ answer'[s] = IF lock = s THEN text ELSE "none"
           /\ lock = s <=> pc[s] = "activating"
           /\ \A t \in Setup : t # s => answer'[t] = answer[t]
           /\ UNCHANGED <<command, pc, held, old, secret, config, lock, excused>>
<1>1. /\ s \in Setup /\ answer[s] = "none" /\ pc[s] \in {"activating", "kept", "crashed"}
      /\ lock = s <=> pc[s] = "activating"
  BY DEF CliInv, CliTypeOK, Locked, Critical
<1>2. answer' = [answer EXCEPT ![s] = IF lock = s THEN text ELSE "none"]
  BY <1>1 DEF Answer, At
<1>3. answer \in [Setup -> {"none", "activated", "refused"}]
  BY DEF CliInv, CliTypeOK
<1>4. /\ answer' \in [Setup -> {"none", "activated", "refused"}]
      /\ answer'[s] = IF lock = s THEN text ELSE "none"
      /\ \A t \in Setup : t # s => answer'[t] = answer[t]
  BY <1>1, <1>2, <1>3
<1> QED
  BY <1>1, <1>4 DEF Answer, Local

LEMMA RefuseActivateKeeps ==
    ASSUME CliInv, KeyInv', NEW s \in Setup, RefuseActivate(s)
    PROVE  CliInv'
<1>1. /\ s \in activating /\ Answer(s, "refused")
      /\ ExpireKey(held[s]) \/ UNCHANGED credentialVars
  BY DEF RefuseActivate
<1>2. /\ s \in Setup /\ answer[s] = "none" /\ pc[s] \in {"activating", "kept", "crashed"}
      /\ activating' = activating \ {s}
      /\ answer' \in [Setup -> {"none", "activated", "refused"}]
      /\ answer'[s] = IF lock = s THEN "refused" ELSE "none"
      /\ lock = s <=> pc[s] = "activating"
      /\ \A t \in Setup : t # s => answer'[t] = answer[t]
      /\ UNCHANGED <<command, pc, held, old, secret, config, lock, excused>>
  BY <1>1, Answered
<1>3. Calm /\ Steady /\ SameNames
  <2>1. held[s] \in Key
    BY <1>1, HoldsKey
  <2> QED
    BY <1>1, <1>2, <2>1, SameIsCalm, EndsAreCalm, NamesAreSame DEF CliInv
<1>4. \A t \in Setup : answer'[t] = "activated" <=> answer[t] = "activated"
  BY <1>2
<1>5. CliTypeOK'
  BY <1>2 DEF CliInv, CliTypeOK
<1>6. Requested'
  BY <1>2, <1>3, RequestedKept DEF CliInv
<1>7. Locked'
  BY <1>2 DEF CliInv, Locked
<1>8. OwnKeys'
  BY <1>2, <1>3, <1>4, OwnKeysKept
<1>9. Stored'
  BY <1>2 DEF CliInv, Stored, Named
<1>10. LateIsExcused'
  BY <1>2, <1>3, <1>4, LateKept DEF CliInv, CliTypeOK
<1>11. Kept'
  <2>1. lock # NoSetup => lock \in Setup
    BY DEF CliInv, CliTypeOK
  <2>2. \A c \in Caller : Busy(c)' = Busy(c) /\ Proven(c)' = Proven(c)
    BY <1>2, <1>4, <2>1 DEF Proven, Busy, Named
  <2> QED
    BY <1>2, <1>3, <1>4, <2>1, <2>2, KeepsKept DEF CliInv, Kept, Busy
<1> QED
  BY <1>5, <1>6, <1>7, <1>8, <1>9, <1>10, <1>11 DEF CliInv

\* The caller of an activation that is handled late is excused; one that
\* is handled in time is of the caller whose key its command has stored.
LEMMA HandleActivateKeeps ==
    ASSUME CliInv, KeyInv', NEW s \in Setup, HandleActivate(s)
    PROVE  CliInv'
<1> DEFINE c == Named(s)
<1>1. s \in activating /\ Activate(held[s]) /\ Answer(s, "activated")
  BY DEF HandleActivate
<1>2. /\ answer[s] = "none" /\ pc[s] \in {"activating", "kept", "crashed"}
      /\ activating' = activating \ {s}
      /\ answer' \in [Setup -> {"none", "activated", "refused"}]
      /\ answer'[s] = IF lock = s THEN "activated" ELSE "none"
      /\ lock = s <=> pc[s] = "activating"
      /\ \A t \in Setup : t # s => answer'[t] = answer[t]
      /\ UNCHANGED <<command, pc, held, old, secret, config, lock, excused>>
  BY <1>1, Answered
<1>3. PICK k \in Key : k = held[s]
  BY <1>1, HoldsKey
<1>4. /\ cred[k].status = "pending" /\ cred[k].caller = c /\ c \in Caller
      /\ cred'[k].status = "active" /\ cred'[k].caller = c
      /\ \A j \in Key : j # k =>
            /\ cred'[j].caller = cred[j].caller
            /\ cred'[j].status \in {cred[j].status, "revoked"}
      /\ mintedBy' = mintedBy /\ setup' = setup
  <2>1. /\ cred[k].status = "pending" /\ cred[k].caller \in Caller
        /\ cred'[k].status = "active" /\ cred'[k].caller = cred[k].caller
        /\ \A j \in Key \ {k} :
              /\ cred'[j].caller = cred[j].caller
              /\ cred'[j].status = IF j = cred[k].replaces THEN "revoked" ELSE cred[j].status
    BY <1>1, <1>3, Activation DEF CliInv
  <2>2. cred[k].caller = c
    BY <1>3, <2>1, CredentialsAssumption DEF CliInv, OwnKeys
  <2>3. mintedBy' = mintedBy /\ setup' = setup
    BY <1>1 DEF Activate
  <2> QED
    BY <2>1, <2>2, <2>3
<1>5. \A t \in Setup : Named(t)' = Named(t)
  BY <1>2 DEF Named
<1>6. \A t \in Setup : held[t] # NoKey =>
        held[t] \in Key /\ (held[t] = k => t = s)
  BY <1>3, CredentialsAssumption DEF CliInv, CliTypeOK, OwnKeys
<1>7. CliTypeOK'
  BY <1>2 DEF CliInv, CliTypeOK
<1>8. Requested'
  BY <1>2, <1>4, <1>5 DEF CliInv, Requested
<1>9. Locked'
  BY <1>2 DEF CliInv, Locked
<1>10. OwnKeys'
  <2> SUFFICES ASSUME NEW t \in Setup
               PROVE  /\ pc'[t] \in Keeping \/ t \in activating' => held'[t] # NoKey
                      /\ held'[t] # NoKey =>
                          /\ pc'[t] # "idle"
                          /\ mintedBy'[held'[t]] = t /\ cred'[held'[t]].status # "none"
                          /\ cred'[held'[t]].status \in {"pending", "active"} =>
                                cred'[held'[t]].caller = Named(t)'
                          /\ cred'[held'[t]].status = "active" =>
                              /\ t \notin activating'
                              /\ pc'[t] \in {"activating", "done", "kept", "crashed"}
                              /\ pc'[t] = "activating" => answer'[t] = "activated"
    BY DEF OwnKeys
  <2>1. pc'[t] \in Keeping \/ t \in activating' => held'[t] # NoKey
    BY <1>2 DEF CliInv, OwnKeys
  <2>2. ASSUME held[t] # NoKey
        PROVE  pc[t] # "idle" /\ mintedBy'[held[t]] = t /\ held[t] \in Key
    BY <1>4, <1>6, <2>2 DEF CliInv, OwnKeys
  <2>3. CASE t = s
    BY <1>2, <1>3, <1>4, <1>5, <2>1, <2>2, <2>3
  <2>4. CASE t # s
    <3>1. ASSUME held[t] # NoKey
          PROVE  /\ held[t] # k /\ held[t] \in Key
                 /\ cred'[held[t]].caller = cred[held[t]].caller
                 /\ cred'[held[t]].status \in {cred[held[t]].status, "revoked"}
      BY <1>4, <1>6, <2>4, <3>1
    <3>2. answer'[t] = answer[t] /\ (t \in activating' <=> t \in activating)
      BY <1>2, <2>4
    <3> QED
      BY <1>2, <1>5, <2>1, <2>2, <3>1, <3>2 DEF CliInv, OwnKeys
  <2> QED
    BY <2>3, <2>4
<1>11. Stored'
  BY <1>2, <1>5 DEF CliInv, Stored
<1>12. LateIsExcused'
  <2> SUFFICES ASSUME NEW t \in activating', cred'[held'[t]].status = "pending", lock' # t
               PROVE  Named(t)' \in excused' /\ ~Proven(Named(t))'
    BY DEF LateIsExcused
  <2>1. t \in activating /\ t # s /\ t \in Setup /\ lock # t
    BY <1>2 DEF CliInv, CliTypeOK
  <2>2. held[t] \in Key /\ held[t] # k
    BY <1>6, <2>1 DEF CliInv, OwnKeys
  <2>3. cred[held[t]].status = "pending"
    BY <1>2, <1>4, <2>2
  <2>4. Named(t) \in excused /\ ~Proven(Named(t))
    BY <2>1, <2>3 DEF CliInv, LateIsExcused
  <2>5. Named(t) # c
    BY <1>4, <2>1, <2>2, <2>3, CredentialsAssumption DEF CliInv, OwnKeys, KeyInv, OnePending
  <2>6. ~Proven(Named(t))'
    <3>1. CASE lock = s
      BY <1>2, <1>5, <2>1, <2>5, <3>1 DEF Proven, Busy
    <3>2. CASE lock # s
      BY <1>2, <1>5, <2>1, <2>4, <3>2 DEF Proven, Busy, CliInv, CliTypeOK
    <3> QED
      BY <3>1, <3>2
  <2> QED
    BY <1>2, <1>5, <2>1, <2>4, <2>6
<1>13. Kept'
  <2> SUFFICES ASSUME NEW d \in Caller, d \notin excused' \/ Proven(d)',
                      NEW j \in ActiveKeys(d)'
               PROVE  IF Busy(d)' /\ ~Proven(d)'
                      THEN command'[lock'].op # "connect" /\ old'[lock'] = j
                      ELSE secret'[d] = j /\ config'[d]
    BY DEF Kept, Keeps
  <2>1. j \in Key /\ cred'[j].status = "active" /\ cred'[j].caller = d
    BY DEF ActiveKeys
  <2>2. CASE d = c /\ lock = s
    <3>1. pc[s] = "activating" /\ s # NoSetup
      BY <1>2, <2>2, CredentialsAssumption
    <3>2. j = k
      BY <1>4, <2>1, <2>2 DEF KeyInv, OneActive
    <3>3. Proven(d)'
      BY <1>2, <1>5, <2>2, <3>1 DEF Proven, Busy
    <3> QED
      BY <1>2, <1>3, <2>2, <3>1, <3>2, <3>3, Holder DEF Critical
  <2>3. CASE lock # s \/ d # c
    <3>1. Proven(d)' <=> Proven(d)
      <4>1. CASE lock = s
        BY <1>1, <1>2, <1>5, <2>3, <4>1 DEF Proven, Busy, CliInv, CliTypeOK
      <4>2. CASE lock # s
        BY <1>2, <1>5, <4>2 DEF Proven, Busy, CliInv, CliTypeOK
      <4> QED
        BY <4>1, <4>2
    <3>2. d # c
      <4>1. CASE lock # s
        BY <1>1, <1>2, <1>3, <1>4, <3>1, <4>1 DEF CliInv, LateIsExcused
      <4> QED
        BY <2>3, <4>1
    <3>3. j \in ActiveKeys(d)
      BY <1>4, <2>1, <3>2 DEF ActiveKeys
    <3>4. Busy(d)' <=> Busy(d)
      BY <1>2 DEF Busy, Named
    <3>5. IF Busy(d) /\ ~Proven(d)
          THEN command[lock].op # "connect" /\ old[lock] = j
          ELSE secret[d] = j /\ config[d]
      BY <1>2, <3>1, <3>3 DEF CliInv, Kept, Keeps
    <3> QED
      BY <1>2, <3>1, <3>4, <3>5
  <2> QED
    BY <2>2, <2>3
<1> QED
  BY <1>7, <1>8, <1>9, <1>10, <1>11, <1>12, <1>13 DEF CliInv

---------------------------------------------------------------------------
(* Removal                                                                 *)

LEMMA DisconnectKeeps ==
    ASSUME CliInv, KeyInv', NEW c \in Caller, Disconnect(c)
    PROVE  CliInv'
<1> USE DEF Protocol
<1>1. /\ lock = NoSetup /\ lock' = NoSetup /\ excused' = excused \cup {c}
      /\ \A d \in Caller : d # c => secret'[d] = secret[d] /\ config'[d] = config[d]
      /\ secret' \in [Caller -> Key \cup {NoKey}] /\ config' \in [Caller -> BOOLEAN]
      /\ UNCHANGED <<credentialVars, pc, Protocol>>
  BY DEF Disconnect, Excuse, CliInv, CliTypeOK
<1>2. Calm /\ Steady /\ SameNames
  BY <1>1, SameIsCalm, NamesAreSame
<1>3. CliTypeOK'
  BY <1>1 DEF CliInv, CliTypeOK
<1>4. Requested'
  BY <1>1, <1>2, RequestedKept DEF CliInv
<1>5. Locked'
  BY <1>1 DEF CliInv, Locked
<1>6. OwnKeys'
  BY <1>1, <1>2, OwnKeysKept
<1>7. Stored'
  BY <1>1, CredentialsAssumption DEF CliInv, Locked, Stored
<1>8. LateIsExcused'
  BY <1>1, <1>2, LateKept
<1>9. Kept'
  <2> SUFFICES ASSUME NEW d \in Caller, d \notin excused' \/ Proven(d)'
               PROVE  Keeps(d)'
    BY DEF Kept
  <2>1. ~Busy(d) /\ ~Busy(d)' /\ d # c /\ d \notin excused
    BY <1>1 DEF Busy, Proven
  <2>2. Keeps(d)
    BY <2>1 DEF CliInv, Kept
  <2> QED
    BY <1>1, <1>2, <2>1, <2>2, KeepsKept
<1> QED
  BY <1>3, <1>4, <1>5, <1>6, <1>7, <1>8, <1>9 DEF CliInv

---------------------------------------------------------------------------
(* The invariant and what follows from it                                  *)

LEMMA CliInitial == CliInit => CliInv
<1> SUFFICES ASSUME CliInit PROVE CliInv
  OBVIOUS
<1> USE DEF CliInit
<1>1. KeyInv
  BY InitKeys
<1>2. \A c \in Caller : TheKey(ActiveKeys(c)) \in Key \cup {NoKey}
  BY DEF TheKey, ActiveKeys
<1>3. \A c \in Caller : \A k \in ActiveKeys(c) : TheKey(ActiveKeys(c)) = k
  BY <1>1 DEF TheKey, ActiveKeys, KeyInv, OneActive
<1>4. CliTypeOK
  BY <1>2 DEF CliTypeOK, Place, Command, Operation, Flow
<1>5. Requested
  BY DEF Requested, CredentialsInit, InitWith, BlankSetup
<1>6. Locked /\ OwnKeys /\ Stored /\ LateIsExcused
  BY CredentialsAssumption DEF Locked, OwnKeys, Stored, LateIsExcused, Critical, Keeping
<1>7. Kept
  <2> SUFFICES ASSUME NEW c \in Caller, NEW k \in ActiveKeys(c)
               PROVE  ~Busy(c) /\ secret[c] = k /\ config[c]
    BY DEF Kept, Keeps
  <2> QED
    BY <1>3 DEF Busy
<1> QED
  BY <1>1, <1>4, <1>5, <1>6, <1>7 DEF CliInv

LEMMA CliStep ==
    ASSUME CliInv, [CliNext]_allVars
    PROVE  CliInv'
<1>0. KeyInv'
  BY KeysStay
<1>1. pc \in [Setup -> Place]
  BY DEF CliInv, CliTypeOK
<1>2. ASSUME NEW s \in Setup, NEW op \in Operation, NEW flow \in Flow, NEW c \in Caller,
             Begin(s, op, flow, c)
      PROVE  CliInv'
  BY <1>0, <1>2, BeginKeeps
<1>3. CASE \/ Time \/ UNCHANGED allVars
           \/ \E s \in Setup : Person(s)
  <2>1. Calm /\ Steady
    BY <1>3, SameIsCalm, RequestsAreCalm, CallersAreCalm DEF Time, Person, CliInv, allVars
  <2>2. UNCHANGED <<Protocol, Local>> /\ pc' = pc
    BY <1>3 DEF Time, Person, cliVars, allVars, Protocol, Local
  <2> QED
    BY <1>0, <1>1, <2>1, <2>2, EarlyKeeps DEF Early
<1>4. ASSUME NEW s \in Setup,
             \/ Callback(s) \/ Poll(s) \/ StopWaiting(s) \/ Confirm(s) \/ CodeFails(s)
             \/ StoreFails(s) \/ PollFails(s)
      PROVE  CliInv'
  <2>1. Calm /\ Steady
    <3>1. \/ UNCHANGED credentialVars \/ DevicePoll(s) \/ ConfirmRevoke(s)
      BY <1>4 DEF Callback, Poll, StopWaiting, Confirm, CodeFails, StoreFails, PollFails
    <3> QED
      BY <3>1, SameIsCalm, RequestsAreCalm, RevocationIsCalm DEF CliInv
  <2>2. UNCHANGED <<Protocol, Local>>
    BY <1>4 DEF Callback, Poll, StopWaiting, Confirm, CodeFails, StoreFails, PollFails
  <2>3. PICK p \in {"code", "failed", "done", "aborting"} :
          /\ Goto(s, p)
          /\ \/ pc[s] \in {"waiting", "code"} /\ p # "aborting"
             \/ pc[s] = "pending" /\ p = "aborting"
    BY <1>4 DEF Callback, Poll, StopWaiting, Confirm, CodeFails, StoreFails, PollFails, At
  <2>4. /\ pc' \in [Setup -> Place] /\ pc'[s] = p
        /\ \A t \in Setup : t # s => pc'[t] = pc[t]
    BY <2>3, Goes DEF CliInv, Place
  <2>5. \A t \in Setup : Early(t)
    BY <2>3, <2>4 DEF Early
  <2> QED
    BY <1>0, <2>1, <2>2, <2>4, <2>5, EarlyKeeps
<1>5. ASSUME NEW s \in Setup, NEW k \in Key, Exchange(s, k) PROVE CliInv'
  BY <1>0, <1>5, ExchangeKeeps
<1>6. ASSUME NEW s \in Setup,
             StoreSecret(s) \/ StoreFailsLate(s) \/ SaveConfig(s) \/ SaveFails(s)
      PROVE  CliInv'
  BY <1>0, <1>6, StoreSecretKeeps, StoreFailsLateKeeps, SaveConfigKeeps, SaveFailsKeeps
<1>7. ASSUME NEW s \in Setup, AbortPending(s) \/ Crash(s) \/ SendActivate(s) PROVE CliInv'
  BY <1>0, <1>7, AbortPendingKeeps, CrashKeeps, SendActivateKeeps
<1>8. ASSUME NEW s \in Setup, ActivateDone(s) \/ RollBack(s) \/ RollBackFails(s)
      PROVE  CliInv'
  BY <1>0, <1>8, ActivateDoneKeeps, RollBackKeeps, RollBackFailsKeeps
<1>9. ASSUME NEW s \in Setup, KeepKey(s) PROVE CliInv'
  BY <1>0, <1>9, KeepKeyKeeps DEF KeepKey, At, Critical
<1>10. ASSUME NEW s \in Setup, Serve(s) PROVE CliInv'
  BY <1>0, <1>10, HandleActivateKeeps, RefuseActivateKeeps DEF Serve
<1>11. ASSUME NEW c \in Caller, Disconnect(c) PROVE CliInv'
  BY <1>0, <1>11, DisconnectKeeps
<1> QED
  BY <1>2, <1>3, <1>4, <1>5, <1>6, <1>7, <1>8, <1>9, <1>10, <1>11 DEF CliNext, Proceed

\* What the client knows of its keys and the routes' credentials stay together.
THEOREM CliInvariant == CliSpec => []CliInv
<1>1. CliInv /\ [CliNext]_allVars => CliInv'
  BY CliStep
<1> QED
  BY <1>1, CliInitial, PTL DEF CliSpec

\* A machine that runs the client only ever asks the routes for what they
\* answer to anybody: what is proved of CallerCredentials holds with it.
THEOREM ClientsUseTheRoutes == CliSpec => CredentialsSpec
<1>1. CliInit => CredentialsInit
  BY DEF CliInit
<1>2. CliInv /\ [CliNext]_allVars => [CredentialsNext]_credentialVars
  BY RequestMaps
<1> QED
  BY <1>1, <1>2, CliInvariant, PTL DEF CliSpec, CredentialsSpec

\* Whatever commands run side by side, are refused, lapse, crash or lose their
\* answers: a caller with a working key that is not excused has
\* it in credentials.json, or the command inside the critical section would
\* restore it (CallerCli.LocalKeyWorks).
THEOREM LocalKeyAlwaysWorks == CliSpec => []LocalKeyWorks
<1>1. ASSUME CliInv PROVE LocalKeyWorks
  <2> SUFFICES ASSUME NEW c \in Caller \ excused, NEW k \in ActiveKeys(c)
               PROVE  CanCall(c)
    BY DEF LocalKeyWorks
  <2>1. k # NoKey /\ Authenticates(k)
    BY CredentialsAssumption DEF ActiveKeys, Authenticates
  <2>2. Keeps(c)
    BY <1>1 DEF CliInv, Kept
  <2> QED
    BY <2>1, <2>2 DEF Keeps, Busy, CanCall
<1> QED
  BY <1>1, CliInvariant, PTL

\* The key of a command that acted on a refusal and rolled its storage back
\* does not work from then on (CallerCli.RollbackIsFinal).
THEOREM RollbacksAreFinal == CliSpec => []RollbackIsFinal
<1>1. ASSUME CliInv PROVE RollbackIsFinal
  BY <1>1 DEF CliInv, OwnKeys, RollbackIsFinal, At, Keeping
<1> QED
  BY <1>1, CliInvariant, PTL
=============================================================================
