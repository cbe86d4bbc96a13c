------------------------------ MODULE CallerCli ------------------------------
(***************************************************************************)
(* The caller commands of the command-line client against the routes of    *)
(* CallerCredentials: connect, rotate, revoke and disconnect on one        *)
(* machine.  A command waits for approval, exchanges its code for a        *)
(* pending key, and then, under the lock on local state, stores the key,   *)
(* saves the config and activates.  An answer may be lost, a request may   *)
(* be handled after the client stopped waiting for it, a local write may   *)
(* fail, also after it took effect, and a command may be killed anywhere.  *)
(***************************************************************************)
EXTENDS CallerCredentials

VARIABLES
    command,    \* what each command was asked to do; it is known by its request
    pc,         \* where each command is
    held,       \* the pending key a command was given
    old,        \* the local key a command found when it stored its own
    activating, \* commands whose activate request is on its way or handled late
    answer,     \* the answer to a command's activate request
    secret,     \* credentials.json: the key of each caller
    config,     \* config.json: the callers it lists
    lock,       \* the command that holds the lock on local state
    excused     \* history: callers whose local key may be lost

cliVars == <<command, pc, held, old, activating, answer, secret, config, lock, excused>>
allVars == <<credentialVars, cliVars>>

Running  == {"waiting", "code", "pending", "stored", "saved", "activating", "aborting"}

Command  == [op : Operation, flow : Flow, name : Caller \cup {NoCaller}]

\* Callers already connected were connected from this machine.
CliInit ==
    /\ CredentialsInit
    /\ command = [s \in Setup |-> [op |-> "connect", flow |-> "browser", name |-> NoCaller]]
    /\ pc = [s \in Setup |-> "idle"]
    /\ held = [s \in Setup |-> NoKey]
    /\ old = [s \in Setup |-> NoKey]
    /\ activating = {}
    /\ answer = [s \in Setup |-> "none"]
    /\ secret = [c \in Caller |-> TheKey(ActiveKeys(c))]
    /\ config = [c \in Caller |-> ActiveKeys(c) # {}]
    /\ lock = NoSetup
    /\ excused = {}

---------------------------------------------------------------------------
At(s, place)   == pc[s] = place
Goto(s, place) == pc' = [pc EXCEPT ![s] = place]
Named(s)       == command[s].name

Local    == <<secret, config, lock, excused>>
Protocol == <<command, held, old, activating, answer>>

\* A command ends: its place is all that is left of it but its key.
End(s, place) ==
    /\ Goto(s, place)
    /\ old' = [old EXCEPT ![s] = NoKey]
    /\ answer' = [answer EXCEPT ![s] = "none"]
    /\ UNCHANGED <<command, held>>

\* The local key of a caller may be lost: the user is warned, removed it or
\* killed the command, or a rotation whose store failed did not put it back.
Excuse(c) == excused' = excused \cup {c}

---------------------------------------------------------------------------
(* Approval                                                                *)

\* connect needs a free local name, rotate and revoke a configured caller.
Begin(s, op, flow, c) ==
    /\ At(s, "idle")
    /\ config[c] <=> (op # "connect")
    /\ StartSetup(s, op, flow, c)
    /\ command' = [command EXCEPT ![s] = [op |-> op, flow |-> flow, name |-> c]]
    /\ Goto(s, "waiting")
    /\ UNCHANGED <<held, old, activating, answer, Local>>

\* The approval page calls the local listener back with the setup code.
Callback(s) ==
    /\ At(s, "waiting") /\ command[s].flow = "browser" /\ setup[s].coded
    /\ Goto(s, "code")
    /\ UNCHANGED <<credentialVars, Protocol, Local>>

\* A poll that finds the approval: the code it is answered with is not
\* repeated, so when the answer is lost the command cannot go on.
Poll(s) ==
    /\ At(s, "waiting") /\ DevicePoll(s)
    /\ Goto(s, "code") \/ Goto(s, "failed")
    /\ UNCHANGED <<Protocol, Local>>

\* The deadline of both flows is the expiry the start was answered with.
Overdue(s) == ~Live(s) \/ setup[s].status = "pruned"

StopWaiting(s) ==
    /\ At(s, "waiting") /\ Overdue(s)
    /\ Goto(s, "failed")
    /\ UNCHANGED <<credentialVars, Protocol, Local>>

\* A poll that gets any answer but "pending", or none, ends the command.
PollFails(s) ==
    /\ At(s, "waiting") /\ command[s].flow = "device"
    /\ Goto(s, "failed")
    /\ UNCHANGED <<credentialVars, Protocol, Local>>

\* A connect poll exchanges by itself.
HasCode(s) ==
    \/ At(s, "code")
    \/ At(s, "waiting") /\ command[s].flow = "device" /\ command[s].op = "connect"

\* The exchange commits; its answer may be lost.
Exchange(s, k) ==
    /\ HasCode(s)
    /\ ExchangeConnect(s, k) \/ ExchangeRotate(s, k)
    /\ \/ Goto(s, "pending") /\ held' = [held EXCEPT ![s] = k]
       \/ Goto(s, "failed") /\ UNCHANGED held
    /\ UNCHANGED <<command, old, activating, answer, Local>>

Confirm(s) ==
    /\ At(s, "code") /\ ConfirmRevoke(s)
    /\ Goto(s, "done") \/ Goto(s, "failed")
    /\ UNCHANGED <<Protocol, Local>>

\* The exchange or confirmation is refused or does not get through.
CodeFails(s) ==
    /\ At(s, "code")
    /\ Goto(s, "failed")
    /\ UNCHANGED <<credentialVars, Protocol, Local>>

---------------------------------------------------------------------------
(* Local state                                                             *)

\* Mutant: local state is changed without the lock.
NoLock(s) == TRUE

LockFree(s) == lock = NoSetup

\* Read again under the lock: the name is still free, or still configured.
StillMine(s) == config[Named(s)] <=> (command[s].op # "connect")

\* What a rollback leaves in credentials.json.
RolledBack(s) == IF command[s].op = "connect" THEN NoKey ELSE old[s]

StoreSecret(s) ==
    /\ At(s, "pending") /\ LockFree(s) /\ StillMine(s)
    /\ lock' = s
    /\ old' = [old EXCEPT ![s] = secret[Named(s)]]
    /\ secret' = [secret EXCEPT ![Named(s)] = held[s]]
    /\ Goto(s, "stored")
    /\ UNCHANGED <<credentialVars, command, held, activating, answer, config, excused>>

\* The check under the lock fails, or the write before its rename.
StoreFails(s) ==
    /\ At(s, "pending") /\ LockFree(s)
    /\ Goto(s, "aborting")
    /\ UNCHANGED <<credentialVars, Protocol, Local>>

\* The new file is in place when its mode or its directory cannot be secured:
\* the write fails, and a rotation does not put the old key back.
StoreFailsLate(s) ==
    /\ At(s, "pending") /\ LockFree(s) /\ StillMine(s)
    /\ secret' = [secret EXCEPT ![Named(s)] = held[s]]
    /\ IF command[s].op = "connect" THEN UNCHANGED excused ELSE Excuse(Named(s))
    /\ Goto(s, "aborting")
    /\ UNCHANGED <<credentialVars, Protocol, config, lock>>

SaveConfig(s) ==
    /\ At(s, "stored")
    /\ config' = [config EXCEPT ![Named(s)] = TRUE]
    /\ Goto(s, "saved")
    /\ UNCHANGED <<credentialVars, Protocol, secret, lock, excused>>

\* Saving the config fails, before or after its rename: the secret is rolled back,
\* and a rollback that fails, before or after its own, is reported.
SaveFails(s) ==
    /\ At(s, "stored")
    /\ config' \in {config, [config EXCEPT ![Named(s)] = TRUE]}
    /\ \/ /\ secret' = [secret EXCEPT ![Named(s)] = RolledBack(s)]
          /\ UNCHANGED excused
       \/ /\ secret' \in {secret, [secret EXCEPT ![Named(s)] = RolledBack(s)]}
          /\ Excuse(Named(s))
    /\ lock' = NoSetup
    /\ Goto(s, "aborting")
    /\ UNCHANGED <<credentialVars, Protocol>>

\* Best effort: the abort may not get through or be refused.  A connect then
\* deletes what it may have stored, without the lock: keys are filed by the
\* id of the caller row, which a later caller of that name does not share.
AbortPending(s) ==
    /\ At(s, "aborting")
    /\ Abort(held[s]) \/ UNCHANGED credentialVars
    /\ \/ /\ command[s].op = "connect" /\ secret[Named(s)] = held[s]
          /\ secret' = [secret EXCEPT ![Named(s)] = NoKey]
       \/ UNCHANGED secret
    /\ End(s, "failed")
    /\ UNCHANGED <<activating, config, lock, excused>>

---------------------------------------------------------------------------
(* Activation                                                              *)

SendActivate(s) ==
    /\ At(s, "saved")
    /\ activating' = activating \cup {s}
    /\ Goto(s, "activating")
    /\ UNCHANGED <<credentialVars, command, held, old, answer, Local>>

Answer(s, text) ==
    /\ activating' = activating \ {s}
    /\ answer' = [answer EXCEPT ![s] = IF At(s, "activating") THEN text ELSE "none"]
    /\ UNCHANGED <<command, pc, held, old, Local>>

HandleActivate(s) ==
    /\ s \in activating /\ Activate(held[s])
    /\ Answer(s, "activated")

\* Refused by a limit or by the lookup, or by the verification, which expires
\* a lapsed key.
RefuseActivate(s) ==
    /\ s \in activating
    /\ ExpireKey(held[s]) \/ UNCHANGED credentialVars
    /\ Answer(s, "refused")

ActivateDone(s) ==
    /\ At(s, "activating") /\ answer[s] = "activated"
    /\ lock' = NoSetup
    /\ excused' = excused \ {Named(s)}
    /\ End(s, "done")
    /\ UNCHANGED <<credentialVars, activating, secret, config>>

\* Mutant: any failure to activate is taken for a refusal.
AnyFailure(s) == answer[s] # "activated"

\* The answer proves the activation did not commit.
Refused(s) == answer[s] = "refused"

\* Restore the old key, then the previous config.
RollBack(s) ==
    /\ At(s, "activating") /\ Refused(s)
    /\ secret' = [secret EXCEPT ![Named(s)] = RolledBack(s)]
    /\ config' = [config EXCEPT ![Named(s)] = (command[s].op # "connect")]
    /\ lock' = NoSetup
    /\ End(s, "rolledback")
    /\ UNCHANGED <<credentialVars, activating, excused>>

\* One of the two writes fails, before or after it took effect, and the command
\* reports it.
RollBackFails(s) ==
    /\ At(s, "activating") /\ Refused(s)
    /\ secret' \in {secret, [secret EXCEPT ![Named(s)] = RolledBack(s)]}
    /\ config' \in {config, [config EXCEPT ![Named(s)] = (command[s].op # "connect")]}
    /\ lock' = NoSetup
    /\ Excuse(Named(s))
    /\ End(s, "inconsistent")
    /\ UNCHANGED <<credentialVars, activating>>

\* No answer, or one that proves nothing: the new key is kept, with a warning.
KeepKey(s) ==
    /\ At(s, "activating")
    /\ lock' = NoSetup
    /\ Excuse(Named(s))
    /\ End(s, "kept")
    /\ UNCHANGED <<credentialVars, activating, secret, config>>

---------------------------------------------------------------------------
(* Crashes and removal                                                     *)

\* A killed command gives up the lock; its requests are handled all the same.
Crash(s) ==
    /\ pc[s] \in Running
    /\ lock' = IF lock = s THEN NoSetup ELSE lock
    /\ IF lock = s THEN Excuse(Named(s)) ELSE UNCHANGED excused
    /\ End(s, "crashed")
    /\ UNCHANGED <<credentialVars, activating, secret, config>>

\* The secret goes first; the config may then not be saved.
Disconnect(c) ==
    /\ lock = NoSetup /\ config[c]
    /\ secret' = [secret EXCEPT ![c] = NoKey]
    /\ config' = [config EXCEPT ![c] = FALSE] \/ UNCHANGED config
    /\ Excuse(c)
    /\ UNCHANGED <<credentialVars, pc, Protocol, lock>>

---------------------------------------------------------------------------
\* A person decides; time passes and the cleanup runs.
Person(s) == (Approve(s) \/ Deny(s)) /\ UNCHANGED cliVars

Time == /\ \/ \E s \in Setup : Lapse(s) \/ Age(s) \/ PruneSetup(s) \/ MarkExpired(s)
           \/ \E c \in Caller : AgeCaller(c) \/ PruneCaller(c)
        /\ UNCHANGED cliVars

\* What a command does by itself once it runs.
Proceed(s) ==
    \/ Callback(s) \/ Poll(s) \/ StopWaiting(s) \/ Confirm(s) \/ CodeFails(s)
    \/ \E k \in Key : Exchange(s, k)
    \/ StoreSecret(s) \/ StoreFails(s) \/ StoreFailsLate(s)
    \/ SaveConfig(s) \/ SaveFails(s) \/ AbortPending(s)
    \/ SendActivate(s) \/ ActivateDone(s) \/ RollBack(s) \/ RollBackFails(s) \/ KeepKey(s)

Serve(s) == HandleActivate(s) \/ RefuseActivate(s)

CliNext ==
    \/ \E s \in Setup, op \in Operation, flow \in Flow, c \in Caller : Begin(s, op, flow, c)
    \/ \E s \in Setup : Person(s) \/ Proceed(s) \/ PollFails(s) \/ Serve(s) \/ Crash(s)
    \/ \E c \in Caller : Disconnect(c)
    \/ Time

CliSpec == CliInit /\ [][CliNext]_allVars

---------------------------------------------------------------------------
(* Properties                                                              *)

\* The machine can call as c, or can once the command inside the critical
\* section has put the old key back.
CanCall(c) ==
    \/ secret[c] # NoKey /\ Authenticates(secret[c])
    \/ /\ lock # NoSetup
       /\ Named(lock) = c
       /\ old[lock] # NoKey /\ Authenticates(old[lock])

\* A caller's working key is the one in credentials.json, or the one a command
\* inside its critical section would restore or has just activated: whatever
\* commands run side by side, are refused, lapse or lose their answers, the
\* machine can still call (exchangeStoreAndActivateRotate,
\* storeAndActivateConnect).  Until a later command succeeds this leaves out a
\* caller that was removed, whose command was killed inside its critical section
\* or warned that it kept an unproven key or could not roll back, and one whose
\* rotation replaced the key by a store that then failed: the code does not put
\* the key back there, and it is lost.
LocalKeyWorks ==
    \A c \in Caller \ excused : ActiveKeys(c) # {} => CanCall(c)

\* A refusal the client acts on is final: the key whose storage it rolled
\* back never works (activateDefinitivelyDidNotCommit).
RollbackIsFinal ==
    \A s \in Setup : At(s, "rolledback") => cred[held[s]].status # "active"
=============================================================================
