--------------------------- MODULE CallerRequests ---------------------------
(***************************************************************************)
(* Caller API requests of one account: each runs in one database           *)
(* transaction that authenticates, takes a write slot, charges the fixed   *)
(* windows of its operation, writes and commits, or is refused by a limit, *)
(* fails, or outlives the worker that gave up on it.  A transaction's      *)
(* charges, blocks and writes are its own until the server commits it; the *)
(* account lock, slots and counter rows it holds are its own until it ends.*)
(*                                                                         *)
(* Time is counted in minutes, and a period of Period minutes stands for   *)
(* the day and the month.  now() is the start of the transaction, while    *)
(* the windows are those of the worker's clock when it charges them.       *)
(***************************************************************************)
EXTENDS Naturals, FiniteSets, Sequences

CONSTANTS
    Request,    \* requests of the account's callers
    Limit,      \* how often each metric may be charged in one window
    Slots,      \* write requests of the account at a time
    Period,     \* minutes in a day and in a month
    MaxMinute   \* bound: the last minute

Metric == {"month", "send", "delete", "read", "day", "burst"}

ASSUME RequestsAssumption ==
    /\ Limit \in [Metric -> Nat]
    /\ Slots \in Nat
    /\ Period \in Nat \ {0}
    /\ MaxMinute \in Nat

VARIABLES
    minute,     \* the clock
    tier,       \* the account's tier
    used,       \* agent_outbox_account_quota_windows: units of each window
    touched,    \* its updated_at
    blocks,     \* agent_outbox_account_limit_blocks: when each block ends
    req,        \* each request and its transaction
    answer,     \* what the caller was answered
    durable,    \* history: the requests whose write was committed
    admitted,   \* history: durable writes charged to each window
    pruned      \* history: units of each window dropped by the cleanup

tables == <<used, touched, blocks>>
kept   == <<durable, admitted>>
vars   == <<minute, tier, tables, req, answer, kept, pruned>>

Minute == 0 .. MaxMinute
Tier   == {"free", "paid"}

\* "submit" is the accepted write of a send that is not a replay.
Kind   == {"send", "delete", "read", "submit"}

---------------------------------------------------------------------------
(* Windows, counters and blocks                                            *)

Start(m, t) == IF m \in {"month", "day"} THEN t - (t % Period) ELSE t
End(m, t)   == Start(m, t) + (IF m \in {"month", "day"} THEN Period ELSE 1)

Window == {w \in Metric \X Minute : Start(w[1], w[2]) = w[2]}

\* The metrics an operation is counted by, in the order they are charged: its
\* rate, and before that for a free account its share of a long period.
Metrics(profile, kind) ==
    LET rate  == IF kind = "submit" THEN "burst" ELSE kind
        share == IF kind = "submit" THEN "day" ELSE "month"
    IN  IF profile = "free" /\ kind # "delete" THEN <<share, rate>> ELSE <<rate>>

Enabled(profile, m) == profile = "free" \/ m \notin {"month", "day"}

Windows(profile, kind, t) ==
    [n \in DOMAIN Metrics(profile, kind) |->
        <<Metrics(profile, kind)[n], Start(Metrics(profile, kind)[n], t)>>]

Open(r) == req[r].at \notin {"idle", "done"}

\* A counter row that some other open transaction has charged is locked.
RowFree(r, w) == \A o \in Request \ {r} : Open(o) => w \notin req[o].charged

\* Mutant: a transaction waits for the lock it holds.
AccountFreeForAny(r) == \A o \in Request : Open(o) => ~req[o].locked

AccountFree(r) == \A o \in Request \ {r} : Open(o) => ~req[o].locked

SlotFree == Cardinality({o \in Request : Open(o) /\ req[o].slot}) < Slots

\* What the transaction reads: the committed units and its own charge.
Seen(r, w) == used[w] + Cardinality(req[r].charged \cap {w})

\* Mutant: a block of any operation applies.
AnyBlock(r, k, m) == blocks[<<k, m>>] > req[r].began

\* The block is active and applies to the operation under this profile.
Blocked(r, k, m) ==
    /\ blocks[<<k, m>>] > req[r].began
    /\ k = req[r].kind \/ (m = "month" /\ req[r].kind # "delete")
    /\ Enabled(req[r].profile, m)

---------------------------------------------------------------------------
(* Types and the initial state                                             *)

Step == {"idle", "slot", "profile", "blocks", "account", "windows", "charge",
         "commit", "lost", "done"}

Row ==
    [at : Step, op : Kind \ {"submit"}, kind : Kind, profile : Tier,
     began : Minute, clock : Minute, slot : BOOLEAN, locked : BOOLEAN,
     charged : SUBSET Window, denied : SUBSET (Kind \X Window),
     refused : BOOLEAN, cause : SUBSET Window, wrote : BOOLEAN, aborted : BOOLEAN]

Fresh(step, op, t) ==
    [at |-> step, op |-> op, kind |-> op, profile |-> "free", began |-> t,
     clock |-> 0, slot |-> FALSE, locked |-> FALSE, charged |-> {},
     denied |-> {}, refused |-> FALSE, cause |-> {}, wrote |-> FALSE, aborted |-> FALSE]

RequestsTypeOK ==
    /\ minute \in Minute /\ tier \in Tier
    /\ used \in [Window -> Nat] /\ touched \in [Window -> Minute]
    /\ blocks \in [Kind \X Metric -> Nat]
    /\ req \in [Request -> Row]
    /\ answer \in [Request -> {"none", "ok", "refused", "failed"}]
    /\ durable \subseteq Request
    /\ admitted \in [Window -> Nat]
    /\ pruned \in [Window -> Nat]

\* Earlier requests have left the first windows untouched or used them up.
RequestsInit ==
    /\ minute = 0 /\ tier \in Tier
    /\ \E full \in BOOLEAN :
          used = [w \in Window |-> IF full /\ w[2] = 0 THEN Limit[w[1]] ELSE 0]
    /\ touched = [w \in Window |-> 0]
    /\ blocks = [b \in Kind \X Metric |-> 0]
    /\ req = [r \in Request |-> Fresh("idle", "read", 0)]
    /\ answer = [r \in Request |-> "none"]
    /\ durable = {}
    /\ admitted = used
    /\ pruned = [w \in Window |-> 0]

---------------------------------------------------------------------------
(* A request up to its write                                               *)

At(r, step) == req[r].at = step

\* A statement of an open transaction: it changes nothing others can read.
Running == UNCHANGED <<minute, tier, tables, answer, kept, pruned>>

Goto(r, step) ==
    /\ req' = [req EXCEPT ![r].at = step]
    /\ Running

\* A refusal is a result: the transaction commits what it has charged.
Refuse(r, W) ==
    /\ req' = [req EXCEPT ![r].at = "commit", ![r].refused = TRUE, ![r].cause = W]
    /\ Running

\* The transaction starts and the credential is found to be usable.
Begin(r, op) ==
    /\ At(r, "idle")
    /\ req' = [req EXCEPT ![r] = Fresh(IF op = "send" THEN "slot" ELSE "profile", op, minute)]
    /\ Running

TakeSlot(r) ==
    /\ At(r, "slot")
    /\ IF SlotFree
       THEN /\ req' = [req EXCEPT ![r].at = "account", ![r].slot = TRUE]
            /\ Running
       ELSE Refuse(r, {})

\* Where a request goes with the account lock: a send has not read the tier.
LockAccount(r) ==
    /\ At(r, "account") /\ AccountFree(r)
    /\ req' = [req EXCEPT ![r].locked = TRUE,
                  ![r].at = IF req[r].op = "send" /\ ~req[r].locked THEN "profile"
                            ELSE "windows"]
    /\ Running

ReadProfile(r) ==
    /\ At(r, "profile")
    /\ req' = [req EXCEPT ![r].profile = tier, ![r].at = "blocks"]
    /\ Running

\* More than one window, or an accepted write: charged under the account lock.
Serialized(r) ==
    req[r].kind = "submit" \/ Len(Metrics(req[r].profile, req[r].kind)) > 1

CheckBlocks(r) ==
    /\ At(r, "blocks")
    /\ \/ \E k \in Kind, m \in Metric :
            /\ Blocked(r, k, m)
            /\ Refuse(r, {w \in Window : w[1] = m /\ End(m, w[2]) = blocks[<<k, m>>]})
       \/ /\ ~\E k \in Kind, m \in Metric : Blocked(r, k, m)
          /\ Goto(r, IF Serialized(r) THEN "account" ELSE "charge")

\* Mutant: the refusal is filed under the moment, not the window's start.
DenyNow(r, w) ==
    [req EXCEPT ![r].at = "commit", ![r].refused = TRUE, ![r].cause = {w},
                ![r].denied = @ \cup {<<req[r].kind, <<w[1], minute>>>>}]

\* The limit error is kept as a block until the window ends.
Deny(r, w) ==
    [req EXCEPT ![r].at = "commit", ![r].refused = TRUE, ![r].cause = {w},
                ![r].denied = @ \cup {<<req[r].kind, w>>}]

\* Under the lock: every window has a unit left, or none is charged.
CheckWindows(r) ==
    LET windows == Windows(req[r].profile, req[r].kind, minute)
        full    == {n \in DOMAIN windows : Seen(r, windows[n]) + 1 > Limit[windows[n][1]]}
    IN
    /\ At(r, "windows")
    /\ IF full = {}
       THEN req' = [req EXCEPT ![r].at = "charge", ![r].clock = minute]
       ELSE req' = Deny(r, windows[CHOOSE n \in full : \A o \in full : n <= o])
    /\ Running

\* Mutant: a window that was checked is not looked at again.
CheckedBefore(r, w) == ~Serialized(r) /\ Seen(r, w) + 1 > Limit[w[1]]

\* The counter that a charge returns is over the limit.
Over(r, w) == Seen(r, w) + 1 > Limit[w[1]]

\* Accepted writes look at the clock again; so does a charge without a check.
ChargeTime(r) ==
    IF Serialized(r) /\ req[r].kind # "submit" THEN req[r].clock ELSE minute

\* With its units charged a request does its work: a send that is no replay is
\* admitted once more, and a statement may fail with its error caught.
Writes(r, charged) ==
    LET paid == [req EXCEPT ![r].charged = charged, ![r].clock = 0] IN
    \/ /\ req[r].kind = "send"
       /\ req' = [paid EXCEPT ![r].kind = "submit", ![r].at = "blocks"]
    \/ \E failed \in BOOLEAN :
          req' = [paid EXCEPT ![r].at = "commit", ![r].wrote = ~failed, ![r].aborted = failed]

Due(r) == Windows(req[r].profile, req[r].kind, ChargeTime(r))

\* Windows are charged in order, up to the first that is over its limit.
LastDue(r) ==
    LET over == {n \in DOMAIN Due(r) : Over(r, Due(r)[n])} IN
    IF over = {} THEN Len(Due(r)) ELSE CHOOSE n \in over : \A o \in over : n <= o

\* Each row is locked from then on.
Charge(r) ==
    LET last    == Due(r)[LastDue(r)]
        charged == req[r].charged \cup {Due(r)[n] : n \in 1 .. LastDue(r)}
    IN
    /\ At(r, "charge")
    /\ \A n \in 1 .. LastDue(r) : RowFree(r, Due(r)[n])
    /\ \/ ~Over(r, last) /\ Writes(r, charged)
       \/ /\ Over(r, last)
          /\ req' = [Deny(r, last) EXCEPT ![r].charged = charged, ![r].clock = 0]
    /\ Running

---------------------------------------------------------------------------
(* The end of the transaction                                              *)

Close(r) == req' = [req EXCEPT ![r] = Fresh("done", "read", 0)]

Unit(r, w) == Cardinality(req[r].charged \cap {w})

\* Mutant: a block lasts for the longest period.
UntilPeriodEnds(w) == End("month", w[2])

\* A block lasts until its window ends.
Until(w) == End(w[1], w[2])

\* updated_at is the start of the transaction, also when it moves back.
Commits(r) ==
    /\ used' = [w \in Window |-> used[w] + Unit(r, w)]
    /\ touched' = [w \in Window |-> IF w \in req[r].charged THEN req[r].began ELSE touched[w]]
    /\ blocks' = [b \in Kind \X Metric |->
            IF \E d \in req[r].denied : d[1] = b[1] /\ d[2][1] = b[2]
            THEN LET d == CHOOSE d \in req[r].denied : d[1] = b[1] /\ d[2][1] = b[2]
                 IN  Until(d[2])
            ELSE blocks[b]]
    /\ durable' = durable \cup (IF req[r].wrote THEN {r} ELSE {})
    /\ admitted' = [w \in Window |-> admitted[w] + (IF req[r].wrote THEN Unit(r, w) ELSE 0)]

RollsBack == UNCHANGED <<tables, kept>>

\* Mutant: any answer to COMMIT is taken for success.
AnyTag(r) == TRUE

\* The server answers COMMIT of an aborted transaction with ROLLBACK.
Acknowledged(r) == ~req[r].aborted

Commit(r) ==
    /\ At(r, "commit")
    /\ IF req[r].aborted THEN RollsBack ELSE Commits(r)
    /\ answer' = [answer EXCEPT ![r] = IF ~Acknowledged(r) THEN "failed"
                                       ELSE IF req[r].refused THEN "refused" ELSE "ok"]
    /\ Close(r)
    /\ UNCHANGED <<minute, tier, pruned>>

\* A statement fails and the transaction is rolled back.
Fail(r) ==
    /\ Open(r) /\ ~At(r, "lost")
    /\ RollsBack
    /\ answer' = [answer EXCEPT ![r] = "failed"]
    /\ Close(r)
    /\ UNCHANGED <<minute, tier, pruned>>

\* The worker stops waiting for a statement, dies or loses the connection: no
\* rollback is sent, and the server ends the transaction later.  COMMIT, the
\* last statement, may have taken effect.
GiveUp(r) ==
    /\ Open(r) /\ ~At(r, "lost")
    /\ \/ req' = [req EXCEPT ![r] =
                [Fresh("lost", "read", 0) EXCEPT !.slot = req[r].slot, !.aborted = TRUE,
                     !.locked = req[r].locked, !.charged = req[r].charged]]
       \/ At(r, "commit") /\ req' = [req EXCEPT ![r].at = "lost"]
    /\ answer' = [answer EXCEPT ![r] = "failed"]
    /\ UNCHANGED <<minute, tier, tables, kept, pruned>>

ServerEnds(r) ==
    /\ At(r, "lost")
    /\ IF req[r].aborted THEN RollsBack ELSE Commits(r)
    /\ Close(r)
    /\ UNCHANGED <<minute, tier, answer, pruned>>

---------------------------------------------------------------------------
(* Time, billing and cleanup                                               *)

Tick ==
    /\ minute < MaxMinute
    /\ minute' = minute + 1
    /\ UNCHANGED <<tier, tables, req, answer, kept, pruned>>

Unlocked == \A r \in Request : Open(r) => ~req[r].locked

\* A billing event or a downgrade, under the account lock.
ChangeTier ==
    /\ Unlocked
    /\ tier' \in Tier \ {tier}
    /\ UNCHANGED <<minute, tables, req, answer, kept, pruned>>

\* Under the account lock, counters not touched since the oldest live window
\* began are deleted, and blocks that have ended.
Cleanup ==
    LET stale == {w \in Window : used[w] > 0 /\ touched[w] < Start("month", minute)} IN
    /\ Unlocked
    /\ \A w \in stale, r \in Request : Open(r) => w \notin req[r].charged
    /\ pruned' = [w \in Window |-> IF w \in stale THEN pruned[w] + used[w] ELSE pruned[w]]
    /\ used' = [w \in Window |-> IF w \in stale THEN 0 ELSE used[w]]
    /\ touched' = [w \in Window |-> IF w \in stale THEN 0 ELSE touched[w]]
    /\ blocks' = [b \in Kind \X Metric |-> IF blocks[b] <= minute THEN 0 ELSE blocks[b]]
    /\ UNCHANGED <<minute, tier, req, answer, kept>>

\* Another open transaction holds what this one needs next.
Waits(r) ==
    \/ At(r, "account") /\ ~AccountFree(r)
    \/ At(r, "charge") /\ \E n \in 1 .. LastDue(r) : ~RowFree(r, Due(r)[n])

Proceed(r) ==
    \/ TakeSlot(r) \/ LockAccount(r) \/ ReadProfile(r) \/ CheckBlocks(r)
    \/ CheckWindows(r) \/ Charge(r) \/ Commit(r) \/ ServerEnds(r)

RequestsNext ==
    \/ \E r \in Request, op \in Kind \ {"submit"} : Begin(r, op)
    \/ \E r \in Request : Proceed(r)
    \/ \E r \in Request : Fail(r)
    \/ \E r \in Request : GiveUp(r)
    \/ Tick
    \/ ChangeTier
    \/ Cleanup

RequestsSpec == RequestsInit /\ [][RequestsNext]_vars

---------------------------------------------------------------------------
(* Properties                                                              *)

\* A window admits no more than its limit, whatever requests run side by side
\* over the end of a minute or a change of tier, fail or are given up, but
\* for the units the cleanup has dropped (enforceAccountRequestLimits,
\* enforceAcceptedInputSubmissionLimits).
WithinLimits == \A w \in Window : admitted[w] <= Limit[w[1]] + pruned[w]

\* An answer is never wrong about the write: success is answered only for a
\* write that is durable, a refusal only without one (runProductTransaction).
AnswersAreTrue ==
    \A r \in Request :
        /\ answer[r] = "ok" => r \in durable
        /\ answer[r] = "refused" => r \notin durable

\* A request is refused only for a window that is used up, and a delete only
\* for deletes: it remains available when any other quota is exhausted.
RefusalsAreDeserved ==
    \A r \in Request : At(r, "commit") =>
        \A w \in req[r].cause :
            /\ Seen(r, w) + pruned[w] >= Limit[w[1]]
            /\ (w[1] = "delete") <=> (req[r].op = "delete")

\* A refusal commits its charges with its block: a block in force stands for
\* a window that is used up.
BlocksAreBacked ==
    \A k \in Kind, m \in Metric : blocks[<<k, m>>] > minute =>
        \E w \in Window :
            /\ w[1] = m /\ End(m, w[2]) = blocks[<<k, m>>]
            /\ used[w] + pruned[w] >= Limit[m]

\* Some open transaction is always able to go on: the account lock and the
\* counter rows are never waited for in a circle.
NoCircle ==
    (\E r \in Request : Open(r)) => \E r \in Request : Open(r) /\ ~Waits(r)
=============================================================================
