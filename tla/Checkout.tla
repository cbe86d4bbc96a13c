------------------------------ MODULE Checkout ------------------------------
(***************************************************************************)
(* createCheckoutSessionForAccount, step by step: each request reads and   *)
(* writes the account and its attempt in short transactions under the      *)
(* account lock and calls Stripe between them, so what it has read may be  *)
(* stale when it acts on it.  A commit may be acknowledged, acknowledged   *)
(* to nobody, or undone; a provider call may take effect without an        *)
(* answer; a worker may stop anywhere.  The account, the attempt row,      *)
(* Stripe and the webhook are those of Billing, whose specification this   *)
(* protocol implements: it reserves and attaches only where Billing does.  *)
(***************************************************************************)
EXTENDS Billing

CONSTANTS
    Request,    \* checkout requests of the account
    NoInterval, \* the interval of a request that has not begun or has ended
    Change      \* bound: the status changes Stripe reports of a subscription

ASSUME CheckoutConstants == Change \subseteq {"active", "canceling", "past_due", "canceled"}

VARIABLES
    req,        \* the local state of each request
    urls,       \* attempts whose session URL was returned to the person
    old,        \* attempts reserved more than a day ago
    forgotten,  \* Stripe: idempotency keys no longer remembered
    doubled     \* Stripe: attempts that got a second session

provider     == <<forgotten, doubled>>
checkoutVars == <<vars, req, urls, old, provider>>

---------------------------------------------------------------------------
(* The local state of a request                                            *)

Step ==
    {"idle", "read", "subscription", "confirm", "reserve", "reserveLost", "reuse",
     "dispatch", "create", "attach", "attachLost", "session", "expire",
     "expired", "final", "done"}

Local ==
    [at : Step, interval : Interval \cup {NoInterval}, seen : AttemptRow \cup {NoAttempt},
     sub : {NoSub} \cup Sub, ended : BOOLEAN, mine : {0} \cup Attempt]

At(r, step) == req[r].at = step

\* What a request has seen is gone when it ends.
Blank(step) ==
    [at |-> step, interval |-> NoInterval, seen |-> NoAttempt,
     sub |-> NoSub, ended |-> FALSE, mine |-> 0]

Goto(r, step) ==
    req' = [req EXCEPT ![r] = IF step = "done" THEN Blank("done")
                              ELSE [req[r] EXCEPT !.at = step]]

\* Mutant: the attempt a transaction finds is taken for the one seen before.
AnyAttempt(r) == TRUE

\* The transaction finds the attempt this request has seen.
SameAttempt(r) == attempt.id = req[r].seen.id

\* Where a request goes on with an attempt.
Onwards(row) ==
    CASE row = NoAttempt -> "reserve"
      [] row # NoAttempt /\ row.attached  -> "session"
      [] row # NoAttempt /\ ~row.attached -> "dispatch"

\* The attempt's session was paid for the subscription that has ended.
SpentSession(r) ==
    /\ req[r].ended
    /\ req[r].sub = req[r].seen.id
    /\ subs[req[r].seen.id] # "none" \/ req[r].seen.sub = req[r].sub

---------------------------------------------------------------------------
(* Reading the account and confirming the end of its subscription          *)

Begin(r, interval) ==
    /\ At(r, "idle")
    /\ req' = [req EXCEPT ![r].at = "read", ![r].interval = interval]
    /\ UNCHANGED <<vars, urls, old, provider>>

ReadState(r) ==
    /\ At(r, "read")
    /\ IF Live(account.billing)
       THEN Goto(r, "done")
       ELSE req' = [req EXCEPT ![r].seen = attempt, ![r].sub = account.sub,
                        ![r].ended = HasTerminal,
                        ![r].at = IF Eligible THEN Onwards(attempt)
                                  ELSE "subscription"]
    /\ UNCHANGED <<vars, urls, old, provider>>

\* Stripe reports a terminal status of the subscription the account had.
HasEnded(r) == Terminal(subs[req[r].sub])

RetrieveSubscription(r) ==
    /\ At(r, "subscription")
    /\ Goto(r, IF HasEnded(r) THEN "confirm" ELSE "done")
    /\ UNCHANGED <<vars, urls, old, provider>>

Confirm(r) ==
    /\ At(r, "confirm")
    /\ account' = IF account.sub = req[r].sub
                  THEN [account EXCEPT !.terminal = account.sub] ELSE account
    /\ IF account.sub = req[r].sub /\ ~Live(account.billing)
       THEN req' = [req EXCEPT ![r].seen = attempt, ![r].ended = TRUE,
                        ![r].at = Onwards(attempt)]
       ELSE Goto(r, "done")
    /\ UNCHANGED <<attempt, stripe, webhook, cleaned, urls, old, provider>>

---------------------------------------------------------------------------
(* Reserving an attempt in place of the one seen                           *)

\* Mutant: the reservation is returned without its session and subscription.
ReservedPartly(r, row) ==
    [req EXCEPT ![r].seen = [id |-> row.id, interval |-> row.interval],
                ![r].at = "read"]

\* After a reservation: create its session, or start again after a replacement.
Reserved(r, row) ==
    [req EXCEPT ![r].seen = row, ![r].mine = 0,
                ![r].at = IF req[r].seen = NoAttempt THEN Onwards(row) ELSE "read"]

\* Without a reservation: another request may have won the first one.
NotReserved(r) == IF req[r].seen = NoAttempt THEN "reuse" ELSE "done"

ReserveAttempt(r) ==
    /\ At(r, "reserve")
    /\ Eligible /\ SameAttempt(r)
    /\ attempt.id < MaxAttempts
    /\ LET row == [id |-> attempt.id + 1, interval |-> req[r].interval,
                   attached |-> FALSE, sub |-> NoSub]
       IN  \/ attempt' = row /\ req' = Reserved(r, row)
           \/ /\ attempt' = row
              /\ req' = [req EXCEPT ![r].at = "reserveLost", ![r].mine = row.id]
           \/ /\ UNCHANGED attempt
              /\ req' = [req EXCEPT ![r].at = "reserveLost", ![r].mine = 0]
    /\ UNCHANGED <<account, stripe, webhook, cleaned, urls, old, provider>>

ReserveRefused(r) ==
    /\ At(r, "reserve")
    /\ ~(Eligible /\ SameAttempt(r))
    /\ Goto(r, NotReserved(r))
    /\ UNCHANGED <<vars, urls, old, provider>>

\* The commit was not acknowledged: a new transaction, which may fail as well,
\* looks for the reservation.
RereadReservation(r) ==
    /\ At(r, "reserveLost")
    /\ \/ /\ Eligible /\ attempt # NoAttempt /\ attempt.id = req[r].mine
          /\ req' = Reserved(r, attempt)
       \/ Goto(r, NotReserved(r))
    /\ UNCHANGED <<vars, urls, old, provider>>

Reuse(r) ==
    /\ At(r, "reuse")
    /\ IF Eligible /\ attempt # NoAttempt
       THEN req' = [req EXCEPT ![r].seen = attempt, ![r].at = Onwards(attempt),
                               ![r].mine = 0]
       ELSE Goto(r, "done")
    /\ UNCHANGED <<vars, urls, old, provider>>

---------------------------------------------------------------------------
(* Creating and attaching the session                                      *)

\* Mutant: an attempt of any age is dispatched.
WithinAnyTime(r) == TRUE

\* The idempotency key is replayed only within its original day.
WithinRetention(r) == req[r].seen.id \notin old

Dispatch(r) ==
    /\ At(r, "dispatch")
    /\ Goto(r, IF Eligible /\ SameAttempt(r) /\ WithinRetention(r)
               THEN "create" ELSE "done")
    /\ UNCHANGED <<vars, urls, old, provider>>

\* The answer, which names the one session of the key, may be lost.
Create(r) ==
    /\ At(r, "create")
    /\ LET a == req[r].seen.id
       IN  /\ doubled' = doubled \cup {b \in {a} \cap forgotten : checkout[b] # "none"}
           /\ checkout' = [checkout EXCEPT ![a] = IF @ = "none" THEN "open" ELSE @]
    /\ Goto(r, "attach") \/ Goto(r, "done")
    /\ UNCHANGED <<account, attempt, subs, log, second, webhook, cleaned, urls,
                   old, forgotten>>

AttachSession(r) ==
    /\ At(r, "attach")
    /\ \/ /\ Eligible /\ SameAttempt(r)
          /\ attempt' = [attempt EXCEPT !.attached = TRUE]
          /\ Goto(r, "session") \/ Goto(r, "attachLost")
       \/ Goto(r, "attachLost") /\ UNCHANGED attempt
    /\ UNCHANGED <<account, stripe, webhook, cleaned, urls, old, provider>>

RereadAttachment(r) ==
    /\ At(r, "attachLost")
    /\ Goto(r, IF Eligible /\ SameAttempt(r) /\ attempt.attached
               THEN "session" ELSE "done")
    /\ UNCHANGED <<vars, urls, old, provider>>

---------------------------------------------------------------------------
(* Retrieving, expiring and returning the session                          *)

\* Mutant: an open session of another interval is replaced without expiring it.
AfterRetrievalUnexpired(r) ==
    CASE checkout[req[r].seen.id] = "complete" ->
           (IF SpentSession(r) THEN "reserve" ELSE "done")
      [] checkout[req[r].seen.id] = "expired" -> "reserve"
      [] checkout[req[r].seen.id] \in {"none", "open"} ->
           (IF req[r].seen.interval # req[r].interval \/ SpentSession(r)
            THEN "reserve" ELSE "final")

AfterRetrieval(r) ==
    CASE checkout[req[r].seen.id] = "complete" ->
           (IF SpentSession(r) THEN "reserve" ELSE "done")
      [] checkout[req[r].seen.id] = "expired" -> "reserve"
      [] checkout[req[r].seen.id] \in {"none", "open"} ->
           (IF req[r].seen.interval # req[r].interval \/ SpentSession(r)
            THEN "expire" ELSE "final")

RetrieveSession(r) ==
    /\ At(r, "session")
    /\ Goto(r, AfterRetrieval(r))
    /\ UNCHANGED <<vars, urls, old, provider>>

\* The session expires, was completed first, or the call has no effect.
ExpireSession(r) ==
    /\ At(r, "expire")
    /\ Goto(r, "expired")
    /\ SessionExpires(req[r].seen.id) \/ UNCHANGED vars
    /\ UNCHANGED <<urls, old, provider>>

AfterExpiry(r) ==
    CASE checkout[req[r].seen.id] = "complete" -> "done"
      [] checkout[req[r].seen.id] = "expired"  -> "reserve"
      [] checkout[req[r].seen.id] \in {"none", "open"} ->
           (IF req[r].seen.interval # req[r].interval THEN "done" ELSE "final")

\* Expiry is believed only when a new retrieval shows it.
RetrieveExpired(r) ==
    /\ At(r, "expired")
    /\ Goto(r, AfterExpiry(r))
    /\ UNCHANGED <<vars, urls, old, provider>>

ReturnUrl(r) ==
    /\ At(r, "final")
    /\ urls' = IF Eligible /\ SameAttempt(r) /\ attempt.attached
               THEN urls \cup {req[r].seen.id} ELSE urls
    /\ Goto(r, "done")
    /\ UNCHANGED <<vars, old, provider>>

\* A provider or database error, or the end of the worker, ends a request.
Abandon(r) ==
    /\ req[r].at \notin {"idle", "done"}
    /\ Goto(r, "done")
    /\ UNCHANGED <<vars, urls, old, provider>>

---------------------------------------------------------------------------
(* Time and Stripe's memory                                                *)

DayPasses ==
    /\ attempt # NoAttempt
    /\ old' = old \cup {attempt.id}
    /\ UNCHANGED <<vars, req, urls, provider>>

\* Keys are kept for a day at least, and while a call that was checked is made.
KeyForgotten(a) ==
    /\ a \in old
    /\ \A r \in Request : ~(At(r, "create") /\ req[r].seen.id = a)
    /\ forgotten' = forgotten \cup {a}
    /\ UNCHANGED <<vars, req, urls, old, doubled>>

\* A person pays where a URL was returned.
Payments == \E a \in urls : PayFails(a) \/ Pay(a)

Background ==
    /\ \/ Payments
       \/ \E a \in Attempt : SessionExpires(a)
       \/ \E s \in Sub, status \in Change : StatusChange(s, status)
       \/ WebhookRuns
       \/ Downgrade
    /\ UNCHANGED <<req, urls, old, provider>>

RequestStep(r) ==
    \/ \E i \in Interval : Begin(r, i)
    \/ ReadState(r) \/ RetrieveSubscription(r) \/ Confirm(r)
    \/ ReserveAttempt(r) \/ ReserveRefused(r) \/ RereadReservation(r) \/ Reuse(r)
    \/ Dispatch(r) \/ Create(r) \/ AttachSession(r) \/ RereadAttachment(r)
    \/ RetrieveSession(r) \/ ExpireSession(r) \/ RetrieveExpired(r) \/ ReturnUrl(r)
    \/ Abandon(r)

CheckoutInit ==
    /\ Init
    /\ req = [r \in Request |-> Blank("idle")]
    /\ urls = {}
    /\ old = {}
    /\ forgotten = {}
    /\ doubled = {}

CheckoutNext ==
    \/ \E r \in Request : RequestStep(r)
    \/ Background
    \/ DayPasses
    \/ \E a \in Attempt : KeyForgotten(a)

CheckoutSpec == CheckoutInit /\ [][CheckoutNext]_checkoutVars

---------------------------------------------------------------------------
(* Properties                                                              *)

\* Every variable has its type, those of Billing too: what the requests and the
\* provider do to the rows and the sessions leaves them well formed.
CheckoutTypeOK ==
    /\ TypeOK
    /\ req \in [Request -> Local]
    /\ urls \subseteq Attempt
    /\ old \subseteq Attempt
    /\ forgotten \subseteq old
    /\ doubled \subseteq Attempt

\* The protocol implements the atomic specification: whatever a request has seen
\* before, it replaces an attempt only when no one can pay its session any more or
\* its subscription has ended, and confirms an end only when Stripe reports it.
ImplementsBilling == Spec

\* "Leaving only the yearly session usable": of the URLs handed out, at most one
\* leads to a session that can still be paid.
OneOpenUrl == \A a, b \in urls :
    (checkout[a] = "open" /\ checkout[b] = "open") => a = b

\* "Never replay outside the ORIGINAL window": an attempt never gets a second
\* session because Stripe has forgotten its key.
OneSessionPerAttempt == doubled = {}
=============================================================================
