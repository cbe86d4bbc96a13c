------------------------------ MODULE Billing ------------------------------
(***************************************************************************)
(* The billing state of one hosted account against Stripe: the account's   *)
(* projection of its subscription, the one current checkout attempt, the   *)
(* webhook deliveries that carry Stripe's events in any order and more     *)
(* than once, and the downgrade of an expired grace.  Reserving and        *)
(* attaching an attempt are single steps here; the request protocol that   *)
(* takes several transactions and provider calls for them is Checkout.     *)
(*                                                                         *)
(* One attempt has one Stripe session and at most one subscription, so the *)
(* attempt's number names all three.  The account's customer is the same   *)
(* in every event and is left out.  Stripe itself is external: its actions *)
(* are what the handlers are written against.                              *)
(***************************************************************************)
EXTENDS Integers, FiniteSets, Sequences

CONSTANTS
    Interval,    \* billing intervals on offer
    Stranger,    \* ids of subscriptions that no attempt asked for
    MaxAttempts, \* bound: checkout attempts ever reserved
    MaxEvents,   \* bound: events Stripe ever emits
    MaxSecond,   \* bound: seconds of Stripe's clock
    MaxWebhooks, \* bound: webhook transactions at a time
    MaxFailures  \* bound: webhook transactions that roll back

ASSUME BillingConstants ==
    /\ MaxAttempts \in Nat
    /\ Stranger \subseteq Nat \ 0 .. MaxAttempts
    /\ MaxEvents \in Nat
    /\ MaxSecond \in Nat \ {0}
    /\ MaxWebhooks \in Nat
    /\ MaxFailures \in Nat

VARIABLES
    account,  \* the billing columns of agent_outbox_accounts
    attempt,  \* its row of agent_outbox_billing_checkout_attempts
    checkout, \* Stripe: the session of each attempt
    subs,     \* Stripe: the status of each subscription
    log,      \* Stripe: the events emitted so far
    second,   \* Stripe: the clock that stamps them
    ledger,   \* agent_outbox_stripe_webhook_events
    inflight, \* webhook transactions that hold their ledger row
    receipts, \* agent_outbox_stripe_webhook_receipt_order_seq
    failures, \* webhook transactions that have rolled back
    applied,  \* history: the events that changed the account
    cleaned   \* history: a downgrade has cleared the account's event ordering

stripe  == <<checkout, subs, log, second>>
webhook == <<ledger, inflight, receipts, failures, applied>>
vars    == <<account, attempt, stripe, webhook, cleaned>>

---------------------------------------------------------------------------
Attempt  == 1 .. MaxAttempts
Sub      == Attempt \cup Stranger
NoSub    == 0
NoStamp  == 0

BillingStatus == {"not_applicable", "active", "grace", "past_due", "canceled"}
Live(billing) == billing \in {"active", "grace", "past_due"}

\* canceled stands for the terminal statuses; past_due for the other unpaid ones
\* and for invoice.payment_failed, which is handled alike.
EventStatus == {"checkout_completed", "active", "canceling", "past_due", "canceled"}
Terminal(status) == status = "canceled"

NoAttempt  == [id |-> 0]
AttemptRow ==
    [id : Attempt, interval : Interval, attached : BOOLEAN, sub : {NoSub} \cup Sub]

Event == [sub : Sub, attempt : {0} \cup Attempt, status : EventStatus,
          created : 1 .. MaxSecond]

Account ==
    [tier : {"hosted_free", "hosted_paid"}, billing : BillingStatus,
     grace : BOOLEAN, sub : {NoSub} \cup Sub,
     status : {"none"} \cup EventStatus, terminal : {NoSub} \cup Sub,
     at : Nat, order : Nat]

\* Mutant: a subscription is taken for ended when the billing status is not live.
EndedByBilling == account.sub # NoSub /\ ~Live(account.billing)

\* Terminal proof counts only for the account's current subscription.
HasTerminal ==
    /\ account.sub # NoSub
    /\ account.terminal = account.sub \/ Terminal(account.status)

---------------------------------------------------------------------------
(* Stripe: sessions, subscriptions and the events they emit                *)

\* The events of one change carry one second, that of the last change or the next.
Emit(s, statuses) ==
    /\ Len(log) + Len(statuses) <= MaxEvents
    /\ second' \in {second, second + 1} \cap 1 .. MaxSecond
    /\ log' = log \o [n \in DOMAIN statuses |->
           [sub |-> s, attempt |-> IF s \in Stranger THEN 0 ELSE s,
            status |-> statuses[n], created |-> second']]

\* A first payment fails: the subscription exists while the session stays open.
PayFails(a) ==
    /\ checkout[a] = "open"
    /\ subs[a] = "none"
    /\ subs' = [subs EXCEPT ![a] = "past_due"]
    /\ Emit(a, <<"past_due">>)
    /\ UNCHANGED <<account, attempt, checkout, webhook, cleaned>>

\* No other subscription emits an event in the second of a payment.
Pay(a) ==
    /\ checkout[a] = "open"
    /\ subs[a] # "canceled"
    /\ checkout' = [checkout EXCEPT ![a] = "complete"]
    /\ subs' = [subs EXCEPT ![a] = "active"]
    /\ Emit(a, <<"checkout_completed", "active">>)
    /\ \A i \in DOMAIN log : log[i].sub # a => log[i].created < second'
    /\ UNCHANGED <<account, attempt, webhook, cleaned>>

\* Sessions expire on request or by age; an unpaid subscription ends with them.
SessionExpires(a) ==
    /\ checkout[a] = "open"
    /\ checkout' = [checkout EXCEPT ![a] = "expired"]
    /\ IF subs[a] = "past_due"
       THEN /\ subs' = [subs EXCEPT ![a] = "canceled"]
            /\ Emit(a, <<"canceled">>)
       ELSE UNCHANGED <<subs, log, second>>
    /\ UNCHANGED <<account, attempt, webhook, cleaned>>

\* Renewal, failed renewal, cancellation at period end or at once.
StatusChange(s, status) ==
    /\ subs[s] \notin {"none", "canceled", status}
    /\ s \in Attempt => checkout[s] = "complete"
    /\ subs' = [subs EXCEPT ![s] = status]
    /\ Emit(s, <<status>>)
    /\ UNCHANGED <<account, attempt, checkout, webhook, cleaned>>

\* An operator subscribes the account in Stripe's own dashboard.
StrangerStarts(s) ==
    /\ subs[s] = "none"
    /\ subs' = [subs EXCEPT ![s] = "active"]
    /\ Emit(s, <<"active">>)
    /\ UNCHANGED <<account, attempt, checkout, webhook, cleaned>>

---------------------------------------------------------------------------
(* Webhook                                                                 *)

\* Mutant: a delivery is not looked up among those already processed.
ReceiveAny(i) == i \in DOMAIN log

\* The unique event id: a second delivery waits for the first to end.
Claimable(i) ==
    /\ i \in DOMAIN log
    /\ i \notin ledger
    /\ \A d \in inflight : d.event # i

\* The ledger row is inserted and draws the event's receipt order.
Receive(i) ==
    /\ Claimable(i)
    /\ Cardinality(inflight) < MaxWebhooks
    /\ receipts' = receipts + 1
    /\ inflight' = inflight \cup {[event |-> i, order |-> receipts + 1]}
    /\ UNCHANGED <<account, attempt, stripe, ledger, failures, applied, cleaned>>

\* Mutant: an ended subscription of the account may come back.
AuthorizedWhenEnded(e) ==
    LET known == attempt # NoAttempt /\ e.attempt = attempt.id
    IN  /\ e.attempt # 0 => known
        /\ IF account.sub = e.sub THEN TRUE
           ELSE IF account.sub # NoSub
                THEN HasTerminal /\ known /\ ~Terminal(e.status)
                ELSE ~Terminal(e.status) /\ (attempt # NoAttempt => known)

\* Mutant: only the event of a session that is already attached is authorized.
AuthorizedWhenAttached(e) ==
    /\ attempt # NoAttempt /\ e.attempt = attempt.id /\ attempt.attached
    /\ IF account.sub = e.sub THEN HasTerminal => Terminal(e.status)
       ELSE ~Terminal(e.status) /\ (account.sub # NoSub => HasTerminal)

\* The event speaks for this account: of its attempt if it names one, of its
\* subscription, or of a new one that may take the place of what it had.
Authorized(e) ==
    LET known == attempt # NoAttempt /\ e.attempt = attempt.id
    IN  /\ e.attempt # 0 => known
        /\ IF account.sub = e.sub THEN HasTerminal => Terminal(e.status)
           ELSE IF account.sub # NoSub
                THEN HasTerminal /\ known /\ ~Terminal(e.status)
                ELSE ~Terminal(e.status) /\ (attempt # NoAttempt => known)

\* Mutant: the order of the events is not looked at.
AnyOrder(e, order) == TRUE

\* Not older than the last event applied; terminal truth wins its own second.
InOrder(e, order) ==
    \/ account.at = NoStamp
    \/ account.at < e.created
    \/ /\ account.at = e.created
       /\ account.order <= order \/ Terminal(e.status)

\* billingTransitionForSubscription and the columns both statements set.
BillingOf(status) ==
    CASE status \in {"checkout_completed", "active"}   -> "active"
      [] status = "canceling"                          -> "grace"
      [] status = "past_due"                           -> "past_due"
      [] status = "canceled"                           -> "canceled"

\* A grace that was set may be over at any later time, which is all Downgrade needs.
Projected(e, order) ==
    [tier |-> IF BillingOf(e.status) = "active" THEN "hosted_paid" ELSE account.tier,
     billing |-> BillingOf(e.status), grace |-> BillingOf(e.status) # "active",
     sub |-> e.sub,
     status |-> e.status,
     terminal |-> IF Terminal(e.status) THEN e.sub ELSE account.terminal,
     at |-> e.created, order |-> order]

\* retainAuthorizedAttempt: only a checkout event names the session.
Retained(e) ==
    IF e.attempt = 0 THEN attempt
    ELSE [attempt EXCEPT !.sub = e.sub,
                         !.attached = @ \/ e.status = "checkout_completed"]

\* The rest of the transaction, under the account's row lock, and its commit.
Apply(d) ==
    LET e == log[d.event]
    IN  /\ inflight' = inflight \ {d}
        /\ ledger' = ledger \cup {d.event}
        /\ IF Authorized(e) /\ InOrder(e, d.order)
           THEN /\ account' = Projected(e, d.order)
                /\ attempt' = Retained(e)
                /\ applied' = applied \cup {d.event}
           ELSE UNCHANGED <<account, attempt, applied>>
        /\ UNCHANGED <<stripe, receipts, failures, cleaned>>

\* A failed transaction keeps neither the ledger row nor the change.
Fail(d) ==
    /\ failures < MaxFailures
    /\ failures' = failures + 1
    /\ inflight' = inflight \ {d}
    /\ UNCHANGED <<account, attempt, stripe, ledger, receipts, applied, cleaned>>

---------------------------------------------------------------------------
(* Checkout attempts and the downgrade                                     *)

\* assertCheckoutEligible
Eligible == ~Live(account.billing) /\ (account.sub # NoSub => HasTerminal)

\* An attempt is replaced only when its session can never be paid any more, or
\* was paid for the subscription that the account has and that has ended.
Replaceable ==
    attempt # NoAttempt =>
        \/ checkout[attempt.id] = "expired"
        \/ /\ checkout[attempt.id] = "complete"
           /\ account.sub = attempt.id
           /\ HasTerminal

Reserve(interval) ==
    /\ Eligible
    /\ Replaceable
    /\ attempt.id < MaxAttempts
    /\ attempt' = [id |-> attempt.id + 1, interval |-> interval,
                   attached |-> FALSE, sub |-> NoSub]
    /\ UNCHANGED <<account, stripe, webhook, cleaned>>

\* The provider's session is created once per attempt, whoever asks for it.
SessionOpens(a) ==
    /\ attempt.id = a
    /\ checkout[a] = "none"
    /\ checkout' = [checkout EXCEPT ![a] = "open"]
    /\ UNCHANGED <<account, attempt, subs, log, second, webhook, cleaned>>

Attach ==
    /\ Eligible
    /\ attempt # NoAttempt
    /\ checkout[attempt.id] # "none"
    /\ attempt' = [attempt EXCEPT !.attached = TRUE]
    /\ UNCHANGED <<account, stripe, webhook, cleaned>>

\* The provider has confirmed that the account's subscription has ended.
ConfirmEnded ==
    /\ account.sub # NoSub
    /\ Terminal(subs[account.sub])
    /\ account' = [account EXCEPT !.terminal = account.sub]
    /\ UNCHANGED <<attempt, stripe, webhook, cleaned>>

\* The columns change without a receipt order: the trigger clears the ordering.
Downgrade ==
    /\ account.tier = "hosted_paid"
    /\ account.billing \in {"grace", "past_due", "canceled"}
    /\ account.grace
    /\ account' = [account EXCEPT !.tier = "hosted_free",
                       !.billing = "not_applicable", !.grace = FALSE,
                       !.status = "none", !.at = NoStamp, !.order = 0]
    /\ cleaned' = TRUE
    /\ UNCHANGED <<attempt, stripe, webhook>>

---------------------------------------------------------------------------
Init ==
    /\ account = [tier |-> "hosted_free", billing |-> "not_applicable",
                  grace |-> FALSE, sub |-> NoSub, status |-> "none",
                  terminal |-> NoSub, at |-> NoStamp, order |-> 0]
    /\ attempt = NoAttempt
    /\ checkout = [a \in Attempt |-> "none"]
    /\ subs = [s \in Sub |-> "none"]
    /\ log = <<>>
    /\ second = 1
    /\ ledger = {}
    /\ inflight = {}
    /\ receipts = 0
    /\ failures = 0
    /\ applied = {}
    /\ cleaned = FALSE

StripeActs ==
    \/ \E a \in Attempt : PayFails(a) \/ Pay(a) \/ SessionExpires(a)
    \/ \E s \in Sub, status \in {"active", "canceling", "past_due", "canceled"} :
           StatusChange(s, status)
    \/ \E s \in Stranger : StrangerStarts(s)

WebhookRuns ==
    \/ \E i \in DOMAIN log : Receive(i)
    \/ \E d \in inflight : Apply(d) \/ Fail(d)

Next ==
    \/ StripeActs
    \/ WebhookRuns
    \/ \E i \in Interval : Reserve(i)
    \/ \E a \in Attempt : SessionOpens(a)
    \/ Attach \/ ConfirmEnded
    \/ Downgrade

Spec == Init /\ [][Next]_vars

\* Stripe delivers an event until a delivery is answered; transactions end.
Delivery ==
    /\ \A i \in 1 .. MaxEvents : WF_vars(Receive(i))
    /\ \A i \in 1 .. MaxEvents : WF_vars(\E d \in inflight : d.event = i /\ Apply(d))

FairSpec == Spec /\ Delivery

---------------------------------------------------------------------------
(* Properties                                                              *)

\* Every variable has its type, and a claimed or processed event was emitted.
TypeOK ==
    /\ account \in Account
    /\ attempt \in AttemptRow \cup {NoAttempt}
    /\ checkout \in [Attempt -> {"none", "open", "complete", "expired"}]
    /\ subs \in [Sub -> {"none", "active", "canceling", "past_due", "canceled"}]
    /\ log \in Seq(Event)
    /\ second \in 1 .. MaxSecond
    /\ ledger \subseteq DOMAIN log
    /\ inflight \subseteq [event : DOMAIN log, order : 1 .. receipts]
    /\ receipts \in Nat
    /\ failures \in 0 .. MaxFailures
    /\ applied \subseteq ledger
    /\ cleaned \in BOOLEAN

\* Test "same-created-second terminal truth cannot revive": once the account's
\* subscription is known to have ended, no late or repeated event and no cleanup
\* makes that subscription active again or forgets that it ended.
TerminalIsFinal ==
    [][(account.terminal # NoSub /\ account.terminal = account.sub
            /\ account'.sub = account.sub) =>
          /\ account'.terminal = account'.sub
          /\ account'.billing = "active" => account.billing = "active"]_vars

\* Every event has been answered and no delivery is under way.
Drained == ledger = DOMAIN log /\ inflight = {}

\* Two events of one second say the same, so that their order does not matter.
Unambiguous ==
    \A i, j \in DOMAIN log : log[i].created = log[j].created =>
        log[i].sub = log[j].sub /\ BillingOf(log[i].status) = BillingOf(log[j].status)

\* "The database remains the canonical source for app tier and billing status
\* after webhook synchronization": when all events have been processed, in whatever
\* order they came, a purchased subscription that lives is the account's, and the
\* account shows its state unless a downgrade has cleared the event ordering.
InSync ==
    (Drained /\ Unambiguous) =>
        \A a \in Attempt :
            (checkout[a] = "complete" /\ Live(BillingOf(subs[a]))) =>
                /\ account.sub = a
                /\ ~cleaned => account.billing = BillingOf(subs[a])

\* A delivery of an event that changed the account changes it no second time, also
\* after a downgrade has cleared the ordering that would reject it as old.
AppliedOnce ==
    [][\A d \in inflight :
          (d \notin inflight' /\ account' # account) => d.event \notin applied]_vars

\* No interleaving of purchases, webhooks and downgrades sells an account two
\* subscriptions at a time, even when the account has stopped showing the first.
OneLiveSubscription ==
    \A a, b \in Attempt :
        ({subs[a], subs[b]} \cap {"none", "canceled"} = {}) => a = b

\* docs/architecture.md: "a distinct older event is retained in the idempotency
\* ledger but cannot overwrite newer billing state."
OlderEventsNeverOverwrite ==
    [][\A i \in applied' \ applied, j \in applied :
          log[j].created <= log[i].created]_vars

\* A paid checkout reaches the account: the account takes over its subscription,
\* unless the subscription ends first.
PurchaseActivates ==
    \A a \in Attempt :
        (checkout[a] = "complete") ~> (account.sub = a \/ Terminal(subs[a]))
=============================================================================
