--------------------------- MODULE CheckoutProofs ---------------------------
(***************************************************************************)
(* The checkout protocol implements Billing, proved for any number of      *)
(* requests, attempts, events and failures, and the invariants of Checkout *)
(* that rest on it.                                                        *)
(*                                                                         *)
(* A request acts on what it has read, which others may have changed.      *)
(* What it still knows when it acts is in Known: Stripe's outcomes are     *)
(* final, the attempt it has seen is the current one as long as its        *)
(* session was never created, and the subscription of the current attempt  *)
(* stays the account's once it is.                                         *)
(***************************************************************************)
EXTENDS Checkout, BillingProofs

\* Where a request holds an attempt that exists.
WithAttempt ==
    {"dispatch", "create", "attach", "attachLost", "session", "expire",
     "expired", "final"}

\* What a request with the local state q knows of the account and of Stripe.
Knows(q) ==
    /\ q.at \notin {"idle", "done"} => q.interval \in Interval
    /\ q.sub \in Attempt => checkout[q.sub] # "none"
    /\ attempt # NoAttempt /\ q.sub = attempt.id => account.sub = attempt.id
    /\ q.at \in {"subscription", "confirm"} => q.sub # NoSub
    /\ q.at = "confirm" => subs[q.sub] = "canceled"
    /\ q.at \in WithAttempt => q.seen # NoAttempt
    /\ q.at = "create" /\ checkout[q.seen.id] = "none" => q.seen.id = attempt.id
    /\ q.at = "create" => q.seen.id \notin forgotten
    /\ q.at \in {"attach", "attachLost"} => checkout[q.seen.id] # "none"
    /\ q.at = "reserve" /\ q.seen # NoAttempt =>
           \/ checkout[q.seen.id] = "expired"
           \/ checkout[q.seen.id] = "complete" /\ q.sub = q.seen.id

\* The account's subscription was bought in a session.
AccountBought == account.sub \in Attempt => checkout[account.sub] # "none"

CheckoutInv ==
    /\ BillingInv
    /\ CheckoutTypeOK
    /\ AccountBought
    /\ \A r \in Request : Knows(req[r])
    /\ doubled = {}

---------------------------------------------------------------------------
(* What a step of Billing leaves true                                      *)

\* The outcome of a session and the end of a subscription are final.
LEMMA OutcomesAreFinal ==
    ASSUME BillingInv, [Next]_vars
    PROVE  /\ \A a \in Attempt : checkout[a] # "none" => checkout'[a] # "none"
           /\ \A a \in Attempt : checkout[a] \in {"expired", "complete"} =>
                 checkout'[a] = checkout[a]
           /\ \A s \in Sub : subs[s] = "canceled" => subs'[s] = "canceled"
<1>1. /\ checkout \in [Attempt -> {"none", "open", "complete", "expired"}]
      /\ subs \in [Sub -> {"none", "active", "canceling", "past_due", "canceled"}]
  BY DEF BillingInv, TypeOK
<1>2. ASSUME NEW a \in Attempt, PayFails(a) \/ Pay(a) \/ SessionExpires(a)
      PROVE  /\ \A b \in Attempt : checkout'[b] # checkout[b] =>
                   checkout[b] = "open" /\ checkout'[b] # "none"
             /\ \A s \in Sub : subs[s] = "canceled" => subs'[s] = "canceled"
  <2>1. CASE PayFails(a)
    BY <1>1, <2>1 DEF PayFails, Sub
  <2>2. CASE Pay(a)
    BY <1>1, <2>2 DEF Pay, Sub
  <2>3. CASE SessionExpires(a)
    BY <1>1, <2>3 DEF SessionExpires, Sub
  <2> QED
    BY <1>2, <2>1, <2>2, <2>3
<1>3. CASE StripeActs
  <2>1. ASSUME NEW s \in Sub, NEW x, StatusChange(s, x)
        PROVE  checkout' = checkout /\
               \A t \in Sub : subs[t] = "canceled" => subs'[t] = "canceled"
    BY <1>1, <2>1 DEF StatusChange
  <2>2. ASSUME NEW s \in Stranger, StrangerStarts(s)
        PROVE  checkout' = checkout /\
               \A t \in Sub : subs[t] = "canceled" => subs'[t] = "canceled"
    BY <1>1, <2>2 DEF StrangerStarts, Sub
  <2> QED
    BY <1>2, <1>3, <2>1, <2>2 DEF StripeActs
<1>4. ASSUME NEW a \in Attempt, SessionOpens(a)
      PROVE  subs' = subs /\ \A b \in Attempt :
                checkout'[b] # checkout[b] => checkout[b] = "none" /\ checkout'[b] # "none"
  BY <1>1, <1>4 DEF SessionOpens
<1>5. WebhookRuns \/ Attach \/ ConfirmEnded \/ Downgrade \/ UNCHANGED vars
          \/ (\E i \in Interval : Reserve(i))
         => checkout' = checkout /\ subs' = subs
  BY DEF WebhookRuns, Receive, Apply, Fail, Attach, ConfirmEnded, Downgrade, Reserve,
     vars, stripe
<1> QED
  BY <1>3, <1>4, <1>5 DEF Next

\* The current attempt is replaced only by the next one, which nobody has seen,
\* and only when its session has been created.
LEMMA AttemptMoves ==
    ASSUME BillingInv, [Next]_vars
    PROVE  \/ attempt'.id = attempt.id
           \/ /\ attempt'.id = attempt.id + 1 /\ attempt'.id \in Attempt
              /\ account' = account /\ checkout' = checkout
              /\ checkout[attempt'.id] = "none"
              /\ attempt # NoAttempt => checkout[attempt.id] # "none"
<1>1. TypeOK /\ StripeInv
  BY DEF BillingInv
<1>2. /\ attempt.id \in 0 .. MaxAttempts
      /\ attempt # NoAttempt <=> attempt.id # 0
      /\ attempt # NoAttempt => attempt \in AttemptRow
  BY <1>1, AttemptTypes
<1>3. ASSUME NEW i \in Interval, Reserve(i)
      PROVE  /\ attempt'.id = attempt.id + 1 /\ attempt'.id \in Attempt
             /\ account' = account /\ checkout' = checkout
             /\ checkout[attempt'.id] = "none"
             /\ attempt # NoAttempt => checkout[attempt.id] # "none"
  <2>1. attempt'.id = attempt.id + 1 /\ account' = account /\ checkout' = checkout
    BY <1>3 DEF Reserve, stripe
  <2>2. attempt'.id \in Attempt /\ attempt.id < attempt'.id
    BY <1>2, <1>3, <2>1, BillingConstants DEF Reserve, Attempt
  <2>3. attempt # NoAttempt => checkout[attempt.id] # "none"
    BY <1>3 DEF Reserve, Replaceable
  <2> QED
    BY <1>1, <2>1, <2>2, <2>3 DEF StripeInv
<1>4. ASSUME NEW d \in inflight, Apply(d)
      PROVE  attempt'.id = attempt.id
  <2> DEFINE e == log[d.event]
  <2>1. attempt' = attempt \/ (Authorized(e) /\ attempt' = Retained(e))
    BY <1>4 DEF Apply
  <2> HIDE DEF e
  <2>2. e.attempt = 0 => Retained(e) = attempt
    BY DEF Retained
  <2>3. Authorized(e) /\ e.attempt # 0 => attempt \in AttemptRow
    BY <1>2 DEF Authorized
  <2>4. attempt \in AttemptRow => Retained(e).id = attempt.id
    BY DEF Retained, AttemptRow
  <2> QED
    BY <2>1, <2>2, <2>3, <2>4
<1>5. Attach => attempt'.id = attempt.id
  BY <1>2 DEF Attach, AttemptRow
<1>6. WebhookRuns => attempt'.id = attempt.id
  BY <1>4 DEF WebhookRuns, Receive, Fail
<1>7. StripeActs \/ (\E a \in Attempt : SessionOpens(a)) \/ ConfirmEnded \/ Downgrade
          \/ UNCHANGED vars => attempt' = attempt
  BY DEF StripeActs, PayFails, Pay, SessionExpires, StatusChange, StrangerStarts,
     SessionOpens, ConfirmEnded, Downgrade, vars
<1> QED
  BY <1>3, <1>5, <1>6, <1>7 DEF Next

\* The account changes its subscription only to that of the current attempt, unless
\* there is none; and the session of that one was created.
LEMMA SubscriptionMoves ==
    ASSUME BillingInv, [Next]_vars, account'.sub # account.sub
    PROVE  /\ attempt'.id = attempt.id
           /\ account'.sub = attempt.id \/ attempt = NoAttempt
           /\ account'.sub \in Attempt => checkout'[account'.sub] # "none"
<1>1. TypeOK /\ StripeInv /\ LogInv
  BY DEF BillingInv
<1>2. ASSUME NEW d \in inflight, Apply(d)
      PROVE  /\ account'.sub = attempt.id \/ attempt = NoAttempt
             /\ account'.sub \in Attempt => checkout'[account'.sub] # "none"
  <2>1. d.event \in DOMAIN log
    BY <1>1 DEF TypeOK
  <2>2. Authorized(log[d.event]) /\ account'.sub = log[d.event].sub
    BY <1>2 DEF Apply, Projected
  <2>3. checkout' = checkout
    BY <1>2 DEF Apply, stripe
  <2>4. account'.sub = attempt.id \/ attempt = NoAttempt
    BY <2>1, <2>2, AuthorizedSub
  <2> QED
    BY <1>1, <2>1, <2>2, <2>3, <2>4 DEF LogInv
<1>3. ConfirmEnded \/ Downgrade => account'.sub = account.sub
  BY <1>1 DEF ConfirmEnded, Downgrade, TypeOK, Account
<1>4. StripeActs \/ (\E a \in Attempt : SessionOpens(a)) \/ Attach
          \/ (\E i \in Interval : Reserve(i)) \/ UNCHANGED vars => account' = account
  BY DEF StripeActs, PayFails, Pay, SessionExpires, StatusChange, StrangerStarts,
     SessionOpens, Attach, Reserve, vars
<1>5. \E d \in inflight : Apply(d)
  BY <1>3, <1>4 DEF Next, WebhookRuns, Receive, Fail
<1>6. attempt'.id = attempt.id
  BY <1>5, AttemptMoves DEF Apply
<1> QED
  BY <1>2, <1>5, <1>6
---------------------------------------------------------------------------
(* What a request knows stays true while others act                        *)

LEMMA BoughtStays ==
    ASSUME BillingInv, AccountBought, [Next]_vars
    PROVE  AccountBought'
BY OutcomesAreFinal, SubscriptionMoves DEF AccountBought

LEMMA KnowledgeStays ==
    ASSUME BillingInv, NEW q \in Local, Knows(q), [Next]_vars,
           q.at = "create" => q.seen.id \notin forgotten'
    PROVE  Knows(q)'
<1>1. /\ q.sub = NoSub \/ q.sub \in Sub
      /\ q.seen # NoAttempt => q.seen.id \in Attempt
  BY DEF Local, AttemptRow
<1>2. /\ \A a \in Attempt : checkout[a] # "none" => checkout'[a] # "none"
      /\ \A a \in Attempt : checkout[a] \in {"expired", "complete"} =>
            checkout'[a] = checkout[a]
      /\ \A s \in Sub : subs[s] = "canceled" => subs'[s] = "canceled"
  BY OutcomesAreFinal
<1>3. TypeOK /\ TypeOK'
  BY StepKeepsBilling DEF BillingInv
<1>4. /\ attempt # NoAttempt <=> attempt.id \in Attempt
      /\ attempt' # NoAttempt => attempt'.id \in Attempt
  BY <1>3, AttemptTypes DEF TypeOK, AttemptRow
<1>5. attempt' # NoAttempt /\ q.sub = attempt'.id => account'.sub = attempt'.id
  <2> SUFFICES ASSUME attempt' # NoAttempt, q.sub = attempt'.id
               PROVE  account'.sub = attempt'.id
    OBVIOUS
  <2>1. attempt'.id \in Attempt /\ checkout[attempt'.id] # "none"
    BY <1>4 DEF Knows
  <2>2. attempt'.id = attempt.id
    BY <2>1, AttemptMoves
  <2>3. attempt # NoAttempt /\ account.sub = attempt.id
    BY <1>4, <2>1, <2>2 DEF Knows
  <2> QED
    BY <2>2, <2>3, SubscriptionMoves
<1>6. q.at = "create" /\ checkout'[q.seen.id] = "none" => q.seen.id = attempt'.id
  <2> SUFFICES ASSUME q.at = "create", checkout'[q.seen.id] = "none"
               PROVE  q.seen.id = attempt'.id
    OBVIOUS
  <2>1. q.seen.id \in Attempt /\ checkout[q.seen.id] = "none"
    BY <1>1, <1>2 DEF Knows, WithAttempt
  <2>2. q.seen.id = attempt.id /\ attempt # NoAttempt
    BY <1>4, <2>1 DEF Knows
  <2> QED
    BY <2>1, <2>2, AttemptMoves
<1>7. q.at = "confirm" => subs'[q.sub] = "canceled"
  BY <1>1, <1>2 DEF Knows
<1>8. q.at \in {"attach", "attachLost"} => checkout'[q.seen.id] # "none"
  BY <1>1, <1>2 DEF Knows, WithAttempt
<1>9. q.at = "reserve" /\ q.seen # NoAttempt =>
         \/ checkout'[q.seen.id] = "expired"
         \/ checkout'[q.seen.id] = "complete" /\ q.sub = q.seen.id
  BY <1>1, <1>2 DEF Knows
<1> QED
  BY <1>2, <1>5, <1>6, <1>7, <1>8, <1>9 DEF Knows

---------------------------------------------------------------------------
(* What a request learns                                                   *)

LEMMA OnwardsSteps ==
    ASSUME NEW row
    PROVE  /\ row = NoAttempt => Onwards(row) = "reserve"
           /\ row # NoAttempt => Onwards(row) \in {"session", "dispatch"}
BY DEF Onwards

\* Request r has taken the step to its new local state, which is true.
Learns(r) ==
    /\ req' \in [Request -> Local]
    /\ \A s \in Request : s # r => req'[s] = req[s]
    /\ Knows(req'[r])

LEMMA RequestTypesOf ==
    ASSUME CheckoutInv, NEW r \in Request
    PROVE  /\ req[r] \in Local /\ Knows(req[r])
           /\ req[r].at \in Step /\ req[r].interval \in Interval \cup {NoInterval}
           /\ req[r].seen \in AttemptRow \cup {NoAttempt}
           /\ req[r].sub \in {NoSub} \cup Sub
           /\ req[r].ended \in BOOLEAN /\ req[r].mine \in {0} \cup Attempt
BY DEF CheckoutInv, CheckoutTypeOK, Local

\* A request that goes on changes its step alone; one that ends forgets the rest.
LEMMA GoesTo ==
    ASSUME CheckoutInv, NEW r \in Request, NEW step \in Step, Goto(r, step)
    PROVE  /\ req' \in [Request -> Local]
           /\ \A s \in Request : s # r => req'[s] = req[s]
           /\ step = "done" => Knows(req'[r])
           /\ step # "done" => /\ req'[r].at = step
                               /\ req'[r].interval = req[r].interval
                               /\ req'[r].seen = req[r].seen
                               /\ req'[r].sub = req[r].sub
<1>1. req \in [Request -> Local] /\ req[r] \in Local
  BY DEF CheckoutInv, CheckoutTypeOK
<1>2. Blank("done") \in Local
  BY DEF Blank, Local, Step
<1>3. [req[r] EXCEPT !.at = step] \in Local
  BY <1>1 DEF Local
<1>4. /\ req' \in [Request -> Local]
      /\ \A s \in Request : s # r => req'[s] = req[s]
      /\ step = "done" => req'[r] = Blank("done")
      /\ step # "done" => req'[r] = [req[r] EXCEPT !.at = step]
  BY <1>1, <1>2, <1>3 DEF Goto
<1>5. Knows(Blank("done"))
  <2>1. attempt # NoAttempt => attempt.id # NoSub
    BY AttemptTypes DEF CheckoutInv, BillingInv, NoSub
  <2>2. NoSub \notin Attempt
    BY BillingConstants DEF NoSub, Attempt
  <2> QED
    BY <2>1, <2>2 DEF Knows, Blank, WithAttempt
<1> QED
  BY <1>1, <1>4, <1>5 DEF Local
LEMMA HoldsAttempt ==
    ASSUME CheckoutInv, NEW r \in Request, req[r].at \in WithAttempt
    PROVE  req[r].seen \in AttemptRow /\ req[r].seen.id \in Attempt
BY RequestTypesOf DEF Knows, AttemptRow

LEMMA BeginLearns ==
    ASSUME CheckoutInv, NEW r \in Request, NEW i \in Interval, Begin(r, i)
    PROVE  Learns(r)
<1>1. req \in [Request -> Local] /\ req[r] \in Local /\ Knows(req[r])
  BY RequestTypesOf DEF CheckoutInv, CheckoutTypeOK
<1>2. [req[r] EXCEPT !.at = "read", !.interval = i] \in Local
  BY <1>1 DEF Local, Step
<1>3. req' = [req EXCEPT ![r] = [req[r] EXCEPT !.at = "read", !.interval = i]]
  BY <1>1 DEF Begin
<1>4. Knows([req[r] EXCEPT !.at = "read", !.interval = i])
  BY <1>1 DEF Knows, Local, WithAttempt
<1> QED
  BY <1>1, <1>2, <1>3, <1>4 DEF Learns

LEMMA ReadStateLearns ==
    ASSUME CheckoutInv, NEW r \in Request, ReadState(r)
    PROVE  Learns(r)
<1>1. CASE Live(account.billing)
  <2>1. Goto(r, "done") /\ "done" \in Step
    BY <1>1 DEF ReadState, Step
  <2> QED
    BY <2>1, GoesTo DEF Learns
<1>2. CASE ~Live(account.billing)
  <2> DEFINE at == IF Eligible THEN Onwards(attempt) ELSE "subscription"
             new == [req[r] EXCEPT !.seen = attempt, !.sub = account.sub,
                                   !.ended = HasTerminal, !.at = at]
  <2>1. /\ req \in [Request -> Local] /\ req[r] \in Local /\ Knows(req[r])
        /\ req[r].at = "read" /\ req[r].interval \in Interval
    BY RequestTypesOf DEF CheckoutInv, CheckoutTypeOK, ReadState, At, Knows
  <2>2. at \in {"reserve", "session", "dispatch", "subscription"}
        /\ (at \in {"session", "dispatch"} => attempt # NoAttempt)
        /\ (at = "reserve" => attempt = NoAttempt)
        /\ (at = "subscription" => account.sub # NoSub)
    BY <1>2, OnwardsSteps DEF Eligible
  <2>3. attempt \in AttemptRow \cup {NoAttempt} /\ account.sub \in {NoSub} \cup Sub
    BY DEF CheckoutInv, BillingInv, TypeOK, Account
  <2>4. HasTerminal \in BOOLEAN
    BY DEF HasTerminal
  <2>5. req' = [req EXCEPT ![r] = new]
    BY <1>2, <2>1 DEF ReadState
  <2> HIDE DEF at
  <2>6. new \in Local
    BY <2>1, <2>2, <2>3, <2>4 DEF Local, Step
  <2>7. /\ new.at = at /\ new.interval = req[r].interval
        /\ new.seen = attempt /\ new.sub = account.sub
    BY <2>1 DEF Local
  <2> HIDE DEF new
  <2>8. Knows(new)
    BY <2>1, <2>2, <2>7 DEF Knows, WithAttempt, CheckoutInv, AccountBought
  <2> QED
    BY <2>1, <2>5, <2>6, <2>8 DEF Learns
<1> QED
  BY <1>1, <1>2

LEMMA RetrieveSubscriptionLearns ==
    ASSUME CheckoutInv, NEW r \in Request, RetrieveSubscription(r)
    PROVE  Learns(r)
<1>1. /\ Knows(req[r]) /\ req[r].at = "subscription"
      /\ "confirm" \in Step /\ "done" \in Step
  BY RequestTypesOf DEF RetrieveSubscription, At, Step
<1>2. \/ Goto(r, "done")
      \/ Goto(r, "confirm") /\ subs[req[r].sub] = "canceled"
  BY DEF RetrieveSubscription, HasEnded, Terminal
<1>3. CASE Goto(r, "done")
  BY <1>1, <1>3, GoesTo DEF Learns
<1>4. CASE Goto(r, "confirm") /\ subs[req[r].sub] = "canceled"
  <2>1. /\ req'[r].at = "confirm" /\ req'[r].interval = req[r].interval
        /\ req'[r].sub = req[r].sub
        /\ req' \in [Request -> Local]
        /\ \A s \in Request : s # r => req'[s] = req[s]
    BY <1>1, <1>4, GoesTo
  <2>2. Knows(req'[r])
    BY <1>1, <1>4, <2>1 DEF Knows, WithAttempt
  <2> QED
    BY <2>1, <2>2 DEF Learns
<1> QED
  BY <1>2, <1>3, <1>4

LEMMA ConfirmLearns ==
    ASSUME CheckoutInv, NEW r \in Request, Confirm(r)
    PROVE  Learns(r)
<1>1. CASE ~(account.sub = req[r].sub /\ ~Live(account.billing))
  <2>1. Goto(r, "done") /\ "done" \in Step
    BY <1>1 DEF Confirm, Step
  <2> QED
    BY <2>1, GoesTo DEF Learns
<1>2. CASE account.sub = req[r].sub /\ ~Live(account.billing)
  <2> DEFINE at == Onwards(attempt)
             new == [req[r] EXCEPT !.seen = attempt, !.ended = TRUE, !.at = at]
  <2>1. /\ req \in [Request -> Local] /\ req[r] \in Local /\ Knows(req[r])
        /\ req[r].at = "confirm" /\ req[r].interval \in Interval
    BY RequestTypesOf DEF CheckoutInv, CheckoutTypeOK, Confirm, At, Knows
  <2>2. at \in {"reserve", "session", "dispatch"}
        /\ (at \in {"session", "dispatch"} => attempt # NoAttempt)
        /\ (at = "reserve" => attempt = NoAttempt)
    BY OnwardsSteps
  <2>3. attempt \in AttemptRow \cup {NoAttempt}
    BY DEF CheckoutInv, BillingInv, TypeOK
  <2>4. req' = [req EXCEPT ![r] = new]
    BY <1>2, <2>1 DEF Confirm
  <2> HIDE DEF at
  <2>5. new \in Local
    BY <2>1, <2>2, <2>3 DEF Local, Step
  <2>6. /\ new.at = at /\ new.interval = req[r].interval
        /\ new.seen = attempt /\ new.sub = req[r].sub
    BY <2>1 DEF Local
  <2> HIDE DEF new
  <2>7. Knows(new)
    BY <2>1, <2>2, <2>6 DEF Knows, WithAttempt
  <2> QED
    BY <2>1, <2>4, <2>5, <2>7 DEF Learns
<1> QED
  BY <1>1, <1>2
\* A request that takes up an attempt, its own or the one it finds.
LEMMA TakesUp ==
    ASSUME CheckoutInv, NEW r \in Request, req[r].at \notin {"idle", "done"},
           NEW row \in AttemptRow, NEW at \in {"read", "session", "dispatch"},
           req' = [req EXCEPT ![r] = [req[r] EXCEPT !.seen = row, !.at = at, !.mine = 0]]
    PROVE  Learns(r)
<1> DEFINE new == [req[r] EXCEPT !.seen = row, !.at = at, !.mine = 0]
<1>1. /\ req \in [Request -> Local] /\ req[r] \in Local /\ Knows(req[r])
      /\ req[r].interval \in Interval
  BY RequestTypesOf DEF CheckoutInv, CheckoutTypeOK, Knows
<1>2. row # NoAttempt
  BY BillingConstants DEF AttemptRow, NoAttempt, Attempt
<1>3. new \in Local
  BY <1>1 DEF Local, Step
<1>4. /\ new.at = at /\ new.interval = req[r].interval
      /\ new.seen = row /\ new.sub = req[r].sub
  BY <1>1 DEF Local
<1>5. req' = [req EXCEPT ![r] = new]
  OBVIOUS
<1> HIDE DEF new
<1>6. Knows(new)
  BY <1>1, <1>2, <1>4 DEF Knows, WithAttempt
<1> QED
  BY <1>1, <1>3, <1>5, <1>6 DEF Learns

LEMMA ReservedLearns ==
    ASSUME CheckoutInv, NEW r \in Request, req[r].at \in {"reserve", "reserveLost"},
           NEW row \in AttemptRow, req' = Reserved(r, row)
    PROVE  Learns(r)
<1> DEFINE at == IF req[r].seen = NoAttempt THEN Onwards(row) ELSE "read"
<1>1. row # NoAttempt
  BY BillingConstants DEF AttemptRow, NoAttempt, Attempt
<1>2. at \in {"read", "session", "dispatch"}
  BY <1>1, OnwardsSteps
<1>3. req' = [req EXCEPT ![r] = [req[r] EXCEPT !.seen = row, !.at = at, !.mine = 0]]
  BY RequestTypesOf DEF Reserved, CheckoutInv, CheckoutTypeOK, Local
<1> HIDE DEF at
<1> QED
  BY <1>2, <1>3, TakesUp

LEMMA NotReservedLearns ==
    ASSUME CheckoutInv, NEW r \in Request, req[r].at \in {"reserve", "reserveLost"},
           Goto(r, NotReserved(r))
    PROVE  Learns(r)
<1>1. NotReserved(r) \in {"reuse", "done"} /\ "reuse" \in Step /\ "done" \in Step
  BY DEF NotReserved, Step
<1>2. CASE Goto(r, "done")
  BY <1>1, <1>2, GoesTo DEF Learns
<1>3. CASE Goto(r, "reuse")
  <2>1. /\ req'[r].at = "reuse" /\ req'[r].interval = req[r].interval
        /\ req'[r].sub = req[r].sub
        /\ req' \in [Request -> Local]
        /\ \A s \in Request : s # r => req'[s] = req[s]
    BY <1>1, <1>3, GoesTo
  <2>2. Knows(req'[r])
    BY <2>1, RequestTypesOf DEF Knows, WithAttempt
  <2> QED
    BY <2>1, <2>2 DEF Learns
<1> QED
  BY <1>1, <1>2, <1>3

LEMMA ReserveAttemptLearns ==
    ASSUME CheckoutInv, NEW r \in Request, ReserveAttempt(r)
    PROVE  Learns(r)
<1> DEFINE row == [id |-> attempt.id + 1, interval |-> req[r].interval,
                   attached |-> FALSE, sub |-> NoSub]
<1>1. /\ req \in [Request -> Local] /\ req[r] \in Local /\ Knows(req[r])
      /\ req[r].at = "reserve" /\ req[r].interval \in Interval
  BY RequestTypesOf DEF CheckoutInv, CheckoutTypeOK, ReserveAttempt, At, Knows
<1>2. attempt.id + 1 \in Attempt
  BY AttemptTypes, BillingConstants
     DEF CheckoutInv, BillingInv, ReserveAttempt, Attempt
<1>3. row \in AttemptRow
  BY <1>1, <1>2 DEF AttemptRow
<1>4. row.id = attempt.id + 1
  OBVIOUS
<1>5. \/ req' = Reserved(r, row)
      \/ req' = [req EXCEPT ![r].at = "reserveLost", ![r].mine = row.id]
      \/ req' = [req EXCEPT ![r].at = "reserveLost", ![r].mine = 0]
  BY DEF ReserveAttempt
<1> HIDE DEF row
<1>6. CASE req' = Reserved(r, row)
  BY <1>1, <1>3, <1>6, ReservedLearns
<1>7. ASSUME NEW m \in {0} \cup Attempt,
             req' = [req EXCEPT ![r].at = "reserveLost", ![r].mine = m]
      PROVE  Learns(r)
  <2> DEFINE new == [req[r] EXCEPT !.at = "reserveLost", !.mine = m]
  <2>1. req' = [req EXCEPT ![r] = new]
    BY <1>1, <1>7
  <2>2. new \in Local
    BY <1>1 DEF Local, Step
  <2>3. /\ new.at = "reserveLost" /\ new.interval = req[r].interval
        /\ new.sub = req[r].sub
    BY <1>1 DEF Local
  <2> HIDE DEF new
  <2>4. Knows(new)
    BY <1>1, <2>3 DEF Knows, WithAttempt
  <2> QED
    BY <1>1, <2>1, <2>2, <2>4 DEF Learns
<1> QED
  BY <1>2, <1>4, <1>5, <1>6, <1>7

LEMMA RereadReservationLearns ==
    ASSUME CheckoutInv, NEW r \in Request, RereadReservation(r)
    PROVE  Learns(r)
<1>1. req[r].at = "reserveLost"
  BY DEF RereadReservation, At
<1>2. attempt # NoAttempt => attempt \in AttemptRow
  BY DEF CheckoutInv, BillingInv, TypeOK
<1>3. \/ attempt # NoAttempt /\ req' = Reserved(r, attempt)
      \/ Goto(r, NotReserved(r))
  BY DEF RereadReservation
<1>4. PICK row : row = attempt
  OBVIOUS
<1> QED
  BY <1>1, <1>2, <1>3, <1>4, ReservedLearns, NotReservedLearns

LEMMA ReuseLearns ==
    ASSUME CheckoutInv, NEW r \in Request, Reuse(r)
    PROVE  Learns(r)
<1>1. CASE Eligible /\ attempt # NoAttempt
  <2>1. attempt \in AttemptRow
    BY <1>1 DEF CheckoutInv, BillingInv, TypeOK
  <2>2. Onwards(attempt) \in {"read", "session", "dispatch"}
    BY <1>1, OnwardsSteps
  <2>3. req' = [req EXCEPT ![r] = [req[r] EXCEPT !.seen = attempt,
                                      !.at = Onwards(attempt), !.mine = 0]]
    BY <1>1, RequestTypesOf DEF Reuse, CheckoutInv, CheckoutTypeOK, Local
  <2>4. req[r].at = "reuse"
    BY DEF Reuse, At
  <2>5. PICK row, at : row = attempt /\ at = Onwards(attempt)
    OBVIOUS
  <2> QED
    BY <2>1, <2>2, <2>3, <2>4, <2>5, TakesUp
<1>2. CASE ~(Eligible /\ attempt # NoAttempt)
  <2>1. Goto(r, "done") /\ "done" \in Step
    BY <1>2 DEF Reuse, Step
  <2> QED
    BY <2>1, GoesTo DEF Learns
<1> QED
  BY <1>1, <1>2

\* A request with an attempt goes on, with what that step may rely on.
LEMMA GoesOn ==
    ASSUME CheckoutInv, NEW r \in Request, req[r].at \in WithAttempt,
           NEW step \in {"create", "attachLost", "session", "expire", "expired",
                         "final", "reserve", "done"},
           Goto(r, step),
           step = "create" => req[r].seen.id = attempt.id /\ req[r].seen.id \notin forgotten,
           step = "attachLost" => checkout[req[r].seen.id] # "none",
           step = "reserve" => \/ checkout[req[r].seen.id] = "expired"
                               \/ /\ checkout[req[r].seen.id] = "complete"
                                  /\ req[r].sub = req[r].seen.id
    PROVE  Learns(r)
<1>1. step \in Step
  BY DEF Step
<1>2. CASE step = "done"
  BY <1>1, <1>2, GoesTo DEF Learns
<1>3. CASE step # "done"
  <2>1. /\ req'[r].at = step /\ req'[r].interval = req[r].interval
        /\ req'[r].sub = req[r].sub /\ req'[r].seen = req[r].seen
        /\ req' \in [Request -> Local]
        /\ \A s \in Request : s # r => req'[s] = req[s]
    BY <1>1, <1>3, GoesTo
  <2>2. Knows(req[r]) /\ req[r].at \notin {"idle", "done"}
    BY RequestTypesOf DEF WithAttempt
  <2>3. Knows(req'[r])
    BY <1>3, <2>1, <2>2 DEF Knows, WithAttempt
  <2> QED
    BY <2>1, <2>3 DEF Learns
<1> QED
  BY <1>2, <1>3

LEMMA DispatchLearns ==
    ASSUME CheckoutInv, NEW r \in Request, Dispatch(r)
    PROVE  Learns(r)
<1>1. forgotten \subseteq old
  BY DEF CheckoutInv, CheckoutTypeOK
<1>2. req[r].at \in WithAttempt
  BY DEF Dispatch, At, WithAttempt
<1>3. \/ Goto(r, "done")
      \/ /\ Goto(r, "create") /\ req[r].seen.id = attempt.id
         /\ req[r].seen.id \notin forgotten
  BY <1>1 DEF Dispatch, SameAttempt, WithinRetention
<1> QED
  BY <1>2, <1>3, GoesOn

LEMMA AttachSessionLearns ==
    ASSUME CheckoutInv, NEW r \in Request, AttachSession(r)
    PROVE  Learns(r)
<1>1. req[r].at = "attach" /\ req[r].at \in WithAttempt
  BY DEF AttachSession, At, WithAttempt
<1>2. checkout[req[r].seen.id] # "none"
  BY <1>1, RequestTypesOf DEF Knows
<1>3. Goto(r, "session") \/ Goto(r, "attachLost")
  BY DEF AttachSession
<1> QED
  BY <1>1, <1>2, <1>3, GoesOn

LEMMA RetrieveSessionLearns ==
    ASSUME CheckoutInv, NEW r \in Request, RetrieveSession(r)
    PROVE  Learns(r)
<1>1. req[r].at \in WithAttempt
  BY DEF RetrieveSession, At, WithAttempt
<1>2. checkout[req[r].seen.id] \in {"none", "open", "complete", "expired"}
  BY <1>1, HoldsAttempt DEF CheckoutInv, BillingInv, TypeOK
<1>3. /\ AfterRetrieval(r) \in {"reserve", "done", "expire", "final"}
      /\ AfterRetrieval(r) = "reserve" =>
             \/ checkout[req[r].seen.id] = "expired"
             \/ /\ checkout[req[r].seen.id] = "complete"
                /\ req[r].sub = req[r].seen.id
  BY <1>2 DEF AfterRetrieval, SpentSession
<1>4. PICK step : step = AfterRetrieval(r)
  OBVIOUS
<1>5. Goto(r, step)
  BY <1>4 DEF RetrieveSession
<1> QED
  BY <1>1, <1>3, <1>4, <1>5, GoesOn

LEMMA RetrieveExpiredLearns ==
    ASSUME CheckoutInv, NEW r \in Request, RetrieveExpired(r)
    PROVE  Learns(r)
<1>1. req[r].at \in WithAttempt
  BY DEF RetrieveExpired, At, WithAttempt
<1>2. checkout[req[r].seen.id] \in {"none", "open", "complete", "expired"}
  BY <1>1, HoldsAttempt DEF CheckoutInv, BillingInv, TypeOK
<1>3. /\ AfterExpiry(r) \in {"reserve", "done", "final"}
      /\ AfterExpiry(r) = "reserve" => checkout[req[r].seen.id] = "expired"
  BY <1>2 DEF AfterExpiry
<1>4. PICK step : step = AfterExpiry(r)
  OBVIOUS
<1>5. Goto(r, step)
  BY <1>4 DEF RetrieveExpired
<1> QED
  BY <1>1, <1>3, <1>4, <1>5, GoesOn
---------------------------------------------------------------------------
(* Every step is a step of Billing, or changes nothing Billing knows of     *)

LEMMA ReserveMaps ==
    ASSUME CheckoutInv, NEW r \in Request, ReserveAttempt(r)
    PROVE  [Next]_vars
<1>1. /\ Knows(req[r]) /\ req[r].at = "reserve" /\ req[r].interval \in Interval
      /\ req[r].seen \in AttemptRow \cup {NoAttempt}
  BY RequestTypesOf DEF ReserveAttempt, At, Knows
<1>2. Eligible /\ attempt.id = req[r].seen.id
  BY DEF ReserveAttempt, SameAttempt
<1>3. attempt # NoAttempt => attempt.id \in Attempt /\ attempt.id # 0
  BY AttemptTypes DEF CheckoutInv, BillingInv
<1>4. Replaceable
  <2> SUFFICES ASSUME attempt # NoAttempt
               PROVE  \/ checkout[attempt.id] = "expired"
                      \/ /\ checkout[attempt.id] = "complete"
                         /\ account.sub = attempt.id
                         /\ HasTerminal
    BY DEF Replaceable
  <2>1. req[r].seen # NoAttempt
    BY <1>2, <1>3 DEF NoAttempt
  <2>2. \/ checkout[attempt.id] = "expired"
        \/ checkout[attempt.id] = "complete" /\ account.sub = attempt.id
    BY <1>1, <1>2, <2>1 DEF Knows
  <2>3. account.sub = attempt.id => HasTerminal
    BY <1>2, <1>3 DEF Eligible, NoSub
  <2> QED
    BY <2>2, <2>3
<1>5. CASE UNCHANGED attempt
  BY <1>5 DEF ReserveAttempt, vars
<1>6. CASE attempt' = [id |-> attempt.id + 1, interval |-> req[r].interval,
                       attached |-> FALSE, sub |-> NoSub]
  <2>1. PICK i \in Interval : i = req[r].interval
    BY <1>1
  <2>2. attempt.id < MaxAttempts /\ UNCHANGED <<account, stripe, webhook, cleaned>>
    BY DEF ReserveAttempt
  <2>3. Reserve(i)
    BY <1>2, <1>4, <1>6, <2>1, <2>2 DEF Reserve
  <2> QED
    BY <2>3 DEF Next
<1> QED
  BY <1>5, <1>6 DEF ReserveAttempt

LEMMA CreateMaps ==
    ASSUME CheckoutInv, NEW r \in Request, Create(r)
    PROVE  [Next]_vars
<1>1. /\ Knows(req[r]) /\ req[r].at = "create" /\ req[r].at \in WithAttempt
  BY RequestTypesOf DEF Create, At, WithAttempt
<1>2. PICK a \in Attempt : a = req[r].seen.id
  BY <1>1, HoldsAttempt
<1>3. /\ checkout \in [Attempt -> {"none", "open", "complete", "expired"}]
      /\ checkout' = [checkout EXCEPT ![a] = IF @ = "none" THEN "open" ELSE @]
      /\ UNCHANGED <<account, attempt, subs, log, second, webhook, cleaned>>
  BY <1>2 DEF Create, CheckoutInv, BillingInv, TypeOK
<1>4. CASE checkout[a] = "none"
  <2>1. attempt.id = a
    BY <1>1, <1>2, <1>4 DEF Knows
  <2>2. checkout' = [checkout EXCEPT ![a] = "open"]
    BY <1>3, <1>4
  <2>3. SessionOpens(a)
    BY <1>3, <1>4, <2>1, <2>2 DEF SessionOpens
  <2> QED
    BY <2>3 DEF Next
<1>5. CASE checkout[a] # "none"
  <2>1. checkout' = checkout
    BY <1>3, <1>5
  <2> QED
    BY <1>3, <2>1 DEF vars, stripe
<1> QED
  BY <1>4, <1>5

LEMMA AttachMaps ==
    ASSUME CheckoutInv, NEW r \in Request, AttachSession(r)
    PROVE  [Next]_vars
<1>1. /\ Knows(req[r]) /\ req[r].at = "attach" /\ req[r].at \in WithAttempt
  BY RequestTypesOf DEF AttachSession, At, WithAttempt
<1>2. req[r].seen.id \in Attempt /\ checkout[req[r].seen.id] # "none"
  BY <1>1, HoldsAttempt DEF Knows
<1>3. CASE UNCHANGED attempt
  BY <1>3 DEF AttachSession, vars
<1>4. CASE /\ Eligible /\ SameAttempt(r)
           /\ attempt' = [attempt EXCEPT !.attached = TRUE]
  <2>1. attempt.id = req[r].seen.id /\ attempt # NoAttempt
    BY <1>2, <1>4, AttemptTypes DEF SameAttempt, CheckoutInv, BillingInv
  <2>2. Attach
    BY <1>2, <1>4, <2>1 DEF Attach, AttachSession
  <2> QED
    BY <2>2 DEF Next
<1> QED
  BY <1>3, <1>4 DEF AttachSession

LEMMA ConfirmMaps ==
    ASSUME CheckoutInv, NEW r \in Request, Confirm(r)
    PROVE  [Next]_vars
<1>1. Knows(req[r]) /\ req[r].at = "confirm"
  BY RequestTypesOf DEF Confirm, At
<1>2. CASE account.sub = req[r].sub
  <2>1. account.sub # NoSub /\ Terminal(subs[account.sub])
    BY <1>1, <1>2 DEF Knows, Terminal
  <2>2. ConfirmEnded
    BY <1>2, <2>1 DEF ConfirmEnded, Confirm
  <2> QED
    BY <2>2 DEF Next
<1>3. CASE account.sub # req[r].sub
  BY <1>3 DEF Confirm, vars
<1> QED
  BY <1>2, <1>3

LEMMA ExpireMaps ==
    ASSUME CheckoutInv, NEW r \in Request, ExpireSession(r)
    PROVE  [Next]_vars
<1>1. req[r].at \in WithAttempt
  BY DEF ExpireSession, At, WithAttempt
<1>2. PICK a \in Attempt : a = req[r].seen.id
  BY <1>1, HoldsAttempt
<1>3. SessionExpires(a) \/ UNCHANGED vars
  BY <1>2 DEF ExpireSession
<1> QED
  BY <1>3 DEF Next, StripeActs

LEMMA BackgroundMaps ==
    ASSUME CheckoutInv, Background
    PROVE  [Next]_vars
<1>1. urls \subseteq Attempt
  BY DEF CheckoutInv, CheckoutTypeOK
<1>2. Payments => StripeActs
  BY <1>1 DEF Payments, StripeActs
<1>3. (\E s \in Sub, status \in Change : StatusChange(s, status)) => StripeActs
  BY CheckoutConstants DEF StripeActs
<1>4. (\E a \in Attempt : SessionExpires(a)) => StripeActs
  BY DEF StripeActs
<1> QED
  BY <1>2, <1>3, <1>4 DEF Background, Next

\* A step of the protocol is a step of Billing, or leaves its variables alone.
LEMMA StepMaps == CheckoutInv /\ [CheckoutNext]_checkoutVars => [Next]_vars
<1> SUFFICES ASSUME CheckoutInv, [CheckoutNext]_checkoutVars PROVE [Next]_vars
  OBVIOUS
<1>1. ASSUME NEW r \in Request, RequestStep(r)
      PROVE  [Next]_vars
  <2>1. (\E i \in Interval : Begin(r, i)) \/ ReadState(r) \/ RetrieveSubscription(r)
            \/ ReserveRefused(r) \/ RereadReservation(r) \/ Reuse(r) \/ Dispatch(r)
            \/ RereadAttachment(r) \/ RetrieveSession(r) \/ RetrieveExpired(r)
            \/ ReturnUrl(r) \/ Abandon(r)
           => UNCHANGED vars
    BY DEF Begin, ReadState, RetrieveSubscription, ReserveRefused, RereadReservation,
       Reuse, Dispatch, RereadAttachment, RetrieveSession, RetrieveExpired, ReturnUrl,
       Abandon
  <2> QED
    BY <1>1, <2>1, ReserveMaps, CreateMaps, AttachMaps, ConfirmMaps, ExpireMaps
       DEF RequestStep
<1>2. CASE DayPasses \/ (\E a \in Attempt : KeyForgotten(a)) \/ UNCHANGED checkoutVars
  BY <1>2 DEF DayPasses, KeyForgotten, checkoutVars
<1> QED
  BY <1>1, <1>2, BackgroundMaps DEF CheckoutNext

---------------------------------------------------------------------------
(* The invariant                                                           *)

LEMMA InitCheckout == CheckoutInit => CheckoutInv
<1> SUFFICES ASSUME CheckoutInit PROVE CheckoutInv
  OBVIOUS
<1>1. BillingInv
  BY InitBilling DEF CheckoutInit
<1>2. Blank("idle") \in Local
  BY DEF Blank, Local, Step
<1>3. CheckoutTypeOK
  BY <1>1, <1>2 DEF CheckoutInit, CheckoutTypeOK, BillingInv
<1>4. NoSub \notin Attempt /\ attempt = NoAttempt /\ account.sub = NoSub
  BY BillingConstants DEF NoSub, Attempt, CheckoutInit, Init
<1>5. Knows(Blank("idle"))
  BY <1>4 DEF Knows, Blank, WithAttempt
<1>6. \A r \in Request : req[r] = Blank("idle")
  BY DEF CheckoutInit
<1> QED
  BY <1>1, <1>3, <1>4, <1>5, <1>6 DEF CheckoutInv, AccountBought, CheckoutInit

\* A request has learned something true, and nobody else has done anything but a
\* step of Billing.
LEMMA LearningKeeps ==
    ASSUME CheckoutInv, NEW r \in Request, Learns(r), [Next]_vars,
           req'[r].at # "create" \/ req'[r].seen.id \notin forgotten,
           urls' \subseteq Attempt, UNCHANGED <<old, provider>>
    PROVE  CheckoutInv'
<1>1. BillingInv' /\ AccountBought'
  BY StepKeepsBilling, BoughtStays DEF CheckoutInv
<1>2. CheckoutTypeOK'
  BY <1>1 DEF CheckoutInv, CheckoutTypeOK, BillingInv, Learns, provider
<1>3. ASSUME NEW s \in Request
      PROVE  Knows(req[s])'
  <2>1. PICK q \in Local : q = req'[s]
    BY DEF Learns
  <2>2. Knows(q) /\ (q.at = "create" => q.seen.id \notin forgotten)
    BY <2>1 DEF Learns, Knows, CheckoutInv
  <2>3. forgotten' = forgotten
    BY DEF provider
  <2>4. Knows(q)'
    BY <2>2, <2>3, KnowledgeStays DEF CheckoutInv
  <2> QED
    BY <2>1, <2>4
<1> QED
  BY <1>1, <1>2, <1>3 DEF CheckoutInv, provider

LEMMA CreateKeeps ==
    ASSUME CheckoutInv, NEW r \in Request, Create(r)
    PROVE  CheckoutInv'
<1>1. /\ Knows(req[r]) /\ req[r].at = "create" /\ req[r].at \in WithAttempt
      /\ req[r] \in Local
  BY RequestTypesOf DEF Create, At, WithAttempt
<1>2. PICK a \in Attempt : a = req[r].seen.id
  BY <1>1, HoldsAttempt
<1>3. [Next]_vars
  BY CreateMaps
<1>4. BillingInv' /\ AccountBought'
  BY <1>3, StepKeepsBilling, BoughtStays DEF CheckoutInv
<1>5. a \notin forgotten /\ doubled' = {}
  BY <1>1, <1>2 DEF Create, Knows, CheckoutInv
<1>6. checkout'[a] # "none"
  BY <1>2 DEF Create, CheckoutInv, BillingInv, TypeOK
<1>7. \/ Goto(r, "done") /\ "done" \in Step
      \/ Goto(r, "attach") /\ "attach" \in Step
  BY DEF Create, Step
<1>8. /\ req' \in [Request -> Local]
      /\ \A s \in Request : s # r => req'[s] = req[s]
      /\ \/ Knows(req'[r]) /\ req'[r].at # "create"
         \/ /\ req'[r].at = "attach" /\ req'[r].interval = req[r].interval
            /\ req'[r].seen = req[r].seen /\ req'[r].sub = req[r].sub
  <2>1. CASE Goto(r, "done")
    <3>1. req'[r] = Blank("done")
      BY <2>1 DEF Goto, CheckoutInv, CheckoutTypeOK
    <3> QED
      BY <1>7, <2>1, <3>1, GoesTo DEF Blank
  <2>2. CASE Goto(r, "attach")
    <3>1. "attach" \in Step
      BY DEF Step
    <3>2. /\ req' \in [Request -> Local]
          /\ \A s \in Request : s # r => req'[s] = req[s]
          /\ "attach" # "done" => /\ req'[r].at = "attach"
                                 /\ req'[r].interval = req[r].interval
                                 /\ req'[r].seen = req[r].seen
                                 /\ req'[r].sub = req[r].sub
      BY <2>2, <3>1, GoesTo
    <3> QED
      BY <3>2
  <2> QED
    BY <1>7, <2>1, <2>2
<1>9. CheckoutTypeOK'
  BY <1>4, <1>5, <1>8 DEF CheckoutInv, CheckoutTypeOK, BillingInv, Create
<1>10. ASSUME NEW s \in Request, s # r \/ (Knows(req'[r]) /\ req'[r].at # "create")
       PROVE  Knows(req[s])'
  <2>1. PICK q \in Local : q = req'[s]
    BY <1>8
  <2>2. Knows(q) /\ (q.at = "create" => q.seen.id \notin forgotten)
    BY <1>8, <1>10, <2>1 DEF Knows, CheckoutInv
  <2>3. forgotten' = forgotten
    BY DEF Create
  <2>4. Knows(q)'
    BY <1>3, <2>2, <2>3, KnowledgeStays DEF CheckoutInv
  <2> QED
    BY <2>1, <2>4
<1>11. ASSUME req'[r].at = "attach", req'[r].interval = req[r].interval,
              req'[r].seen = req[r].seen, req'[r].sub = req[r].sub
       PROVE  Knows(req[r])'
  <2>1. PICK q \in Local : q = req[r]
    BY <1>1
  <2>2. PICK p \in Local : p = req'[r]
    BY <1>8
  <2>3. Knows(q)'
    BY <1>1, <1>3, <2>1, KnowledgeStays DEF CheckoutInv, Knows, Create
  <2>4. /\ p.at = "attach" /\ p.interval = q.interval /\ p.seen = q.seen
        /\ p.sub = q.sub /\ q.at = "create" /\ q.seen.id = a
    BY <1>1, <1>2, <1>11, <2>1, <2>2
  <2>5. Knows(p)'
    BY <1>6, <2>3, <2>4 DEF Knows, WithAttempt
  <2> QED
    BY <2>2, <2>5
<1> QED
  BY <1>4, <1>5, <1>8, <1>9, <1>10, <1>11 DEF CheckoutInv
LEMMA RequestStepKeeps ==
    ASSUME CheckoutInv, NEW r \in Request, RequestStep(r)
    PROVE  CheckoutInv'
<1> USE DEF CheckoutInv
<1>1. [Next]_vars
  BY StepMaps DEF CheckoutNext
<1>2. urls \subseteq Attempt
  BY DEF CheckoutTypeOK
<1>3. ASSUME Goto(r, "done")
      PROVE  Learns(r) /\ req'[r].at # "create"
  <2>1. "done" \in Step /\ req'[r] = Blank("done")
    BY <1>3 DEF Step, Goto, CheckoutTypeOK
  <2> QED
    BY <1>3, <2>1, GoesTo DEF Learns, Blank
<1>4. CASE \E i \in Interval : Begin(r, i)
  <2>1. Learns(r) /\ req'[r].at = "read"
    BY <1>4, BeginLearns DEF Begin, CheckoutTypeOK, Local
  <2> QED
    BY <1>1, <1>2, <1>4, <2>1, LearningKeeps DEF Begin
<1> HIDE DEF CheckoutInv
<1>5. ASSUME Learns(r), urls' \subseteq Attempt, UNCHANGED <<old, provider>>
      PROVE  CheckoutInv'
  <2>1. req'[r].at = "create" => req'[r].seen.id \notin forgotten
    BY <1>5 DEF Learns, Knows
  <2> QED
    BY <1>1, <1>5, <2>1, LearningKeeps
<1>6. CASE ReadState(r) \/ RetrieveSubscription(r) \/ Confirm(r)
  <2>1. UNCHANGED <<urls, old, provider>>
    BY <1>6 DEF ReadState, RetrieveSubscription, Confirm
  <2> QED
    BY <1>2, <1>5, <1>6, <2>1, ReadStateLearns, RetrieveSubscriptionLearns, ConfirmLearns
<1>7. CASE ReserveAttempt(r) \/ ReserveRefused(r) \/ RereadReservation(r) \/ Reuse(r)
  <2>1. UNCHANGED <<urls, old, provider>>
    BY <1>7 DEF ReserveAttempt, ReserveRefused, RereadReservation, Reuse
  <2>2. ReserveRefused(r) => Learns(r)
    BY NotReservedLearns DEF ReserveRefused, At
  <2> QED
    BY <1>2, <1>5, <1>7, <2>1, <2>2, ReserveAttemptLearns, RereadReservationLearns,
       ReuseLearns
<1>8. CASE Dispatch(r) \/ AttachSession(r) \/ RereadAttachment(r)
  <2>1. UNCHANGED <<urls, old, provider>>
    BY <1>8 DEF Dispatch, AttachSession, RereadAttachment
  <2>2. RereadAttachment(r) => Learns(r)
    <3> SUFFICES ASSUME RereadAttachment(r) PROVE Learns(r)
      OBVIOUS
    <3>1. req[r].at \in WithAttempt /\ (Goto(r, "session") \/ Goto(r, "done"))
      BY DEF RereadAttachment, At, WithAttempt
    <3> QED
      BY <3>1, GoesOn
  <2> QED
    BY <1>2, <1>5, <1>8, <2>1, <2>2, DispatchLearns, AttachSessionLearns
<1>9. CASE RetrieveSession(r) \/ RetrieveExpired(r)
  <2>1. UNCHANGED <<urls, old, provider>>
    BY <1>9 DEF RetrieveSession, RetrieveExpired
  <2> QED
    BY <1>2, <1>5, <1>9, <2>1, RetrieveSessionLearns, RetrieveExpiredLearns
<1>10. CASE ExpireSession(r)
  <2>1. req[r].at \in WithAttempt /\ Goto(r, "expired")
    BY <1>10 DEF ExpireSession, At, WithAttempt
  <2>2. Learns(r)
    BY <2>1, GoesOn
  <2> QED
    BY <1>2, <1>5, <1>10, <2>2 DEF ExpireSession
<1>11. CASE ReturnUrl(r)
  <2>1. req[r].at \in WithAttempt /\ Goto(r, "done")
    BY <1>11 DEF ReturnUrl, At, WithAttempt
  <2>2. urls' \subseteq Attempt
    BY <1>2, <1>11, <2>1, HoldsAttempt DEF ReturnUrl
  <2> QED
    BY <1>3, <1>5, <1>11, <2>1, <2>2 DEF ReturnUrl
<1>12. CASE Abandon(r)
  BY <1>2, <1>3, <1>5, <1>12 DEF Abandon
<1> QED
  BY <1>4, <1>6, <1>7, <1>8, <1>9, <1>10, <1>11, <1>12, CreateKeeps DEF RequestStep

\* No request acts: Stripe, the webhook, the cleanup or time does.
LEMMA IdleKeeps ==
    ASSUME CheckoutInv, [Next]_vars, UNCHANGED <<req, urls, doubled>>,
           old' \subseteq Attempt, forgotten' \subseteq old',
           \A r \in Request : At(r, "create") => req[r].seen.id \notin forgotten'
    PROVE  CheckoutInv'
<1>1. BillingInv' /\ AccountBought'
  BY StepKeepsBilling, BoughtStays DEF CheckoutInv
<1>2. CheckoutTypeOK'
  BY <1>1 DEF CheckoutInv, CheckoutTypeOK, BillingInv
<1>3. ASSUME NEW r \in Request
      PROVE  Knows(req[r])'
  <2>1. PICK q \in Local : q = req[r]
    BY RequestTypesOf
  <2>2. Knows(q) /\ (q.at = "create" => q.seen.id \notin forgotten')
    BY <2>1 DEF CheckoutInv, At
  <2>3. Knows(q)'
    BY <2>2, KnowledgeStays DEF CheckoutInv
  <2> QED
    BY <2>1, <2>3
<1> QED
  BY <1>1, <1>2, <1>3 DEF CheckoutInv

LEMMA StepKeepsCheckout == CheckoutInv /\ [CheckoutNext]_checkoutVars => CheckoutInv'
<1> SUFFICES ASSUME CheckoutInv, [CheckoutNext]_checkoutVars PROVE CheckoutInv'
  OBVIOUS
<1>1. [Next]_vars
  BY StepMaps
<1>2. /\ old \subseteq Attempt /\ forgotten \subseteq old
      /\ \A r \in Request : At(r, "create") => req[r].seen.id \notin forgotten
  BY DEF CheckoutInv, CheckoutTypeOK, Knows, At
<1>3. CASE Background \/ UNCHANGED checkoutVars
  <2>1. UNCHANGED <<req, urls, old, provider>>
    BY <1>3 DEF Background, checkoutVars
  <2> QED
    BY <1>1, <1>2, <2>1, IdleKeeps DEF provider
<1>4. CASE DayPasses
  <2>1. attempt.id \in Attempt
    BY <1>4, AttemptTypes DEF DayPasses, CheckoutInv, BillingInv
  <2>2. old' \subseteq Attempt /\ forgotten' = forgotten /\ forgotten' \subseteq old'
    BY <1>2, <1>4, <2>1 DEF DayPasses, provider
  <2> QED
    BY <1>1, <1>2, <1>4, <2>2, IdleKeeps DEF DayPasses, provider
<1>5. ASSUME NEW a \in Attempt, KeyForgotten(a)
      PROVE  CheckoutInv'
  BY <1>1, <1>2, <1>5, IdleKeeps DEF KeyForgotten
<1> QED
  BY <1>3, <1>4, <1>5, RequestStepKeeps DEF CheckoutNext

THEOREM CheckoutInvariant == CheckoutSpec => []CheckoutInv
BY InitCheckout, StepKeepsCheckout, PTL DEF CheckoutSpec

\* The rows, the sessions and what each request holds keep their types, and Stripe
\* forgets only keys that are a day old.
THEOREM CheckoutTypes == CheckoutSpec => []CheckoutTypeOK
<1>1. CheckoutInv => CheckoutTypeOK
  BY DEF CheckoutInv
<1> QED
  BY <1>1, CheckoutInvariant, PTL

\* Every step of a request, however stale what it has read, is a reservation, an
\* attachment or a confirmation that Billing allows, or changes none of its state:
\* what is proved of Billing holds under any number of concurrent requests.
THEOREM CheckoutImplementsBilling == CheckoutSpec => ImplementsBilling
<1>1. CheckoutInit => Init
  BY DEF CheckoutInit
<1> QED
  BY <1>1, StepMaps, CheckoutInvariant, PTL DEF CheckoutSpec, ImplementsBilling, Spec

\* Of the URLs handed out, at most one leads to a session that can still be paid.
THEOREM OneUsableUrl == CheckoutSpec => []OneOpenUrl
<1>1. CheckoutInv => OneOpenUrl
  <2> SUFFICES ASSUME CheckoutInv, NEW a \in Attempt, checkout[a] = "open"
               PROVE  a = attempt.id
    BY DEF OneOpenUrl, CheckoutInv, CheckoutTypeOK
  <2>1. ~(a < attempt.id) /\ ~(attempt.id < a)
    BY DEF CheckoutInv, BillingInv, StripeInv
  <2>2. attempt.id \in Nat /\ a \in Nat
    BY AttemptTypes, SubTypes, BillingConstants DEF CheckoutInv, BillingInv
  <2> QED
    BY <2>1, <2>2
<1> QED
  BY <1>1, CheckoutInvariant, PTL

\* No attempt gets a second session because Stripe has forgotten its key.
THEOREM KeysOutliveDispatch == CheckoutSpec => []OneSessionPerAttempt
<1>1. CheckoutInv => OneSessionPerAttempt
  BY DEF CheckoutInv, OneSessionPerAttempt
<1> QED
  BY <1>1, CheckoutInvariant, PTL
=============================================================================
