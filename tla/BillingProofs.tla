---------------------------- MODULE BillingProofs ----------------------------
(***************************************************************************)
(* Invariants and action properties of Billing, proved for every value of  *)
(* its constants: any number of attempts, strangers, events, deliveries    *)
(* and failures.                                                           *)
(*                                                                         *)
(* One sale at a time rests on Stripe's side: an attempt is replaced only  *)
(* when its session can never be paid again, and terminal proof on the     *)
(* account is true of the subscription.  Agreement after all deliveries    *)
(* rests on one fact about each processed event of the current attempt:    *)
(* either the account has its subscription and is not older, or an event   *)
(* of another subscription that is no older had been applied before it;    *)
(* and no such event is as new as the payment.                             *)
(***************************************************************************)
EXTENDS Billing, SequenceTheorems, TLAPS

Dead(a) == subs[a] \in {"none", "canceled"}

\* Sessions and subscriptions by the attempt that is current.
StripeInv ==
    \A a \in Attempt :
        /\ a < attempt.id => checkout[a] # "open" /\ Dead(a)
        /\ attempt.id < a => checkout[a] = "none"
        /\ checkout[a] = "none" => subs[a] = "none"
        /\ checkout[a] = "open" => subs[a] \in {"none", "past_due"}
        /\ checkout[a] = "expired" => Dead(a)
        /\ checkout[a] = "complete" => subs[a] # "none"

\* Event p reports the payment of attempt a.
Pays(p, a) == log[p].sub = a /\ log[p].status = "checkout_completed"

\* Event i is as new as any of subscription s, and tells its state.
Latest(i, s) ==
    /\ log[i].sub = s
    /\ BillingOf(log[i].status) = BillingOf(subs[s])
    /\ \A j \in DOMAIN log : log[j].sub = s => log[j].created <= log[i].created

\* What the events say is true of Stripe, and a paid session has its events.
LogInv ==
    /\ \A i \in DOMAIN log :
           /\ log[i].created <= second
           /\ log[i].attempt = (IF log[i].sub \in Stranger THEN 0 ELSE log[i].sub)
           /\ Terminal(log[i].status) => subs[log[i].sub] = "canceled"
           /\ log[i].sub \in Attempt => checkout[log[i].sub] # "none"
    /\ \A a \in Attempt : checkout[a] = "complete" =>
           /\ \E p \in DOMAIN log : Pays(p, a)
           /\ \E i \in DOMAIN log : Latest(i, a)

\* The event whose status and second the account shows.
Shown(j) ==
    /\ log[j].sub = account.sub
    /\ log[j].created = account.at
    /\ account.billing = BillingOf(log[j].status)

\* The account: terminal proof is true, and a current attempt never waits for
\* another subscription to end.
AccountInv ==
    /\ Terminal(account.status) => account.terminal = account.sub /\ account.sub # NoSub
    /\ account.terminal # NoSub => subs[account.terminal] = "canceled"
    /\ attempt # NoAttempt => account.sub \in {NoSub, attempt.id} \/ HasTerminal
    /\ account.at # NoStamp => \E j \in applied : Shown(j)

\* An event is claimed by one transaction at a time, and never once processed.
ClaimInv ==
    /\ \A d \in inflight : d.event \notin ledger
    /\ \A c, d \in inflight : c.event = d.event => c = d

\* Event j of another subscription than the current attempt's was applied.
Foreign(j) == j \in applied /\ log[j].sub # attempt.id

\* The payment is newer than all that other subscriptions brought to the account.
PaymentIsNewer ==
    \A p \in DOMAIN log : Pays(p, attempt.id) =>
        \A j \in DOMAIN log :
            (log[j].sub # attempt.id /\ (j \in applied \/ log[j].sub = account.sub))
                => log[j].created < log[p].created

\* A processed event of the current attempt was applied, is older than the event
\* the account shows, or came when another subscription had shown a newer one.
ProcessedIsKnown ==
    \A i \in ledger :
        (log[i].sub = attempt.id /\ subs[attempt.id] # "canceled") =>
            \/ /\ account.sub = attempt.id
               /\ ~cleaned => log[i].created <= account.at
            \/ \E j \in ledger : Foreign(j) /\ log[i].created <= log[j].created

BillingInv ==
    /\ TypeOK
    /\ StripeInv
    /\ LogInv
    /\ AccountInv
    /\ ClaimInv
    /\ PaymentIsNewer
    /\ ProcessedIsKnown

---------------------------------------------------------------------------
(* The log                                                                 *)

LEMMA LogTypes ==
    ASSUME TypeOK
    PROVE  /\ DOMAIN log = 1 .. Len(log) /\ Len(log) \in Nat
           /\ \A i \in DOMAIN log :
                 /\ log[i] \in Event
                 /\ log[i].sub \in Sub /\ log[i].status \in EventStatus
                 /\ log[i].created \in Nat /\ 1 <= log[i].created
<1>1. DOMAIN log = 1 .. Len(log) /\ Len(log) \in Nat
  BY LenProperties DEF TypeOK
<1>2. \A i \in DOMAIN log : log[i] \in Event
  BY <1>1, ElementOfSeq DEF TypeOK
<1> QED
  BY <1>1, <1>2 DEF Event

\* Ids of attempts are not ids of strangers, and 0 is neither.
LEMMA SubTypes ==
    /\ Attempt \subseteq Nat /\ Stranger \subseteq Nat
    /\ \A s \in Sub : s # 0
    /\ \A a \in Attempt : a \notin Stranger
    /\ \A s \in Sub : s \in Attempt \/ s \in Stranger
BY BillingConstants DEF Attempt, Sub

\* The step adds events of s to the log, with the statuses st, in Stripe's order.
Emits(s, st) ==
    /\ log' \in Seq(Event)
    /\ second' \in 1 .. MaxSecond
    /\ second <= second'
    /\ \A i \in DOMAIN log : i \in DOMAIN log' /\ log'[i] = log[i]
    /\ \A i \in DOMAIN log' : i \notin DOMAIN log =>
           /\ log'[i].sub = s
           /\ log'[i].attempt = (IF s \in Stranger THEN 0 ELSE s)
           /\ log'[i].status \in st
           /\ log'[i].created = second'
    /\ \A t \in st : \E i \in DOMAIN log' : i \notin DOMAIN log /\ log'[i].status = t

LEMMA IntervalEnd ==
    ASSUME NEW m \in Nat, NEW n \in Nat, 1 .. m = 1 .. n
    PROVE  m = n
<1>1. \A i \in Nat \ {0} : i <= m <=> i <= n
  <2>1. \A i \in Nat \ {0} : i \in 1 .. m <=> i <= m
    OBVIOUS
  <2>2. \A i \in Nat \ {0} : i \in 1 .. n <=> i <= n
    OBVIOUS
  <2> QED
    BY <2>1, <2>2
<1>2. m = 0 => n = 0
  BY <1>1
<1>3. n = 0 => m = 0
  BY <1>1
<1> QED
  BY <1>1, <1>2, <1>3

LEMMA EmitAdds ==
    ASSUME TypeOK, NEW s \in Sub, NEW statuses \in Seq(EventStatus),
           Emit(s, statuses)
    PROVE  Emits(s, {statuses[n] : n \in DOMAIN statuses})
<1> DEFINE new == [n \in DOMAIN statuses |->
                     [sub |-> s, attempt |-> IF s \in Stranger THEN 0 ELSE s,
                      status |-> statuses[n], created |-> second']]
           N == Len(statuses)
<1>1. /\ second' \in 1 .. MaxSecond /\ second <= second'
      /\ log' = log \o new
  BY BillingConstants DEF Emit, TypeOK
<1>2. N \in Nat /\ DOMAIN statuses = 1 .. N
      /\ \A n \in 1 .. N : statuses[n] \in EventStatus
  BY LenProperties
<1>3. new \in [1 .. N -> Event]
  <2>1. (IF s \in Stranger THEN 0 ELSE s) \in {0} \cup Attempt
    BY SubTypes
  <2> QED
    BY <1>1, <1>2, <2>1 DEF Event
<1>4. new \in Seq(Event)
  BY <1>2, <1>3, SeqDef
<1>5. Len(new) = N
  <2>1. DOMAIN new = 1 .. Len(new) /\ Len(new) \in Nat
    BY <1>4, LenProperties
  <2>2. DOMAIN new = 1 .. N
    BY <1>2
  <2> HIDE DEF new, N
  <2> QED
    BY <1>2, <2>1, <2>2, IntervalEnd
<1>6. \A n \in 1 .. N :
         /\ new[n].sub = s /\ new[n].attempt = (IF s \in Stranger THEN 0 ELSE s)
         /\ new[n].status = statuses[n] /\ new[n].created = second'
  BY <1>2
<1> HIDE DEF new
<1>7. /\ log' \in Seq(Event)
      /\ Len(log') = Len(log) + N
      /\ \A i \in 1 .. Len(log) + N :
            log'[i] = IF i <= Len(log) THEN log[i] ELSE new[i - Len(log)]
  <2> HIDE DEF N
  <2>1. log \in Seq(Event)
    BY DEF TypeOK
  <2>2. /\ log \o new \in Seq(Event)
        /\ Len(log \o new) = Len(log) + Len(new)
        /\ \A i \in 1 .. Len(log) + Len(new) :
              (log \o new)[i] = IF i <= Len(log) THEN log[i] ELSE new[i - Len(log)]
    BY <1>4, <2>1, ConcatProperties
  <2> QED
    BY <1>1, <1>5, <2>2
<1>8. DOMAIN log = 1 .. Len(log) /\ Len(log) \in Nat /\ DOMAIN log' = 1 .. Len(log) + N
  BY <1>7, LogTypes, LenProperties
<1>9. \A i \in DOMAIN log : i \in DOMAIN log' /\ log'[i] = log[i]
  BY <1>2, <1>7, <1>8
<1>10. \A i \in DOMAIN log' : i \notin DOMAIN log =>
          i - Len(log) \in 1 .. N /\ log'[i] = new[i - Len(log)]
  BY <1>2, <1>7, <1>8
<1>11. \A n \in 1 .. N : n + Len(log) \in DOMAIN log'
                          /\ n + Len(log) \notin DOMAIN log
                          /\ log'[n + Len(log)] = new[n]
  BY <1>2, <1>7, <1>8
<1> HIDE DEF N
<1> DEFINE st == {statuses[n] : n \in DOMAIN statuses}
<1>12. ASSUME NEW i \in DOMAIN log', i \notin DOMAIN log
       PROVE  /\ log'[i].sub = s
              /\ log'[i].attempt = (IF s \in Stranger THEN 0 ELSE s)
              /\ log'[i].status \in st
              /\ log'[i].created = second'
  BY <1>2, <1>6, <1>10, <1>12
<1>13. ASSUME NEW t \in st
       PROVE  \E i \in DOMAIN log' : i \notin DOMAIN log /\ log'[i].status = t
  BY <1>2, <1>6, <1>11
<1> HIDE DEF st
<1>14. Emits(s, st)
  BY <1>1, <1>7, <1>9, <1>12, <1>13 DEF Emits
<1> QED
  BY <1>14 DEF st

LEMMA EmitOne ==
    ASSUME TypeOK, NEW s \in Sub, NEW t \in EventStatus, Emit(s, <<t>>)
    PROVE  Emits(s, {t})
<1>1. <<t>> \in Seq(EventStatus)
  OBVIOUS
<1>2. {<<t>>[n] : n \in DOMAIN <<t>>} = {t}
  OBVIOUS
<1> QED
  BY <1>1, <1>2, EmitAdds

LEMMA EmitTwo ==
    ASSUME TypeOK, NEW s \in Sub, NEW t \in EventStatus, NEW u \in EventStatus,
           Emit(s, <<t, u>>)
    PROVE  Emits(s, {t, u})
<1>1. <<t, u>> \in Seq(EventStatus)
  OBVIOUS
<1>2. {<<t, u>>[n] : n \in DOMAIN <<t, u>>} = {t, u}
  OBVIOUS
<1> QED
  BY <1>1, <1>2, EmitAdds

---------------------------------------------------------------------------
(* Stripe's steps                                                          *)

LEMMA TerminalProof ==
    ASSUME BillingInv, HasTerminal
    PROVE  /\ account.sub # NoSub /\ account.terminal = account.sub
           /\ subs[account.sub] = "canceled"
BY DEF BillingInv, AccountInv, HasTerminal

LEMMA AttemptTypes ==
    ASSUME TypeOK
    PROVE  /\ attempt.id \in 0 .. MaxAttempts
           /\ attempt # NoAttempt <=> attempt.id \in Attempt
           /\ attempt # NoAttempt <=> attempt.id # 0
           /\ attempt # NoAttempt => attempt \in AttemptRow
<1>1. CASE attempt = NoAttempt
  BY <1>1, BillingConstants DEF NoAttempt, Attempt
<1>2. CASE attempt # NoAttempt
  <2>1. attempt \in AttemptRow
    BY <1>2 DEF TypeOK
  <2>2. attempt.id \in Attempt
    BY <2>1 DEF AttemptRow
  <2> QED
    BY <1>2, <2>1, <2>2, BillingConstants DEF Attempt
<1> QED
  BY <1>1, <1>2

\* Stripe changes subscription s to status x and emits events of the statuses st.
StripeStep(s, st, x) ==
    /\ s \in Sub /\ subs[s] # "canceled"
    /\ s \in Attempt => s = attempt.id
    /\ x \in {"active", "canceling", "past_due", "canceled"}
    /\ subs' = [subs EXCEPT ![s] = x]
    /\ Emits(s, st)
    /\ \E t \in st : BillingOf(t) = BillingOf(x)
    /\ "canceled" \in st => x = "canceled"
    /\ checkout' \in [Attempt -> {"none", "open", "complete", "expired"}]
    /\ \A a \in Attempt : a # s => checkout'[a] = checkout[a]
    /\ s \in Attempt => checkout'[s] # "none"
    /\ (s \in Attempt /\ checkout'[s] = "complete")
           => checkout[s] = "complete" \/ "checkout_completed" \in st
    /\ "checkout_completed" \in st =>
           \A i \in DOMAIN log : log[i].sub # s => log[i].created < second'
    /\ UNCHANGED <<account, attempt, webhook, cleaned>>

LEMMA StripeStepTypes ==
    ASSUME TypeOK, NEW s, NEW st, NEW x, StripeStep(s, st, x)
    PROVE  TypeOK'
<1>1. subs' \in [Sub -> {"none", "active", "canceling", "past_due", "canceled"}]
  BY DEF StripeStep, TypeOK
<1>2. DOMAIN log \subseteq DOMAIN log'
  BY DEF StripeStep, Emits
<1>3. ledger' \subseteq DOMAIN log' /\ inflight' \subseteq
         [event : DOMAIN log', order : 1 .. receipts']
  BY <1>2 DEF StripeStep, TypeOK, webhook
<1> QED
  BY <1>1, <1>3 DEF StripeStep, Emits, TypeOK, webhook

LEMMA StripeStepKeepsLog ==
    ASSUME BillingInv, NEW s, NEW st, NEW x, StripeStep(s, st, x)
    PROVE  LogInv'
<1>1. /\ \A i \in DOMAIN log : i \in DOMAIN log' /\ log'[i] = log[i]
      /\ \A i \in DOMAIN log' : i \notin DOMAIN log =>
             /\ log'[i].sub = s
             /\ log'[i].attempt = (IF s \in Stranger THEN 0 ELSE s)
             /\ log'[i].status \in st
             /\ log'[i].created = second'
      /\ \A t \in st : \E i \in DOMAIN log' : i \notin DOMAIN log /\ log'[i].status = t
      /\ second <= second' /\ second \in Nat /\ second' \in Nat
  BY DEF StripeStep, Emits, BillingInv, TypeOK
<1>2. /\ s \in Sub /\ subs'[s] = x
      /\ \A r \in Sub : r # s => subs'[r] = subs[r]
      /\ subs[s] # "canceled"
  BY DEF StripeStep, BillingInv, TypeOK
<1>3. \A i \in DOMAIN log : /\ log[i].created \in Nat /\ log[i].sub \in Sub
                            /\ log[i].created <= second
  BY LogTypes DEF BillingInv, LogInv
<1>4. \A i \in DOMAIN log' : log'[i].created <= second'
  <2> SUFFICES ASSUME NEW i \in DOMAIN log' PROVE log'[i].created <= second'
    OBVIOUS
  <2>1. CASE i \in DOMAIN log
    <3>1. log'[i].created = log[i].created
      BY <1>1, <2>1
    <3> QED
      BY <1>1, <1>3, <2>1, <3>1
  <2>2. CASE i \notin DOMAIN log
    BY <1>1, <2>2
  <2> QED
    BY <2>1, <2>2
<1>5. \A i \in DOMAIN log' :
         /\ log'[i].attempt = (IF log'[i].sub \in Stranger THEN 0 ELSE log'[i].sub)
         /\ Terminal(log'[i].status) => subs'[log'[i].sub] = "canceled"
         /\ log'[i].sub \in Attempt => checkout'[log'[i].sub] # "none"
  <2> SUFFICES ASSUME NEW i \in DOMAIN log'
               PROVE  /\ log'[i].attempt =
                            (IF log'[i].sub \in Stranger THEN 0 ELSE log'[i].sub)
                      /\ Terminal(log'[i].status) => subs'[log'[i].sub] = "canceled"
                      /\ log'[i].sub \in Attempt => checkout'[log'[i].sub] # "none"
    OBVIOUS
  <2>1. CASE i \in DOMAIN log
    <3>1. log'[i] = log[i]
      BY <1>1, <2>1
    <3>2. Terminal(log[i].status) => log[i].sub # s
      BY <1>2, <2>1 DEF BillingInv, LogInv
    <3>3. log[i].sub \in Attempt => checkout'[log[i].sub] # "none"
      BY <2>1 DEF BillingInv, LogInv, StripeStep
    <3> QED
      BY <1>2, <1>3, <2>1, <3>1, <3>2, <3>3 DEF BillingInv, LogInv
  <2>2. CASE i \notin DOMAIN log
    <3>1. log'[i].sub = s /\ log'[i].status \in st
          /\ log'[i].attempt = (IF s \in Stranger THEN 0 ELSE s)
      BY <1>1, <2>2
    <3> QED
      BY <1>2, <3>1 DEF StripeStep, Terminal
  <2> QED
    BY <2>1, <2>2
<1>6. ASSUME NEW a \in Attempt, checkout'[a] = "complete"
      PROVE  \E p \in DOMAIN log' : Pays(p, a)'
  <2>1. CASE checkout[a] = "complete"
    <3>1. PICK p \in DOMAIN log : Pays(p, a)
      BY <2>1 DEF BillingInv, LogInv
    <3> QED
      BY <1>1, <3>1 DEF Pays
  <2>2. CASE checkout[a] # "complete"
    <3>1. a = s /\ "checkout_completed" \in st
      BY <1>6, <2>2 DEF StripeStep
    <3>2. PICK p \in DOMAIN log' : p \notin DOMAIN log
                                   /\ log'[p].status = "checkout_completed"
      BY <1>1, <3>1
    <3> QED
      BY <1>1, <3>1, <3>2 DEF Pays
  <2> QED
    BY <2>1, <2>2
<1>7. ASSUME NEW a \in Attempt, checkout'[a] = "complete"
      PROVE  \E i \in DOMAIN log' : Latest(i, a)'
  <2>1. CASE a = s
    <3>1. PICK t \in st : BillingOf(t) = BillingOf(x)
      BY DEF StripeStep
    <3>2. PICK i \in DOMAIN log' : i \notin DOMAIN log /\ log'[i].status = t
      BY <1>1, <3>1
    <3>3. log'[i].sub = a /\ log'[i].created = second'
      BY <1>1, <2>1, <3>2
    <3>4. BillingOf(log'[i].status) = BillingOf(subs'[a])
      BY <1>2, <2>1, <3>1, <3>2
    <3> QED
      BY <1>4, <3>3, <3>4 DEF Latest, BillingOf
  <2>2. CASE a # s
    <3>1. checkout[a] = "complete" /\ subs'[a] = subs[a]
      BY <1>2, <1>7, <2>2 DEF StripeStep, Sub
    <3>2. PICK i \in DOMAIN log : Latest(i, a)
      BY <3>1 DEF BillingInv, LogInv
    <3>3. i \in DOMAIN log' /\ log'[i] = log[i]
      BY <1>1, <3>2
    <3>4. log'[i].sub = a /\ BillingOf(log'[i].status) = BillingOf(subs'[a])
      BY <3>1, <3>2, <3>3 DEF Latest
    <3>5. \A j \in DOMAIN log' : log'[j].sub = a => log'[j].created <= log'[i].created
      BY <1>1, <2>2, <3>2, <3>3 DEF Latest
    <3> QED
      BY <3>3, <3>4, <3>5 DEF Latest, BillingOf
  <2> QED
    BY <2>1, <2>2
<1> QED
  BY <1>4, <1>5, <1>6, <1>7 DEF LogInv

LEMMA StripeStepKeepsRest ==
    ASSUME BillingInv, NEW s, NEW st, NEW x, StripeStep(s, st, x)
    PROVE  AccountInv' /\ ClaimInv' /\ PaymentIsNewer' /\ ProcessedIsKnown'
<1>1. /\ \A i \in DOMAIN log : i \in DOMAIN log' /\ log'[i] = log[i]
      /\ \A i \in DOMAIN log' : i \notin DOMAIN log =>
             /\ log'[i].sub = s /\ log'[i].status \in st
             /\ log'[i].created = second'
  BY DEF StripeStep, Emits
<1>2. /\ s \in Sub /\ subs[s] # "canceled"
      /\ \A r \in Sub : r # s => subs'[r] = subs[r]
      /\ UNCHANGED <<account, attempt, ledger, inflight, applied, cleaned>>
  BY DEF StripeStep, BillingInv, TypeOK, webhook
<1>3. applied \subseteq DOMAIN log /\ ledger \subseteq DOMAIN log
      /\ applied \subseteq ledger
  BY DEF BillingInv, TypeOK
<1>4. AccountInv'
  <2>1. account.terminal # NoSub => subs'[account.terminal] = "canceled"
    <3>1. account.terminal \in {NoSub} \cup Sub
      BY DEF BillingInv, TypeOK, Account
    <3> QED
      BY <1>2, <3>1 DEF BillingInv, AccountInv
  <2>2. account.at # NoStamp => \E j \in applied : Shown(j)'
    <3> SUFFICES ASSUME account.at # NoStamp PROVE \E j \in applied : Shown(j)'
      OBVIOUS
    <3>1. PICK j \in applied : Shown(j)
      BY DEF BillingInv, AccountInv
    <3>2. log'[j] = log[j]
      BY <1>1, <1>3
    <3> QED
      BY <1>2, <3>1, <3>2 DEF Shown, BillingOf
  <2> QED
    BY <1>2, <2>1, <2>2 DEF BillingInv, AccountInv, HasTerminal
<1>5. ClaimInv'
  BY <1>2 DEF BillingInv, ClaimInv
<1>6. PaymentIsNewer'
  <2> SUFFICES ASSUME NEW p \in DOMAIN log', Pays(p, attempt.id)',
                      NEW j \in DOMAIN log', log'[j].sub # attempt.id,
                      j \in applied \/ log'[j].sub = account.sub
               PROVE  log'[j].created < log'[p].created
    BY <1>2 DEF PaymentIsNewer
  <2>1. log'[p].sub = attempt.id /\ log'[p].status = "checkout_completed"
    BY <1>2 DEF Pays
  <2>2. CASE p \notin DOMAIN log
    <3>1. attempt.id = s /\ "checkout_completed" \in st /\ log'[p].created = second'
      BY <1>1, <2>1, <2>2
    <3>2. j \in DOMAIN log /\ log'[j] = log[j]
      BY <1>1, <3>1
    <3> QED
      BY <3>1, <3>2 DEF StripeStep
  <2>3. CASE p \in DOMAIN log /\ j \in DOMAIN log
    <3>1. log'[p] = log[p] /\ log'[j] = log[j] /\ Pays(p, attempt.id)
      BY <1>1, <2>1, <2>3 DEF Pays
    <3> QED
      BY <2>3, <3>1 DEF BillingInv, PaymentIsNewer
  <2>4. CASE p \in DOMAIN log /\ j \notin DOMAIN log
    <3>1. log'[j].sub = s /\ s # attempt.id /\ j \notin applied /\ account.sub = s
      BY <1>1, <1>3, <2>4
    <3>2. attempt.id \in Sub
      BY <1>1, <2>1, <2>4, LogTypes DEF BillingInv
    <3>3. attempt # NoAttempt /\ s # NoSub
      BY <1>2, <3>2, SubTypes DEF NoAttempt, NoSub
    <3>4. HasTerminal
      BY <3>1, <3>3 DEF BillingInv, AccountInv
    <3> QED
      BY <1>2, <3>1, <3>4, TerminalProof
  <2> QED
    BY <2>2, <2>3, <2>4
<1>7. ProcessedIsKnown'
  <2> SUFFICES ASSUME NEW i \in ledger, log'[i].sub = attempt.id,
                      subs'[attempt.id] # "canceled"
               PROVE  \/ /\ account.sub = attempt.id
                         /\ ~cleaned => log'[i].created <= account.at
                      \/ \E j \in ledger :
                            Foreign(j)' /\ log'[i].created <= log'[j].created
    BY <1>2 DEF ProcessedIsKnown
  <2>1. i \in DOMAIN log /\ log'[i] = log[i]
    BY <1>1, <1>3
  <2>2. subs[attempt.id] # "canceled"
    <3>1. attempt.id \in Sub
      BY <2>1, LogTypes DEF BillingInv
    <3> QED
      BY <1>2, <3>1
  <2>3. \/ /\ account.sub = attempt.id
           /\ ~cleaned => log[i].created <= account.at
        \/ \E j \in ledger : Foreign(j) /\ log[i].created <= log[j].created
    BY <2>1, <2>2 DEF BillingInv, ProcessedIsKnown
  <2>4. \A j \in ledger : log'[j] = log[j] /\ (Foreign(j) => Foreign(j)')
    BY <1>1, <1>2, <1>3 DEF Foreign
  <2> QED
    BY <2>1, <2>3, <2>4
<1> QED
  BY <1>4, <1>5, <1>6, <1>7

LEMMA StripeStepKeeps ==
    ASSUME BillingInv, NEW s, NEW st, NEW x, StripeStep(s, st, x), StripeInv'
    PROVE  BillingInv'
BY StripeStepTypes, StripeStepKeepsLog, StripeStepKeepsRest DEF BillingInv

LEMMA PayFailsKeeps ==
    ASSUME BillingInv, NEW a \in Attempt, PayFails(a)
    PROVE  BillingInv'
<1>1. Emits(a, {"past_due"})
  BY EmitOne DEF PayFails, BillingInv, Sub, EventStatus
<1>2. a = attempt.id
  BY SubTypes, AttemptTypes DEF PayFails, BillingInv, StripeInv
<1>3. StripeStep(a, {"past_due"}, "past_due")
  BY <1>1, <1>2 DEF StripeStep, PayFails, BillingInv, TypeOK, Sub
<1>4. StripeInv'
  <2>1. /\ subs'[a] = "past_due" /\ checkout' = checkout /\ attempt' = attempt
        /\ \A b \in Attempt : b # a => subs'[b] = subs[b]
    BY DEF PayFails, BillingInv, TypeOK, Sub
  <2>2. ~(a < attempt.id)
    BY <1>2, SubTypes
  <2> QED
    BY <2>1, <2>2 DEF PayFails, BillingInv, StripeInv, Dead
<1> QED
  BY <1>3, <1>4, StripeStepKeeps

LEMMA PayKeeps ==
    ASSUME BillingInv, NEW a \in Attempt, Pay(a)
    PROVE  BillingInv'
<1> DEFINE st == {"checkout_completed", "active"}
<1>1. Emits(a, st)
  BY EmitTwo DEF Pay, BillingInv, Sub, EventStatus
<1>2. a = attempt.id
  BY SubTypes, AttemptTypes DEF Pay, BillingInv, StripeInv
<1>3. /\ checkout'[a] = "complete"
      /\ checkout' \in [Attempt -> {"none", "open", "complete", "expired"}]
      /\ \A b \in Attempt : b # a => checkout'[b] = checkout[b]
  BY DEF Pay, BillingInv, TypeOK
<1>4. StripeStep(a, st, "active")
  <2>1. \A i \in DOMAIN log : log[i].sub # a => log[i].created < second'
    BY DEF Pay
  <2> QED
    BY <1>1, <1>2, <1>3, <2>1 DEF StripeStep, Pay, BillingInv, TypeOK, Sub
<1>5. StripeInv'
  <2>1. /\ subs'[a] = "active" /\ attempt' = attempt
        /\ \A b \in Attempt : b # a => subs'[b] = subs[b]
    BY DEF Pay, BillingInv, TypeOK, Sub
  <2>2. ~(a < attempt.id) /\ ~(attempt.id < a)
    BY <1>2, SubTypes
  <2> QED
    BY <1>3, <2>1, <2>2 DEF BillingInv, StripeInv, Dead
<1> QED
  BY <1>4, <1>5, StripeStepKeeps

LEMMA StatusChangeKeeps ==
    ASSUME BillingInv, NEW s \in Sub,
           NEW x \in {"active", "canceling", "past_due", "canceled"},
           StatusChange(s, x)
    PROVE  BillingInv'
<1>1. Emits(s, {x})
  BY EmitOne DEF StatusChange, BillingInv, EventStatus
<1>2. s \in Attempt => s = attempt.id
  BY SubTypes, AttemptTypes DEF StatusChange, BillingInv, StripeInv, Dead
<1>3. StripeStep(s, {x}, x)
  BY <1>1, <1>2 DEF StripeStep, StatusChange, BillingInv, TypeOK
<1>4. StripeInv'
  <2>1. /\ subs'[s] = x /\ attempt' = attempt /\ checkout' = checkout
        /\ \A b \in Sub : b # s => subs'[b] = subs[b]
        /\ Attempt \subseteq Sub
    BY DEF StatusChange, BillingInv, TypeOK, Sub
  <2>2. s \in Attempt => ~(s < attempt.id) /\ checkout[s] = "complete"
    BY <1>2, SubTypes DEF StatusChange
  <2> QED
    BY <2>1, <2>2 DEF BillingInv, StripeInv, Dead
<1> QED
  BY <1>3, <1>4, StripeStepKeeps

LEMMA StrangerStartsKeeps ==
    ASSUME BillingInv, NEW s \in Stranger, StrangerStarts(s)
    PROVE  BillingInv'
<1>1. s \in Sub /\ s \notin Attempt
  BY SubTypes DEF Sub
<1>2. Emits(s, {"active"})
  BY <1>1, EmitOne DEF StrangerStarts, BillingInv, EventStatus
<1>3. StripeStep(s, {"active"}, "active")
  BY <1>1, <1>2 DEF StripeStep, StrangerStarts, BillingInv, TypeOK
<1>4. StripeInv'
  BY <1>1 DEF StrangerStarts, BillingInv, TypeOK, StripeInv, Dead, Sub
<1> QED
  BY <1>3, <1>4, StripeStepKeeps

\* A step of Stripe without an event.
LEMMA SilentKeeps ==
    ASSUME BillingInv, NEW a \in Attempt,
           NEW x \in {"open", "expired"},
           x = "open" => checkout[a] = "none" /\ attempt.id = a,
           x = "expired" => checkout[a] = "open" /\ subs[a] = "none",
           checkout' = [checkout EXCEPT ![a] = x],
           UNCHANGED <<account, attempt, subs, log, second, webhook, cleaned>>
    PROVE  BillingInv'
<1>1. /\ checkout'[a] = x /\ checkout[a] \in {"none", "open"}
      /\ \A b \in Attempt : b # a => checkout'[b] = checkout[b]
  BY DEF BillingInv, TypeOK
<1>2. TypeOK'
  BY DEF BillingInv, TypeOK, webhook
<1>3. StripeInv'
  <2>1. x = "open" => ~(a < attempt.id) /\ ~(attempt.id < a)
    BY SubTypes
  <2>2. x = "expired" => ~(attempt.id < a)
    BY DEF BillingInv, StripeInv
  <2> QED
    BY <1>1, <2>1, <2>2 DEF BillingInv, StripeInv, Dead
<1>4. LogInv'
  <2>1. \A b \in Attempt : /\ checkout'[b] = "complete" => checkout[b] = "complete"
                           /\ checkout[b] # "none" => checkout'[b] # "none"
    BY <1>1
  <2> QED
    BY <2>1 DEF BillingInv, LogInv, Pays, Latest
<1>5. AccountInv' /\ ClaimInv' /\ PaymentIsNewer' /\ ProcessedIsKnown'
  BY DEF BillingInv, AccountInv, HasTerminal, Shown, ClaimInv, PaymentIsNewer, Pays,
     ProcessedIsKnown, Foreign, webhook
<1> QED
  BY <1>2, <1>3, <1>4, <1>5 DEF BillingInv

LEMMA SessionOpensKeeps ==
    ASSUME BillingInv, NEW a \in Attempt, SessionOpens(a)
    PROVE  BillingInv'
BY SilentKeeps DEF SessionOpens

LEMMA SessionExpiresKeeps ==
    ASSUME BillingInv, NEW a \in Attempt, SessionExpires(a)
    PROVE  BillingInv'
<1>1. CASE subs[a] # "past_due"
  <2>1. subs[a] = "none" /\ checkout[a] = "open"
    BY <1>1 DEF SessionExpires, BillingInv, StripeInv
  <2> QED
    BY <1>1, <2>1, SilentKeeps DEF SessionExpires
<1>2. CASE subs[a] = "past_due"
  <2>1. Emits(a, {"canceled"})
    BY <1>2, EmitOne DEF SessionExpires, BillingInv, Sub, EventStatus
  <2>2. a = attempt.id
    BY SubTypes, AttemptTypes DEF SessionExpires, BillingInv, StripeInv
  <2>3. /\ checkout'[a] = "expired"
        /\ checkout' \in [Attempt -> {"none", "open", "complete", "expired"}]
        /\ \A b \in Attempt : b # a => checkout'[b] = checkout[b]
    BY DEF SessionExpires, BillingInv, TypeOK
  <2>4. StripeStep(a, {"canceled"}, "canceled")
    BY <1>2, <2>1, <2>2, <2>3 DEF StripeStep, SessionExpires, BillingInv, TypeOK, Sub
  <2>5. StripeInv'
    <3>1. /\ subs'[a] = "canceled" /\ attempt' = attempt
          /\ \A b \in Attempt : b # a => subs'[b] = subs[b]
      BY <1>2 DEF SessionExpires, BillingInv, TypeOK, Sub
    <3>2. ~(attempt.id < a)
      BY <2>2, SubTypes
    <3> QED
      BY <2>3, <3>1, <3>2 DEF BillingInv, StripeInv, Dead
  <2> QED
    BY <2>4, <2>5, StripeStepKeeps
<1> QED
  BY <1>1, <1>2

---------------------------------------------------------------------------
(* Webhook deliveries                                                      *)

LEMMA ReceiveKeeps ==
    ASSUME BillingInv, NEW i \in DOMAIN log, Receive(i)
    PROVE  BillingInv'
<1> DEFINE d == [event |-> i, order |-> receipts + 1]
<1>1. /\ inflight' = inflight \cup {d} /\ receipts' = receipts + 1
      /\ i \notin ledger /\ \A c \in inflight : c.event # i
      /\ UNCHANGED <<account, attempt, checkout, subs, log, second, ledger, failures,
                     applied, cleaned>>
  BY DEF Receive, Claimable, stripe
<1>2. TypeOK'
  <2>1. receipts \in Nat /\ inflight \subseteq [event : DOMAIN log, order : 1 .. receipts]
    BY DEF BillingInv, TypeOK
  <2>2. 1 .. receipts \subseteq 1 .. receipts' /\ receipts + 1 \in 1 .. receipts'
        /\ receipts' \in Nat
    BY <1>1, <2>1
  <2>3. inflight' \subseteq [event : DOMAIN log, order : 1 .. receipts']
    BY <1>1, <2>1, <2>2
  <2> QED
    BY <1>1, <2>2, <2>3 DEF BillingInv, TypeOK
<1>3. d.event = i
  OBVIOUS
<1> HIDE DEF d
<1>4. ClaimInv'
  BY <1>1, <1>3 DEF BillingInv, ClaimInv
<1>5. StripeInv' /\ LogInv' /\ AccountInv' /\ PaymentIsNewer' /\ ProcessedIsKnown'
  BY <1>1 DEF BillingInv, StripeInv, Dead, LogInv, Pays, Latest, AccountInv,
     HasTerminal, Shown, PaymentIsNewer, ProcessedIsKnown, Foreign
<1> QED
  BY <1>2, <1>4, <1>5 DEF BillingInv

LEMMA FailKeeps ==
    ASSUME BillingInv, NEW d \in inflight, Fail(d)
    PROVE  BillingInv'
<1>1. /\ inflight' \subseteq inflight
      /\ UNCHANGED <<account, attempt, checkout, subs, log, second, ledger, receipts,
                     applied, cleaned>>
  BY DEF Fail, stripe
<1>2. failures' \in 0 .. MaxFailures
  BY BillingConstants DEF Fail, BillingInv, TypeOK
<1>3. TypeOK' /\ ClaimInv'
  BY <1>1, <1>2 DEF BillingInv, TypeOK, ClaimInv
<1>4. StripeInv' /\ LogInv' /\ AccountInv' /\ PaymentIsNewer' /\ ProcessedIsKnown'
  BY <1>1 DEF BillingInv, StripeInv, Dead, LogInv, Pays, Latest, AccountInv,
     HasTerminal, Shown, PaymentIsNewer, ProcessedIsKnown, Foreign
<1> QED
  BY <1>3, <1>4 DEF BillingInv

\* An event of the current attempt that does not end it is always authorized:
\* the account has no subscription, this one, or one that has ended.
LEMMA AttemptIsAuthorized ==
    ASSUME BillingInv, NEW i \in DOMAIN log, log[i].sub = attempt.id,
           subs[attempt.id] # "canceled"
    PROVE  Authorized(log[i])
<1>1. attempt.id \in Attempt /\ attempt # NoAttempt /\ attempt.id # 0
  BY LogTypes, SubTypes, AttemptTypes DEF BillingInv
<1>2. log[i].attempt = attempt.id
  BY <1>1, SubTypes DEF BillingInv, LogInv
<1>3. ~Terminal(log[i].status)
  BY DEF BillingInv, LogInv
<1>4. account.sub = attempt.id => ~HasTerminal
  BY TerminalProof
<1>5. account.sub \in {NoSub, attempt.id} \/ HasTerminal
  BY <1>1 DEF BillingInv, AccountInv
<1> QED
  BY <1>1, <1>2, <1>3, <1>4, <1>5 DEF Authorized, NoSub

\* An authorized event is of the current attempt or of the account's subscription,
\* unless there is no attempt; and once that has ended only its end counts.
LEMMA AuthorizedSub ==
    ASSUME BillingInv, NEW i \in DOMAIN log, Authorized(log[i])
    PROVE  /\ \/ log[i].sub = attempt.id
              \/ log[i].sub = account.sub
              \/ attempt = NoAttempt
           /\ (log[i].sub = account.sub /\ HasTerminal) => Terminal(log[i].status)
           /\ log[i].sub # account.sub => account.sub = NoSub \/ HasTerminal
<1>1. log[i].attempt # 0 => log[i].attempt = log[i].sub
  BY DEF BillingInv, LogInv
<1>2. attempt # NoAttempt => attempt.id # 0
  BY AttemptTypes DEF BillingInv
<1>3. CASE log[i].attempt # 0
  BY <1>1, <1>3 DEF Authorized
<1>4. CASE log[i].attempt = 0
  BY <1>2, <1>4 DEF Authorized
<1> QED
  BY <1>3, <1>4

LEMMA ApplyTypes ==
    ASSUME BillingInv, NEW d \in inflight, Apply(d)
    PROVE  TypeOK'
<1> DEFINE e == log[d.event]
<1>1. d.event \in DOMAIN log /\ d.order \in 1 .. receipts /\ receipts \in Nat
  BY DEF BillingInv, TypeOK
<1>2. e \in Event /\ e.sub \in Sub /\ e.status \in EventStatus /\ e.created \in Nat
  BY <1>1, LogTypes DEF BillingInv
<1>3. d.order \in Nat
  BY <1>1
<1>4. BillingOf(e.status) \in BillingStatus
  BY <1>2 DEF BillingOf, BillingStatus, EventStatus
<1> HIDE DEF e
<1>5. Projected(e, d.order) \in Account
  BY <1>2, <1>3, <1>4 DEF Projected, Account, BillingInv, TypeOK
<1>6. Authorized(e) => Retained(e) \in AttemptRow \cup {NoAttempt}
  <2>1. CASE e.attempt = 0
    BY <2>1 DEF Retained, BillingInv, TypeOK
  <2>2. CASE e.attempt # 0 /\ Authorized(e)
    <3>1. attempt \in AttemptRow
      BY <2>2 DEF Authorized, BillingInv, TypeOK
    <3>2. (attempt.attached \/ e.status = "checkout_completed") \in BOOLEAN
      OBVIOUS
    <3> QED
      BY <1>2, <2>2, <3>1, <3>2 DEF Retained, AttemptRow
  <2> QED
    BY <2>1, <2>2
<1>7. account' \in Account /\ attempt' \in AttemptRow \cup {NoAttempt}
  BY <1>5, <1>6 DEF Apply, BillingInv, TypeOK, e
<1>8. ledger' \subseteq DOMAIN log /\ applied' \subseteq ledger'
      /\ inflight' \subseteq inflight
  BY <1>1 DEF Apply, BillingInv, TypeOK
<1> QED
  BY <1>7, <1>8 DEF Apply, BillingInv, TypeOK, stripe

\* What a processed event that is not applied leaves behind.
LEMMA RejectKeeps ==
    ASSUME BillingInv, TypeOK', NEW d \in inflight, Apply(d),
           UNCHANGED <<account, attempt, applied>>
    PROVE  BillingInv'
<1> DEFINE i == d.event
<1>1. /\ inflight' = inflight \ {d} /\ ledger' = ledger \cup {i}
      /\ UNCHANGED <<checkout, subs, log, second, cleaned>>
  BY DEF Apply, stripe
<1>2. i \in DOMAIN log /\ d.order \in Nat
  BY DEF BillingInv, TypeOK
<1>3. StripeInv' /\ LogInv' /\ AccountInv' /\ PaymentIsNewer'
  BY <1>1 DEF BillingInv, StripeInv, Dead, LogInv, Pays, Latest, AccountInv,
     HasTerminal, Shown, PaymentIsNewer
<1>4. ClaimInv'
  BY <1>1 DEF BillingInv, ClaimInv
<1>5. ProcessedIsKnown'
  <2>1. ASSUME log[i].sub = attempt.id, subs[attempt.id] # "canceled"
        PROVE  \/ /\ account.sub = attempt.id
                  /\ ~cleaned => log[i].created <= account.at
               \/ \E j \in ledger : Foreign(j) /\ log[i].created <= log[j].created
    <3>1. Authorized(log[i])
      BY <1>2, <2>1, AttemptIsAuthorized
    <3>2. CASE InOrder(log[i], d.order)
      <4>1. applied' = applied \cup {i} /\ account' = Projected(log[i], d.order)
        BY <3>1, <3>2 DEF Apply
      <4>2. account.sub = log[i].sub /\ account.at = log[i].created
        BY <4>1 DEF Projected
      <4> QED
        BY <1>2, <2>1, <4>2, LogTypes DEF BillingInv
    <3>3. CASE ~InOrder(log[i], d.order)
      <4>1. account.at # NoStamp /\ ~(account.at < log[i].created)
        BY <3>3 DEF InOrder
      <4>2. log[i].created <= account.at
        BY <1>2, <4>1, LogTypes DEF BillingInv, TypeOK, Account
      <4>3. PICK j \in applied : Shown(j)
        BY <4>1 DEF BillingInv, AccountInv
      <4> QED
        BY <4>2, <4>3 DEF Shown, Foreign, BillingInv, TypeOK
    <3> QED
      BY <3>2, <3>3
  <2> QED
    BY <1>1, <2>1 DEF BillingInv, ProcessedIsKnown, Foreign
<1> QED
  BY <1>3, <1>4, <1>5 DEF BillingInv

LEMMA AcceptKeeps ==
    ASSUME BillingInv, TypeOK', NEW d \in inflight, Apply(d),
           Authorized(log[d.event]), InOrder(log[d.event], d.order)
    PROVE  BillingInv'
<1> DEFINE i == d.event
           e == log[i]
<1>1. /\ inflight' = inflight \ {d} /\ ledger' = ledger \cup {i}
      /\ applied' = applied \cup {i}
      /\ account' = Projected(e, d.order) /\ attempt' = Retained(e)
      /\ UNCHANGED <<checkout, subs, log, second, cleaned>>
  BY DEF Apply, stripe
<1>2. i \in DOMAIN log /\ e.sub \in Sub /\ e.created \in Nat /\ 1 <= e.created
      /\ e.status \in EventStatus
  BY LogTypes DEF BillingInv, TypeOK
<1>3. /\ account'.sub = e.sub /\ account'.at = e.created
      /\ account'.status = e.status /\ account'.billing = BillingOf(e.status)
      /\ account'.terminal = IF Terminal(e.status) THEN e.sub ELSE account.terminal
  BY <1>1 DEF Projected
<1>4. attempt'.id = attempt.id /\ (attempt' = NoAttempt <=> attempt = NoAttempt)
  <2>1. CASE e.attempt = 0
    BY <1>1, <2>1 DEF Retained
  <2>2. CASE e.attempt # 0
    <3>1. attempt \in AttemptRow
      BY <2>2 DEF Authorized, BillingInv, TypeOK
    <3>2. Retained(e).id = attempt.id
      BY <2>2, <3>1 DEF Retained, AttemptRow
    <3>3. attempt.id # 0
      BY <3>1, SubTypes DEF AttemptRow, Sub
    <3> QED
      BY <1>1, <3>1, <3>2, <3>3 DEF NoAttempt
  <2> QED
    BY <2>1, <2>2
<1>5. /\ e.sub = attempt.id \/ e.sub = account.sub \/ attempt = NoAttempt
      /\ (e.sub = account.sub /\ HasTerminal) => Terminal(e.status)
      /\ e.sub # account.sub => account.sub = NoSub \/ HasTerminal
  BY <1>2, AuthorizedSub
<1>6. account.at <= e.created /\ account.at \in Nat
  BY <1>2 DEF InOrder, BillingInv, TypeOK, Account, NoStamp
<1>7. e.sub # NoSub
  BY <1>2, SubTypes DEF NoSub
<1>8. Terminal(e.status) => subs[e.sub] = "canceled"
  BY <1>2 DEF BillingInv, LogInv
<1>9. applied \subseteq ledger /\ ledger \subseteq DOMAIN log
  BY DEF BillingInv, TypeOK
<1> HIDE DEF e, i
<1>10. StripeInv' /\ LogInv'
  BY <1>1, <1>4 DEF BillingInv, StripeInv, Dead, LogInv, Pays, Latest
<1>11. ClaimInv'
  BY <1>1 DEF BillingInv, ClaimInv, i
<1>12. AccountInv'
  <2>1. Shown(i)'
    BY <1>1, <1>3 DEF Shown, e, BillingOf
  <2>2. attempt # NoAttempt => account'.sub \in {NoSub, attempt.id} \/ HasTerminal'
    <3> SUFFICES ASSUME attempt # NoAttempt, e.sub # attempt.id
                 PROVE  HasTerminal'
      BY <1>3
    <3>1. e.sub = account.sub /\ account.sub # NoSub
      BY <1>5, <1>7
    <3>2. HasTerminal
      BY <3>1 DEF BillingInv, AccountInv
    <3> QED
      BY <1>3, <1>5, <1>7, <3>1, <3>2 DEF HasTerminal
  <2>3. account'.terminal # NoSub => subs[account'.terminal] = "canceled"
    BY <1>3, <1>8 DEF BillingInv, AccountInv
  <2>4. Terminal(account'.status) => account'.terminal = account'.sub
                                     /\ account'.sub # NoSub
    BY <1>3, <1>7
  <2> QED
    BY <1>1, <1>4, <2>1, <2>2, <2>3, <2>4 DEF AccountInv
<1>13. PaymentIsNewer'
  <2> SUFFICES ASSUME NEW p \in DOMAIN log, Pays(p, attempt.id),
                      NEW j \in DOMAIN log, log[j].sub # attempt.id,
                      j \in applied \cup {i} \/ log[j].sub = e.sub
               PROVE  log[j].created < log[p].created
    BY <1>1, <1>3, <1>4 DEF PaymentIsNewer, Pays
  <2>1. attempt # NoAttempt
    BY LogTypes, SubTypes DEF Pays, BillingInv, NoAttempt
  <2>2. j \in applied \/ log[j].sub = e.sub
    BY DEF e
  <2>3. j \in applied \/ log[j].sub = account.sub
    BY <1>5, <2>1, <2>2
  <2> QED
    BY <2>3 DEF BillingInv, PaymentIsNewer
<1>14. ProcessedIsKnown'
  <2> SUFFICES ASSUME NEW l \in ledger \cup {i}, log[l].sub = attempt.id,
                      subs[attempt.id] # "canceled"
               PROVE  \/ /\ account'.sub = attempt.id
                         /\ ~cleaned => log[l].created <= account'.at
                      \/ \E j \in ledger \cup {i} :
                            Foreign(j)' /\ log[l].created <= log[j].created
    BY <1>1, <1>4 DEF ProcessedIsKnown
  <2>1. CASE l = i
    BY <1>2, <1>3, <2>1 DEF e
  <2>2. CASE l # i
    <3>1. l \in ledger /\ l \in DOMAIN log
      BY <1>9, <2>2
    <3>2. CASE account.sub = attempt.id /\ (~cleaned => log[l].created <= account.at)
      <4>1. ~HasTerminal
        BY <3>2, TerminalProof
      <4>2. account.sub # NoSub
        BY <3>1, <3>2, LogTypes, SubTypes DEF BillingInv, NoSub
      <4>3. e.sub = attempt.id
        BY <1>5, <3>2, <4>1, <4>2
      <4>4. log[l].created \in Nat
        BY <3>1, LogTypes DEF BillingInv
      <4> QED
        BY <1>2, <1>3, <1>6, <3>2, <4>3, <4>4
    <3>3. CASE \E j \in ledger : Foreign(j) /\ log[l].created <= log[j].created
      BY <1>1, <1>4, <3>3 DEF Foreign
    <3> QED
      BY <3>1, <3>2, <3>3 DEF BillingInv, ProcessedIsKnown
  <2> QED
    BY <2>1, <2>2
<1> QED
  BY <1>10, <1>11, <1>12, <1>13, <1>14 DEF BillingInv

LEMMA ApplyKeeps ==
    ASSUME BillingInv, NEW d \in inflight, Apply(d)
    PROVE  BillingInv'
<1>1. TypeOK'
  BY ApplyTypes
<1>2. CASE Authorized(log[d.event]) /\ InOrder(log[d.event], d.order)
  BY <1>1, <1>2, AcceptKeeps
<1>3. CASE ~(Authorized(log[d.event]) /\ InOrder(log[d.event], d.order))
  <2>1. UNCHANGED <<account, attempt, applied>>
    BY <1>3 DEF Apply
  <2> QED
    BY <1>1, <2>1, RejectKeeps
<1> QED
  BY <1>2, <1>3

---------------------------------------------------------------------------
(* Checkout attempts, the proof of an end, and the downgrade               *)

\* An attempt that may be replaced has no subscription that lives, and no session
\* that can still be paid.
LEMMA ReplaceableIsDead ==
    ASSUME BillingInv, Replaceable, attempt # NoAttempt
    PROVE  checkout[attempt.id] # "open" /\ Dead(attempt.id)
<1>1. attempt.id \in Attempt
  BY AttemptTypes DEF BillingInv
<1>2. CASE checkout[attempt.id] = "expired"
  BY <1>1, <1>2 DEF BillingInv, StripeInv
<1>3. CASE checkout[attempt.id] = "complete" /\ account.sub = attempt.id /\ HasTerminal
  BY <1>3, TerminalProof DEF Dead
<1> QED
  BY <1>2, <1>3 DEF Replaceable

LEMMA ReserveKeeps ==
    ASSUME BillingInv, NEW i \in Interval, Reserve(i)
    PROVE  BillingInv'
<1>1. /\ attempt'.id = attempt.id + 1 /\ attempt.id < MaxAttempts
      /\ attempt.id \in Nat /\ attempt'.id \in Attempt
      /\ attempt' = [id |-> attempt.id + 1, interval |-> i, attached |-> FALSE,
                     sub |-> NoSub]
      /\ UNCHANGED <<account, checkout, subs, log, second, ledger, inflight, receipts,
                     failures, applied, cleaned>>
  BY AttemptTypes, BillingConstants
     DEF Reserve, BillingInv, Attempt, stripe, webhook
<1>2. attempt' \in AttemptRow /\ attempt' # NoAttempt
  <2>1. attempt' \in AttemptRow
    BY <1>1 DEF AttemptRow
  <2> QED
    BY <1>1, <2>1 DEF NoAttempt
<1>3. TypeOK'
  BY <1>1, <1>2 DEF BillingInv, TypeOK
<1>4. StripeInv'
  <2> SUFFICES ASSUME NEW a \in Attempt
               PROVE  /\ a < attempt.id + 1 => checkout[a] # "open" /\ Dead(a)
                      /\ attempt.id + 1 < a => checkout[a] = "none"
    BY <1>1 DEF BillingInv, StripeInv, Dead
  <2>1. a \in Nat /\ a # 0
    BY SubTypes DEF Sub
  <2>2. a < attempt.id + 1 => a < attempt.id \/ a = attempt.id
    BY <1>1, <2>1
  <2>3. a = attempt.id => checkout[a] # "open" /\ Dead(a)
    BY <2>1, AttemptTypes, ReplaceableIsDead DEF Reserve, BillingInv
  <2>4. attempt.id + 1 < a => attempt.id < a
    BY <1>1, <2>1
  <2> QED
    BY <2>2, <2>3, <2>4 DEF BillingInv, StripeInv
<1>5. \A j \in DOMAIN log : log[j].sub # attempt'.id
  <2>1. checkout[attempt'.id] = "none"
    BY <1>1 DEF BillingInv, StripeInv
  <2> QED
    BY <1>1, <2>1 DEF BillingInv, LogInv
<1>6. LogInv' /\ ClaimInv'
  BY <1>1 DEF BillingInv, LogInv, Pays, Latest, ClaimInv
<1>7. AccountInv'
  <2>1. account.sub = NoSub \/ HasTerminal
    BY DEF Reserve, Eligible
  <2> QED
    BY <1>1, <2>1 DEF BillingInv, AccountInv, HasTerminal, Shown
<1>8. PaymentIsNewer' /\ ProcessedIsKnown'
  BY <1>1, <1>5 DEF PaymentIsNewer, ProcessedIsKnown, Pays, BillingInv, TypeOK
<1> QED
  BY <1>3, <1>4, <1>6, <1>7, <1>8 DEF BillingInv

LEMMA AttachKeeps ==
    ASSUME BillingInv, Attach
    PROVE  BillingInv'
<1>1. attempt \in AttemptRow /\ attempt # NoAttempt
  BY DEF Attach, BillingInv, TypeOK
<1>2. /\ attempt' \in AttemptRow /\ attempt'.id = attempt.id
      /\ UNCHANGED <<account, checkout, subs, log, second, ledger, inflight, receipts,
                     failures, applied, cleaned>>
  BY <1>1 DEF Attach, AttemptRow, stripe, webhook
<1>3. attempt' # NoAttempt
  BY <1>1, <1>2, SubTypes DEF NoAttempt, AttemptRow, Sub
<1> QED
  BY <1>1, <1>2, <1>3 DEF BillingInv, TypeOK, StripeInv, Dead, LogInv, Pays, Latest,
     AccountInv, HasTerminal, Shown, ClaimInv, PaymentIsNewer, ProcessedIsKnown, Foreign

LEMMA ConfirmEndedKeeps ==
    ASSUME BillingInv, ConfirmEnded
    PROVE  BillingInv'
<1>1. /\ account \in Account
      /\ account' = [account EXCEPT !.terminal = account.sub]
      /\ account.sub # NoSub /\ subs[account.sub] = "canceled"
      /\ UNCHANGED <<attempt, checkout, subs, log, second, ledger, inflight, receipts,
                     failures, applied, cleaned>>
  BY DEF ConfirmEnded, BillingInv, TypeOK, stripe, webhook, Terminal
<1>2. /\ account' \in Account
      /\ account'.terminal = account.sub /\ account'.sub = account.sub
      /\ account'.at = account.at /\ account'.billing = account.billing
      /\ account'.status = account.status
  BY <1>1 DEF Account
<1>3. TypeOK' /\ StripeInv' /\ LogInv' /\ ClaimInv'
  BY <1>1, <1>2 DEF BillingInv, TypeOK, StripeInv, Dead, LogInv, Pays, Latest, ClaimInv
<1>4. AccountInv'
  <2>1. \A j : Shown(j) => Shown(j)'
    BY <1>1, <1>2 DEF Shown
  <2> QED
    BY <1>1, <1>2, <2>1 DEF BillingInv, AccountInv, HasTerminal
<1>5. PaymentIsNewer' /\ ProcessedIsKnown'
  BY <1>1, <1>2 DEF BillingInv, PaymentIsNewer, ProcessedIsKnown, Pays, Foreign
<1> QED
  BY <1>3, <1>4, <1>5 DEF BillingInv

LEMMA DowngradeKeeps ==
    ASSUME BillingInv, Downgrade
    PROVE  BillingInv'
<1>1. /\ account \in Account /\ cleaned' = TRUE
      /\ UNCHANGED <<attempt, checkout, subs, log, second, ledger, inflight, receipts,
                     failures, applied>>
  BY DEF Downgrade, BillingInv, TypeOK, stripe, webhook
<1>2. /\ account' \in Account
      /\ account'.terminal = account.terminal /\ account'.sub = account.sub
      /\ account'.at = NoStamp /\ account'.status = "none"
  BY <1>1 DEF Downgrade, Account, BillingStatus, NoStamp
<1>3. TypeOK' /\ StripeInv' /\ LogInv' /\ ClaimInv'
  BY <1>1, <1>2 DEF BillingInv, TypeOK, StripeInv, Dead, LogInv, Pays, Latest, ClaimInv
<1>4. AccountInv'
  <2>1. HasTerminal => HasTerminal'
    BY <1>2, TerminalProof DEF HasTerminal
  <2> QED
    BY <1>1, <1>2, <2>1 DEF BillingInv, AccountInv, Terminal
<1>5. PaymentIsNewer' /\ ProcessedIsKnown'
  BY <1>1, <1>2 DEF BillingInv, PaymentIsNewer, ProcessedIsKnown, Pays, Foreign
<1> QED
  BY <1>3, <1>4, <1>5 DEF BillingInv

---------------------------------------------------------------------------
LEMMA InitBilling == Init => BillingInv
<1> SUFFICES ASSUME Init PROVE BillingInv
  OBVIOUS
<1>1. attempt = NoAttempt /\ attempt.id = 0
  BY DEF Init, NoAttempt
<1>2. log = <<>> /\ DOMAIN log = {} /\ log \in Seq(Event)
  BY EmptySeq, LenProperties DEF Init
<1>3. account \in Account /\ account.sub = NoSub /\ account.terminal = NoSub
      /\ account.status = "none" /\ account.at = NoStamp
  BY DEF Init, Account, BillingStatus, NoStamp, NoSub
<1>4. TypeOK
  <2>1. /\ checkout \in [Attempt -> {"none", "open", "complete", "expired"}]
        /\ subs \in [Sub -> {"none", "active", "canceling", "past_due", "canceled"}]
    BY DEF Init
  <2>2. second \in 1 .. MaxSecond /\ receipts \in Nat /\ failures \in 0 .. MaxFailures
    BY BillingConstants DEF Init
  <2>3. /\ ledger \subseteq DOMAIN log /\ applied \subseteq ledger
        /\ inflight \subseteq [event : DOMAIN log, order : 1 .. receipts]
        /\ cleaned \in BOOLEAN
    BY DEF Init
  <2> QED
    BY <1>1, <1>2, <1>3, <2>1, <2>2, <2>3 DEF TypeOK
<1>5. StripeInv
  BY <1>1, SubTypes DEF Init, StripeInv, Dead, Sub, Attempt
<1>6. LogInv
  BY <1>2 DEF Init, LogInv
<1>7. AccountInv /\ ClaimInv
  BY <1>1, <1>3 DEF Init, AccountInv, ClaimInv, Terminal
<1>8. PaymentIsNewer /\ ProcessedIsKnown
  BY <1>2 DEF Init, PaymentIsNewer, ProcessedIsKnown
<1> QED
  BY <1>4, <1>5, <1>6, <1>7, <1>8 DEF BillingInv

LEMMA StutterKeepsBilling ==
    ASSUME BillingInv, UNCHANGED vars
    PROVE  BillingInv'
BY DEF vars, stripe, webhook, BillingInv, TypeOK, StripeInv, Dead, LogInv, Pays,
   Latest, AccountInv, HasTerminal, Shown, ClaimInv, PaymentIsNewer,
   ProcessedIsKnown, Foreign

LEMMA StepKeepsBilling == BillingInv /\ [Next]_vars => BillingInv'
<1> SUFFICES ASSUME BillingInv, [Next]_vars PROVE BillingInv'
  OBVIOUS
<1>1. CASE StripeActs
  BY <1>1, PayFailsKeeps, PayKeeps, SessionExpiresKeeps, StatusChangeKeeps,
     StrangerStartsKeeps DEF StripeActs
<1>2. CASE WebhookRuns
  BY <1>2, ReceiveKeeps, ApplyKeeps, FailKeeps DEF WebhookRuns
<1>3. CASE UNCHANGED vars
  BY <1>3, StutterKeepsBilling
<1> QED
  BY <1>1, <1>2, <1>3, ReserveKeeps, SessionOpensKeeps, AttachKeeps,
     ConfirmEndedKeeps, DowngradeKeeps DEF Next

THEOREM BillingInvariant == Spec => []BillingInv
BY InitBilling, StepKeepsBilling, PTL DEF Spec

\* The account, its attempt, Stripe and the ledger keep their types.
THEOREM BillingTypes == Spec => []TypeOK
<1>1. BillingInv => TypeOK
  BY DEF BillingInv
<1> QED
  BY <1>1, BillingInvariant, PTL

\* An account is never sold two subscriptions at a time.
THEOREM OneSaleAtATime == Spec => []OneLiveSubscription
<1>1. BillingInv => OneLiveSubscription
  <2> SUFFICES ASSUME BillingInv, NEW a \in Attempt, ~Dead(a) PROVE a = attempt.id
    BY DEF OneLiveSubscription, Dead
  <2>1. ~(a < attempt.id)
    BY DEF BillingInv, StripeInv
  <2>2. ~(attempt.id < a)
    BY DEF BillingInv, StripeInv, Dead
  <2>3. attempt.id \in Nat /\ a \in Nat
    BY AttemptTypes, SubTypes, BillingConstants DEF BillingInv
  <2> QED
    BY <2>1, <2>2, <2>3
<1> QED
  BY <1>1, BillingInvariant, PTL

\* When every event has been processed, in any order, a purchased subscription that
\* lives is the account's, and the account shows its state unless a downgrade has
\* cleared the event ordering.
THEOREM AlwaysInSync == Spec => []InSync
<1>1. BillingInv => InSync
  <2> SUFFICES ASSUME BillingInv, Drained, Unambiguous, NEW a \in Attempt,
                      checkout[a] = "complete", Live(BillingOf(subs[a]))
               PROVE  /\ account.sub = a
                      /\ ~cleaned => account.billing = BillingOf(subs[a])
    BY DEF InSync
  <2>1. subs[a] # "canceled" /\ subs[a] # "none"
    BY DEF Live, BillingOf, BillingInv, StripeInv
  <2>2. a = attempt.id
    <3>1. ~(a < attempt.id)
      BY <2>1 DEF BillingInv, StripeInv, Dead
    <3>2. ~(attempt.id < a)
      BY DEF BillingInv, StripeInv
    <3>3. attempt.id \in Nat /\ a \in Nat
      BY AttemptTypes, SubTypes, BillingConstants DEF BillingInv
    <3> QED
      BY <3>1, <3>2, <3>3
  <2>3. PICK p \in DOMAIN log : Pays(p, a)
    BY DEF BillingInv, LogInv
  <2>4. PICK l \in DOMAIN log : Latest(l, a)
    BY DEF BillingInv, LogInv
  <2>5. ledger = DOMAIN log /\ applied \subseteq DOMAIN log
    BY DEF Drained, BillingInv, TypeOK
  <2>6. \A i \in DOMAIN log : log[i].created \in Nat /\ 1 <= log[i].created
    BY LogTypes DEF BillingInv
  <2>7. log[p].sub = a /\ log[l].sub = a /\ log[p].created <= log[l].created
    BY <2>3, <2>4 DEF Pays, Latest
  <2>8. \A j \in DOMAIN log : Foreign(j) => log[j].created < log[p].created
    BY <2>2, <2>3 DEF BillingInv, PaymentIsNewer, Foreign
  <2>9. ASSUME NEW i \in DOMAIN log, log[i].sub = a, log[p].created <= log[i].created
        PROVE  account.sub = a /\ (~cleaned => log[i].created <= account.at)
    <3>1. ~\E j \in ledger : Foreign(j) /\ log[i].created <= log[j].created
      BY <2>5, <2>6, <2>8, <2>9
    <3> QED
      BY <2>1, <2>2, <2>5, <2>9, <3>1 DEF BillingInv, ProcessedIsKnown
  <2>10. account.sub = a
    BY <2>6, <2>7, <2>9
  <2>11. ASSUME ~cleaned
         PROVE  account.billing = BillingOf(subs[a])
    <3>1. log[l].created <= account.at /\ account.at \in Nat
      BY <2>7, <2>9, <2>11 DEF BillingInv, TypeOK, Account
    <3>2. account.at # NoStamp
      BY <2>6, <3>1 DEF NoStamp
    <3>3. PICK j \in applied : Shown(j)
      BY <3>2 DEF BillingInv, AccountInv
    <3>4. j \in DOMAIN log /\ log[j].created <= log[l].created
      BY <2>4, <2>5, <2>10, <3>3 DEF Shown, Latest
    <3>5. log[j].created = log[l].created
      BY <2>6, <3>1, <3>3, <3>4 DEF Shown
    <3>6. BillingOf(log[j].status) = BillingOf(log[l].status)
      BY <3>4, <3>5 DEF Unambiguous
    <3> QED
      BY <2>4, <3>3, <3>6 DEF Shown, Latest
  <2> QED
    BY <2>10, <2>11
<1> QED
  BY <1>1, BillingInvariant, PTL

\* Once the account's subscription is known to have ended, no event and no cleanup
\* makes it active again or forgets its end.
THEOREM EndsAreFinal == Spec => TerminalIsFinal
<1>1. BillingInv /\ [Next]_vars =>
         ((account.terminal # NoSub /\ account.terminal = account.sub
             /\ account'.sub = account.sub) =>
            /\ account'.terminal = account'.sub
            /\ account'.billing = "active" => account.billing = "active")
  <2> SUFFICES ASSUME BillingInv, [Next]_vars, account.terminal # NoSub,
                      account.terminal = account.sub, account'.sub = account.sub
               PROVE  /\ account'.terminal = account'.sub
                      /\ account'.billing = "active" => account.billing = "active"
    OBVIOUS
  <2>1. CASE account' = account
    BY <2>1
  <2>2. ASSUME NEW d \in inflight, Apply(d), account' # account
        PROVE  /\ account'.terminal = account'.sub
               /\ account'.billing # "active"
    <3> DEFINE e == log[d.event]
    <3>1. Authorized(e) /\ account' = Projected(e, d.order)
      BY <2>2 DEF Apply
    <3>2. e.sub = account.sub
      BY <3>1 DEF Projected
    <3>3. Terminal(e.status)
      BY <3>1, <3>2 DEF Authorized, HasTerminal
    <3> QED
      BY <3>1, <3>2, <3>3 DEF Projected, Terminal, BillingOf
  <2>3. CASE ConfirmEnded
    BY <2>3 DEF ConfirmEnded, BillingInv, TypeOK, Account
  <2>4. CASE Downgrade
    BY <2>4 DEF Downgrade, BillingInv, TypeOK, Account
  <2>5. StripeActs => account' = account
    BY DEF StripeActs, PayFails, Pay, SessionExpires, StatusChange, StrangerStarts
  <2>6. ASSUME WebhookRuns, account' # account
        PROVE  \E d \in inflight : Apply(d)
    BY <2>6 DEF WebhookRuns, Receive, Fail
  <2>7. (\E i \in Interval : Reserve(i)) \/ (\E a \in Attempt : SessionOpens(a))
            \/ Attach \/ UNCHANGED vars => account' = account
    BY DEF Reserve, SessionOpens, Attach, vars
  <2> QED
    BY <2>1, <2>2, <2>3, <2>4, <2>5, <2>6, <2>7 DEF Next
<1> QED
  BY <1>1, BillingInvariant, PTL DEF Spec, TerminalIsFinal

\* No delivery of an event that changed the account changes it again.
THEOREM EventsApplyOnce == Spec => AppliedOnce
<1>1. BillingInv /\ [Next]_vars =>
         \A d \in inflight :
            (d \notin inflight' /\ account' # account) => d.event \notin applied
  <2> SUFFICES ASSUME BillingInv, NEW d \in inflight PROVE d.event \notin applied
    OBVIOUS
  <2> QED
    BY DEF BillingInv, ClaimInv, TypeOK
<1> QED
  BY <1>1, BillingInvariant, PTL DEF Spec, AppliedOnce
=============================================================================
