--------------------------- MODULE RequestsProofs ---------------------------
(***************************************************************************)
(* Invariants of CallerRequests, proved for every number of requests, all  *)
(* limits, slots and periods.  What a transaction holds is its own until   *)
(* it ends: the account lock and the counter rows it has charged.  Hence   *)
(* the units a counter showed when they were charged are still there when  *)
(* they are committed, and whoever holds rows without the account lock     *)
(* waits for nothing any more.                                             *)
(***************************************************************************)
EXTENDS CallerRequests, FiniteSetTheorems, TLAPS

Early == {"idle", "slot", "profile", "blocks", "account", "windows", "charge"}

\* What is true of one request by itself: only a request at its end has an
\* outcome, a send has the account lock when it charges, and only a request at
\* its end holds counter rows without that lock.
RowOK(q) ==
    /\ q.kind = q.op \/ (q.kind = "submit" /\ q.op = "send")
    /\ (q.op = "send" /\ q.at \in {"profile", "blocks", "windows", "charge"}) => q.locked
    /\ q.charged # {} => q.locked \/ q.at \in {"commit", "lost"}
    /\ q.at \notin {"commit", "lost"} =>
          ~q.wrote /\ ~q.refused /\ ~q.aborted /\ q.denied = {} /\ q.cause = {}
    /\ q.refused => ~q.wrote
    /\ q.wrote => ~q.aborted
    /\ (q.at = "commit" /\ ~q.refused /\ ~q.aborted) => q.wrote
    /\ \A d \in q.denied : (d[2][1] = "delete") <=> (d[1] = "delete")
    /\ \A w \in q.cause : (w[1] = "delete") <=> (q.op = "delete")

\* The account lock and each counter row have one holder.
Exclusive ==
    \A r, o \in Request : (r # o /\ Open(r) /\ Open(o)) =>
        /\ ~(req[r].locked /\ req[o].locked)
        /\ req[r].charged \cap req[o].charged = {}

LockInv ==
    /\ RequestsTypeOK
    /\ \A r \in Request : RowOK(req[r])
    /\ Exclusive

\* A request is answered when it ends, and a write is durable only then.
AnswerInv ==
    /\ \A r \in Request :
          /\ answer[r] # "none" => req[r].at \in {"lost", "done"}
          /\ req[r].at = "lost" => answer[r] = "failed"
          /\ r \in durable => req[r].at = "done"
    /\ AnswersAreTrue

\* The units of a window that were ever committed.
Total(w) == used[w] + pruned[w]

\* The units of a window with the charge of a row q.
WithCharge(q, w) == used[w] + (IF w \in q.charged THEN 1 ELSE 0)

\* A charge that may still become a write fits its window.
Fits(q) ==
    (q.at \notin {"idle", "done"} /\ ~q.refused /\ ~q.aborted) =>
        \A w \in q.charged : used[w] + 1 <= Limit[w[1]]

\* What a refusal names, and what it will block, is used up.
Full(q) ==
    /\ \A w \in q.cause : WithCharge(q, w) + pruned[w] >= Limit[w[1]]
    /\ \A d \in q.denied : WithCharge(q, d[2]) + pruned[d[2]] >= Limit[d[2][1]]

\* BlocksAreBacked, also for blocks that are over and not yet deleted.
Backed ==
    \A k \in Kind, m \in Metric : blocks[<<k, m>>] > 0 =>
        /\ (k = "delete") <=> (m = "delete")
        /\ \E w \in Window :
              /\ w[1] = m /\ End(m, w[2]) = blocks[<<k, m>>]
              /\ Total(w) >= Limit[m]

Counted ==
    \A w \in Window :
        /\ admitted[w] <= Total(w)
        /\ admitted[w] <= Limit[w[1]] + pruned[w]

CountInv ==
    /\ \A r \in Request : Fits(req[r]) /\ Full(req[r])
    /\ Backed
    /\ Counted

RequestsInv == LockInv /\ AnswerInv /\ CountInv

---------------------------------------------------------------------------
(* Windows                                                                 *)

LEMMA CardinalityWithin ==
    ASSUME NEW x, NEW S
    PROVE  Cardinality(S \cap {x}) = IF x \in S THEN 1 ELSE 0
<1>1. CASE x \in S
  <2>1. S \cap {x} = {x}
    BY <1>1
  <2> QED
    BY <1>1, <2>1, FS_Singleton
<1>2. CASE x \notin S
  <2>1. S \cap {x} = {}
    BY <1>2
  <2> QED
    BY <1>2, <2>1, FS_EmptySet
<1> QED
  BY <1>1, <1>2

LEMMA SeenIsWithCharge ==
    ASSUME NEW r, NEW w
    PROVE  Seen(r, w) = WithCharge(req[r], w)
BY CardinalityWithin DEF Seen, WithCharge

LEMMA ProductMod ==
    ASSUME NEW p \in Nat \ {0}, NEW q \in Nat
    PROVE  (p * q) % p = 0
OBVIOUS

\* A window starts at the start of its period, and that is where it starts.
LEMMA PeriodStart ==
    ASSUME NEW t \in Nat
    PROVE  /\ t - (t % Period) \in 0 .. t
           /\ (t - (t % Period)) % Period = 0
<1>1. Period \in Nat \ {0}
  BY RequestsAssumption
<1>2. /\ t \div Period \in Nat /\ t % Period \in 0 .. Period - 1
      /\ t = Period * (t \div Period) + (t % Period)
  BY <1>1
<1>3. (Period * (t \div Period)) % Period = 0
  BY <1>1, <1>2, ProductMod
<1>4. Period * (t \div Period) \in Nat
  BY <1>1, <1>2
<1>5. t - (t % Period) = Period * (t \div Period)
  BY <1>2, <1>4
<1> QED
  BY <1>1, <1>2, <1>3, <1>4, <1>5

LEMMA StartType ==
    ASSUME NEW m \in Metric, NEW t \in Minute
    PROVE  /\ Start(m, t) \in Minute /\ Start(m, t) \in Nat
           /\ <<m, Start(m, t)>> \in Window
<1>1. MaxMinute \in Nat /\ t \in Nat /\ t <= MaxMinute
  BY RequestsAssumption DEF Minute
<1>2. CASE m \in {"month", "day"}
  <2>1. Start(m, t) = t - (t % Period) /\ Start(m, t) \in 0 .. t
        /\ Start(m, t) % Period = 0
    BY <1>1, <1>2, PeriodStart DEF Start
  <2>2. Start(m, Start(m, t)) = Start(m, t) - (Start(m, t) % Period)
    BY <1>2 DEF Start
  <2>3. Start(m, Start(m, t)) = Start(m, t)
    BY <2>1, <2>2
  <2> QED
    BY <1>1, <2>1, <2>3 DEF Window, Minute
<1>3. CASE m \notin {"month", "day"}
  BY <1>1, <1>3 DEF Start, Window, Minute
<1> QED
  BY <1>2, <1>3

LEMMA WindowType ==
    ASSUME NEW w \in Window
    PROVE  /\ w[1] \in Metric /\ w[2] \in Minute /\ w[2] \in Nat
           /\ w = <<w[1], w[2]>> /\ Start(w[1], w[2]) = w[2]
           /\ Until(w) \in Nat /\ Until(w) > 0 /\ Limit[w[1]] \in Nat
<1>1. /\ w \in Metric \X Minute /\ Start(w[1], w[2]) = w[2]
      /\ Period \in Nat \ {0} /\ Limit \in [Metric -> Nat]
  BY RequestsAssumption DEF Window
<1>2. w[1] \in Metric /\ w[2] \in Minute /\ w = <<w[1], w[2]>>
  BY <1>1
<1>3. w[2] \in Nat
  BY <1>2 DEF Minute
<1>4. Until(w) = w[2] + (IF w[1] \in {"month", "day"} THEN Period ELSE 1)
  BY <1>1 DEF Until, End
<1>5. Until(w) \in Nat /\ Until(w) > 0
  BY <1>1, <1>3, <1>4
<1> QED
  BY <1>1, <1>2, <1>3, <1>5

\* A window is known by its metric and its end.
LEMMA WindowByEnd ==
    ASSUME NEW v \in Window, NEW w \in Window, v[1] = w[1], Until(v) = Until(w)
    PROVE  v = w
<1>1. /\ Start(v[1], v[2]) = v[2] /\ Start(w[1], w[2]) = w[2]
      /\ v[2] \in Nat /\ w[2] \in Nat /\ Period \in Nat
  BY WindowType, RequestsAssumption
<1>2. v[2] = w[2]
  BY <1>1 DEF Until, End
<1> QED
  BY <1>2, WindowType

LEMMA Tuples ==
    ASSUME NEW S, NEW a \in S, NEW b \in S
    PROVE  /\ <<a>> \in Seq(S) /\ Len(<<a>>) = 1 /\ <<a>>[1] = a
           /\ <<a, b>> \in Seq(S) /\ Len(<<a, b>>) = 2
           /\ <<a, b>>[1] = a /\ <<a, b>>[2] = b
OBVIOUS

\* The windows of an operation, charged in order.
LEMMA WindowsType ==
    ASSUME NEW p \in Tier, NEW k \in Kind, NEW t \in Minute
    PROVE  /\ Len(Windows(p, k, t)) \in {1, 2}
           /\ DOMAIN Windows(p, k, t) = 1 .. Len(Windows(p, k, t))
           /\ \A n \in 1 .. Len(Windows(p, k, t)) :
                 /\ Windows(p, k, t)[n] \in Window
                 /\ (Windows(p, k, t)[n][1] = "delete") <=> (k = "delete")
<1> DEFINE M == Metrics(p, k)
<1>1. /\ M \in Seq(Metric) /\ Len(M) \in {1, 2}
      /\ \A n \in 1 .. Len(M) : (M[n] = "delete") <=> (k = "delete")
  <2>1. \A n \in 1 .. 1 : n = 1
    OBVIOUS
  <2>2. \A n \in 1 .. 2 : n = 1 \/ n = 2
    OBVIOUS
  <2>3. CASE p = "free" /\ k = "submit"
    <3>1. M = <<"day", "burst">> /\ "day" \in Metric /\ "burst" \in Metric
      BY <2>3 DEF Metrics, Metric
    <3> HIDE DEF M
    <3> QED
      BY <2>2, <2>3, <3>1, Tuples
  <2>4. CASE p = "free" /\ k \in {"send", "read"}
    <3>1. M = <<"month", k>> /\ "month" \in Metric /\ k \in Metric
      BY <2>4 DEF Metrics, Metric
    <3> HIDE DEF M
    <3> QED
      BY <2>2, <2>4, <3>1, Tuples
  <2>5. CASE ~(p = "free" /\ k # "delete") /\ k = "submit"
    <3>1. M = <<"burst">> /\ "burst" \in Metric
      BY <2>5 DEF Metrics, Metric
    <3> HIDE DEF M
    <3> QED
      BY <2>1, <2>5, <3>1, Tuples
  <2>6. CASE ~(p = "free" /\ k # "delete") /\ k # "submit"
    <3>1. M = <<k>> /\ k \in Metric
      BY <2>6 DEF Metrics, Metric, Kind
    <3> HIDE DEF M
    <3> QED
      BY <2>1, <2>6, <3>1, Tuples
  <2> QED
    BY <2>3, <2>4, <2>5, <2>6 DEF Kind
<1>2. DOMAIN M = 1 .. Len(M) /\ \A n \in 1 .. Len(M) : M[n] \in Metric
  BY <1>1
<1>3. Windows(p, k, t) = [n \in 1 .. Len(M) |-> <<M[n], Start(M[n], t)>>]
  BY <1>2 DEF Windows
<1>4. \A n \in 1 .. Len(M) : <<M[n], Start(M[n], t)>> \in Window
  BY <1>2, StartType
<1> HIDE DEF M
<1>5. Windows(p, k, t) \in Seq(Window) /\ Len(Windows(p, k, t)) = Len(M)
      /\ DOMAIN Windows(p, k, t) = 1 .. Len(M)
  BY <1>1, <1>3, <1>4
<1> QED
  BY <1>1, <1>3, <1>4, <1>5

---------------------------------------------------------------------------
(* A statement of an open transaction                                      *)

\* The row of a request that may follow in one statement.
Follows(r, q) ==
    /\ q \in Row /\ RowOK(q) /\ Fits(q) /\ Full(q)
    /\ q.at \notin {"idle", "done", "lost"}
    /\ q.locked => (Open(r) /\ req[r].locked) \/ AccountFree(r)
    /\ \A w \in q.charged : (Open(r) /\ w \in req[r].charged) \/ RowFree(r, w)

\* A statement of one transaction keeps the invariant when it takes no lock
\* that is held, charges only what fits and refuses only for what is used up.
LEMMA StatementKeeps ==
    ASSUME RequestsInv, NEW r \in Request, NEW q, Follows(r, q),
           req[r].at \notin {"lost", "done"}, Running,
           req' = [req EXCEPT ![r] = q]
    PROVE  RequestsInv'
<1>1. /\ req \in [Request -> Row]
      /\ req'[r] = q /\ \A o \in Request \ {r} : req'[o] = req[o]
  BY DEF RequestsInv, LockInv, RequestsTypeOK
<1>2. RequestsTypeOK'
  BY DEF RequestsInv, LockInv, RequestsTypeOK, Running, tables, kept, Follows
<1>3. \A o \in Request : RowOK(req'[o])
  BY <1>1 DEF RequestsInv, LockInv, Follows
<1>4. Exclusive'
  <2>1. \A o \in Request \ {r} : Open(o)' <=> Open(o)
    BY <1>1 DEF Open
  <2>2. ASSUME NEW o \in Request \ {r}, Open(o)
        PROVE  /\ ~(q.locked /\ req[o].locked)
               /\ q.charged \cap req[o].charged = {}
    BY <2>2 DEF Follows, AccountFree, RowFree, RequestsInv, LockInv, Exclusive
  <2> QED
    BY <1>1, <2>1, <2>2 DEF Exclusive, RequestsInv, LockInv
<1>5. AnswerInv'
  <2>1. answer' = answer /\ durable' = durable
    BY DEF Running, kept
  <2>2. q.at \notin {"idle", "done", "lost"}
    BY DEF Follows
  <2>3. answer[r] = "none" /\ r \notin durable
    BY DEF RequestsInv, AnswerInv
  <2> QED
    BY <1>1, <2>1, <2>2, <2>3 DEF RequestsInv, AnswerInv, AnswersAreTrue
<1>6. CountInv'
  <2>1. UNCHANGED <<used, blocks, admitted, pruned>>
    BY DEF Running, tables, kept
  <2>2. \A o \in Request : Fits(req'[o]) /\ Full(req'[o])
    BY <1>1 DEF RequestsInv, CountInv, Follows
  <2>3. \A o \in Request : Fits(req[o])' /\ Full(req[o])'
    BY <2>1, <2>2 DEF Fits, Full, WithCharge
  <2>4. Backed' /\ Counted'
    BY <2>1 DEF RequestsInv, CountInv, Backed, Counted, Total
  <2> QED
    BY <2>3, <2>4 DEF CountInv
<1> QED
  BY <1>2, <1>3, <1>4, <1>5, <1>6 DEF RequestsInv, LockInv

\* A request that takes no lock and charges nothing.
LEMMA QuietStatement ==
    ASSUME RequestsInv, NEW r \in Request, Open(r), NEW q \in Row,
           RowOK(q), q.at \notin {"idle", "done", "lost"},
           q.charged = req[r].charged, q.locked = req[r].locked,
           Full(q), q.refused \/ ~req[r].refused, q.aborted \/ ~req[r].aborted
    PROVE  Follows(r, q)
<1>1. req[r].at \notin {"idle", "done"}
  BY DEF Open
<1>2. Fits(req[r])
  BY DEF RequestsInv, CountInv
<1> QED
  BY <1>1, <1>2 DEF Follows, Fits

LEMMA BeginKeeps ==
    ASSUME RequestsInv, NEW r \in Request, NEW op \in Kind \ {"submit"}, Begin(r, op)
    PROVE  RequestsInv'
<1> DEFINE q == Fresh(IF op = "send" THEN "slot" ELSE "profile", op, minute)
<1>1. q \in Row
  BY RequestsAssumption
     DEF RequestsInv, LockInv, RequestsTypeOK, Fresh, Row, Step, Kind, Tier, Minute
<1>2. /\ q.charged = {} /\ ~q.locked /\ q.cause = {} /\ q.denied = {}
      /\ q.at \notin {"idle", "done", "lost"}
  BY DEF Fresh
<1>3. RowOK(q)
  BY DEF RowOK, Fresh, Kind
<1>4. Fits(q) /\ Full(q)
  BY <1>2 DEF Fits, Full
<1> HIDE DEF q
<1>5. Follows(r, q)
  BY <1>1, <1>2, <1>3, <1>4 DEF Follows
<1>6. /\ req[r].at \notin {"lost", "done"} /\ Running
      /\ req' = [req EXCEPT ![r] = q]
  BY DEF Begin, At, q
<1> QED
  BY <1>5, <1>6, StatementKeeps

\* What the invariant says of a request that has not reached its end.
LEMMA EarlyRow ==
    ASSUME RequestsInv, NEW r \in Request,
           req[r].at \in {"slot", "profile", "blocks", "account", "windows", "charge"}
    PROVE  /\ req[r] \in Row /\ RowOK(req[r]) /\ Open(r)
           /\ ~req[r].wrote /\ ~req[r].refused /\ ~req[r].aborted
           /\ req[r].denied = {} /\ req[r].cause = {}
           /\ Fits(req[r]) /\ Full(req[r])
BY DEF RequestsInv, LockInv, CountInv, RequestsTypeOK, RowOK, Open

\* A refusal, with the windows it names.
LEMMA RefuseKeeps ==
    ASSUME RequestsInv, NEW r \in Request,
           req[r].at \in {"slot", "profile", "blocks", "account", "windows", "charge"},
           NEW W \in SUBSET Window, Refuse(r, W),
           \A w \in W : /\ Total(w) >= Limit[w[1]]
                        /\ (w[1] = "delete") <=> (req[r].op = "delete")
    PROVE  RequestsInv'
<1> DEFINE q == [req[r] EXCEPT !.at = "commit", !.refused = TRUE, !.cause = W]
<1>1. q \in Row
  <2>1. req[r] \in Row
    BY EarlyRow
  <2> QED
    BY <2>1 DEF Row, Step
<1>2. /\ q.charged = req[r].charged /\ q.locked = req[r].locked /\ q.at = "commit"
      /\ q.refused /\ ~q.aborted /\ ~q.wrote /\ q.cause = W /\ q.denied = {}
      /\ q.op = req[r].op /\ q.kind = req[r].kind
  BY EarlyRow DEF Row
<1>3. RowOK(q)
  BY <1>2, EarlyRow DEF RowOK
<1>4. Full(q)
  <2>1. \A w \in W : w \in Window /\ w[1] \in Metric /\ Limit[w[1]] \in Nat
                     /\ used[w] \in Nat /\ pruned[w] \in Nat
    BY WindowType DEF RequestsInv, LockInv, RequestsTypeOK
  <2>2. \A w \in W : WithCharge(q, w) + pruned[w] >= Limit[w[1]]
    BY <2>1 DEF WithCharge, Total
  <2> QED
    BY <1>2, <2>2 DEF Full
<1>5. req' = [req EXCEPT ![r] = q] /\ Running
  BY EarlyRow DEF Refuse, RequestsInv, LockInv, RequestsTypeOK, Row
<1> HIDE DEF q
<1>6. Follows(r, q)
  BY <1>1, <1>2, <1>3, <1>4, EarlyRow, QuietStatement
<1> QED
  BY <1>5, <1>6, StatementKeeps

LEMMA TakeSlotKeeps ==
    ASSUME RequestsInv, NEW r \in Request, TakeSlot(r)
    PROVE  RequestsInv'
<1>1. req[r].at = "slot"
  BY DEF TakeSlot, At
<1>2. CASE SlotFree
  <2> DEFINE q == [req[r] EXCEPT !.at = "account", !.slot = TRUE]
  <2>1. q \in Row
    <3>1. req[r] \in Row
      BY <1>1, EarlyRow
    <3> QED
      BY <3>1 DEF Row, Step
  <2>2. RowOK(q)
    BY <1>1, EarlyRow DEF RowOK, Row
  <2>3. Full(q) /\ q.charged = req[r].charged /\ q.locked = req[r].locked
        /\ q.at = "account" /\ q.refused = req[r].refused /\ q.aborted = req[r].aborted
    BY <1>1, EarlyRow DEF Full, WithCharge, Row
  <2>4. req' = [req EXCEPT ![r] = q] /\ Running
    BY <1>1, <1>2, EarlyRow DEF TakeSlot, RequestsInv, LockInv, RequestsTypeOK, Row
  <2> HIDE DEF q
  <2>5. Follows(r, q)
    BY <1>1, <2>1, <2>2, <2>3, EarlyRow, QuietStatement
  <2> QED
    BY <1>1, <2>4, <2>5, StatementKeeps
<1>3. CASE ~SlotFree
  BY <1>1, <1>3, RefuseKeeps DEF TakeSlot
<1> QED
  BY <1>2, <1>3

LEMMA LockAccountKeeps ==
    ASSUME RequestsInv, NEW r \in Request, LockAccount(r)
    PROVE  RequestsInv'
<1> DEFINE q == [req[r] EXCEPT !.locked = TRUE,
                    !.at = IF req[r].op = "send" /\ ~req[r].locked THEN "profile"
                           ELSE "windows"]
<1>1. req[r].at = "account" /\ AccountFree(r)
  BY DEF LockAccount, At
<1>2. q \in Row
  <2>1. req[r] \in Row
    BY <1>1, EarlyRow
  <2> QED
    BY <2>1 DEF Row, Step
<1>3. RowOK(q)
  BY <1>1, EarlyRow DEF RowOK, Row
<1>4. Full(q) /\ Fits(q) /\ q.charged = req[r].charged
      /\ q.at \notin {"idle", "done", "lost"}
  BY <1>1, EarlyRow DEF Full, Fits, WithCharge, Row
<1>5. req' = [req EXCEPT ![r] = q] /\ Running
  BY <1>1, EarlyRow DEF LockAccount, RequestsInv, LockInv, RequestsTypeOK, Row
<1> HIDE DEF q
<1>6. Follows(r, q)
  BY <1>1, <1>2, <1>3, <1>4, EarlyRow DEF Follows
<1> QED
  BY <1>1, <1>5, <1>6, StatementKeeps

LEMMA ReadProfileKeeps ==
    ASSUME RequestsInv, NEW r \in Request, ReadProfile(r)
    PROVE  RequestsInv'
<1> DEFINE q == [req[r] EXCEPT !.profile = tier, !.at = "blocks"]
<1>1. req[r].at = "profile"
  BY DEF ReadProfile, At
<1>2. q \in Row
  <2>1. req[r] \in Row /\ tier \in Tier
    BY <1>1, EarlyRow DEF RequestsInv, LockInv, RequestsTypeOK
  <2> QED
    BY <2>1 DEF Row, Step
<1>3. RowOK(q)
  BY <1>1, EarlyRow DEF RowOK, Row
<1>4. Full(q) /\ q.charged = req[r].charged /\ q.locked = req[r].locked
      /\ q.at = "blocks" /\ q.refused = req[r].refused /\ q.aborted = req[r].aborted
  BY <1>1, EarlyRow DEF Full, WithCharge, Row
<1>5. req' = [req EXCEPT ![r] = q] /\ Running
  BY <1>1, EarlyRow DEF ReadProfile, RequestsInv, LockInv, RequestsTypeOK, Row
<1> HIDE DEF q
<1>6. Follows(r, q)
  BY <1>1, <1>2, <1>3, <1>4, EarlyRow, QuietStatement
<1> QED
  BY <1>1, <1>5, <1>6, StatementKeeps

LEMMA CheckBlocksKeeps ==
    ASSUME RequestsInv, NEW r \in Request, CheckBlocks(r)
    PROVE  RequestsInv'
<1>1. req[r].at = "blocks"
  BY DEF CheckBlocks, At
<1>2. ASSUME NEW k \in Kind, NEW m \in Metric, Blocked(r, k, m),
             Refuse(r, {w \in Window : w[1] = m /\ End(m, w[2]) = blocks[<<k, m>>]})
      PROVE  RequestsInv'
  <2> DEFINE W == {w \in Window : w[1] = m /\ End(m, w[2]) = blocks[<<k, m>>]}
  <2>1. req[r].began \in Nat /\ req[r].kind \in Kind /\ req[r].op \in Kind \ {"submit"}
    BY <1>1, EarlyRow, RequestsAssumption DEF Row, Minute
  <2>2. blocks[<<k, m>>] \in Nat /\ blocks[<<k, m>>] > 0
    BY <1>2, <2>1 DEF Blocked, RequestsInv, LockInv, RequestsTypeOK
  <2>3. PICK v \in Window : /\ v[1] = m /\ End(m, v[2]) = blocks[<<k, m>>]
                            /\ Total(v) >= Limit[m]
    BY <2>2 DEF RequestsInv, CountInv, Backed
  <2>4. \A w \in W : w = v
    BY <2>3, WindowByEnd DEF Until
  <2>5. (k = "delete") <=> (m = "delete")
    BY <2>2 DEF RequestsInv, CountInv, Backed
  <2>6. (req[r].kind = "delete") <=> (req[r].op = "delete")
    BY <1>1, <2>1, EarlyRow DEF RowOK
  <2>7. (m = "delete") <=> (req[r].op = "delete")
    BY <1>2, <2>5, <2>6 DEF Blocked
  <2> QED
    BY <1>1, <1>2, <2>3, <2>4, <2>7, RefuseKeeps
<1>3. ASSUME NEW step \in {"account", "charge"}, Goto(r, step),
             req[r].op = "send" => req[r].locked
      PROVE  RequestsInv'
  <2> DEFINE q == [req[r] EXCEPT !.at = step]
  <2>1. q \in Row
    BY <1>1, EarlyRow DEF Row, Step
  <2>2. RowOK(q)
    BY <1>1, <1>3, EarlyRow DEF RowOK, Row
  <2>3. Full(q) /\ q.charged = req[r].charged /\ q.locked = req[r].locked
        /\ q.at \notin {"idle", "done", "lost"}
        /\ q.refused = req[r].refused /\ q.aborted = req[r].aborted
    BY <1>1, EarlyRow DEF Full, WithCharge, Row
  <2>4. req' = [req EXCEPT ![r] = q] /\ Running
    BY <1>3, EarlyRow DEF Goto, RequestsInv, LockInv, RequestsTypeOK, Row
  <2> HIDE DEF q
  <2>5. Follows(r, q)
    BY <1>1, <2>1, <2>2, <2>3, EarlyRow, QuietStatement
  <2> QED
    BY <1>1, <2>4, <2>5, StatementKeeps
<1>4. req[r].op = "send" => req[r].locked
  BY <1>1, EarlyRow DEF RowOK
<1> QED
  BY <1>2, <1>3, <1>4 DEF CheckBlocks

---------------------------------------------------------------------------
(* Windows are checked and charged                                         *)

Denied(r, w, C, c) ==
    [req[r] EXCEPT !.at = "commit", !.refused = TRUE, !.cause = {w},
                   !.denied = {<<req[r].kind, w>>}, !.charged = C, !.clock = c]

\* A refusal for a window w that the counter shows to be used up; the rows C
\* have been charged before it was seen.
LEMMA DenyKeeps ==
    ASSUME RequestsInv, NEW r \in Request,
           req[r].at \in {"slot", "profile", "blocks", "account", "windows", "charge"},
           NEW w \in Window, NEW C \in SUBSET Window, NEW c \in Minute,
           Over(r, w), (w[1] = "delete") <=> (req[r].kind = "delete"),
           req[r].charged \subseteq C,
           \A v \in C : v \in req[r].charged \/ RowFree(r, v),
           Running, req' = [req EXCEPT ![r] = Denied(r, w, C, c)]
    PROVE  RequestsInv'
<1> DEFINE q == Denied(r, w, C, c)
<1>1. req[r] \in Row /\ Open(r)
  BY EarlyRow
<1>2. q \in Row
  <2>1. {w} \in SUBSET Window /\ {<<req[r].kind, w>>} \in SUBSET (Kind \X Window)
    BY <1>1 DEF Row
  <2> QED
    BY <1>1, <2>1 DEF Denied, Row, Step
<1>3. /\ q.at = "commit" /\ q.refused /\ ~q.wrote /\ ~q.aborted
      /\ q.cause = {w} /\ q.denied = {<<req[r].kind, w>>} /\ q.charged = C
      /\ q.locked = req[r].locked /\ q.op = req[r].op /\ q.kind = req[r].kind
  BY <1>1, EarlyRow DEF Denied, Row
<1> HIDE DEF q
<1>4. (req[r].kind = "delete") <=> (req[r].op = "delete")
  BY <1>1, EarlyRow DEF RowOK, Row
<1>5. RowOK(q)
  <2>1. \A d \in q.denied : (d[2][1] = "delete") <=> (d[1] = "delete")
    BY <1>3
  <2>2. \A v \in q.cause : (v[1] = "delete") <=> (q.op = "delete")
    BY <1>3, <1>4
  <2> QED
    BY <1>3, <2>1, <2>2, EarlyRow DEF RowOK
<1>6. Full(q)
  <2>1. used[w] \in Nat /\ pruned[w] \in Nat /\ Limit[w[1]] \in Nat
    BY WindowType DEF RequestsInv, LockInv, RequestsTypeOK
  <2>2. WithCharge(req[r], w) + 1 > Limit[w[1]]
    BY SeenIsWithCharge DEF Over
  <2>3. WithCharge(q, w) >= WithCharge(req[r], w) /\ WithCharge(q, w) \in Nat
        /\ WithCharge(req[r], w) \in Nat
    BY <1>3, <2>1 DEF WithCharge
  <2>4. WithCharge(q, w) + pruned[w] >= Limit[w[1]]
    BY <2>1, <2>2, <2>3
  <2> QED
    BY <1>3, <2>4 DEF Full
<1>7. Fits(q)
  BY <1>3 DEF Fits
<1>8. Follows(r, q)
  BY <1>1, <1>2, <1>3, <1>5, <1>6, <1>7 DEF Follows
<1> QED
  BY <1>8, StatementKeeps DEF q

LEMMA CheckWindowsKeeps ==
    ASSUME RequestsInv, NEW r \in Request, CheckWindows(r)
    PROVE  RequestsInv'
<1> DEFINE W == Windows(req[r].profile, req[r].kind, minute)
           full == {n \in DOMAIN W : Seen(r, W[n]) + 1 > Limit[W[n][1]]}
<1>1. req[r].at = "windows" /\ req[r] \in Row /\ minute \in Minute
  BY EarlyRow DEF CheckWindows, At, RequestsInv, LockInv, RequestsTypeOK
<1>2. /\ DOMAIN W = 1 .. Len(W) /\ Len(W) \in {1, 2}
      /\ \A n \in 1 .. Len(W) :
            /\ W[n] \in Window
            /\ (W[n][1] = "delete") <=> (req[r].kind = "delete")
  BY <1>1, WindowsType DEF Row
<1>3. CASE full = {}
  <2> DEFINE q == [req[r] EXCEPT !.at = "charge", !.clock = minute]
  <2>1. q \in Row
    BY <1>1 DEF Row, Step
  <2>2. RowOK(q)
    BY <1>1, EarlyRow DEF RowOK, Row
  <2>3. Full(q) /\ q.charged = req[r].charged /\ q.locked = req[r].locked
        /\ q.at = "charge" /\ q.refused = req[r].refused /\ q.aborted = req[r].aborted
    BY <1>1, EarlyRow DEF Full, WithCharge, Row
  <2>4. req' = [req EXCEPT ![r] = q] /\ Running
    BY <1>1, <1>3 DEF CheckWindows, RequestsInv, LockInv, RequestsTypeOK, Row
  <2> HIDE DEF q
  <2>5. Follows(r, q)
    BY <1>1, <2>1, <2>2, <2>3, EarlyRow, QuietStatement
  <2> QED
    BY <1>1, <2>4, <2>5, StatementKeeps
<1>4. CASE full # {}
  <2>1. full \subseteq {1, 2}
    BY <1>2
  <2>2. \E m \in full : \A o \in full : m <= o
    BY <1>4, <2>1
  <2>3. PICK n \in full : n = CHOOSE m \in full : \A o \in full : m <= o
    BY <2>2
  <2>4. PICK w \in Window : w = W[n]
    BY <1>2
  <2>5. Running /\ req' = Deny(r, w)
    BY <1>4, <2>3, <2>4 DEF CheckWindows
  <2>6. /\ Over(r, w)
        /\ (w[1] = "delete") <=> (req[r].kind = "delete")
    BY <1>2, <2>4 DEF Over
  <2>7. req[r].denied = {} /\ req[r].charged \in SUBSET Window /\ req[r].clock \in Minute
    BY <1>1, EarlyRow DEF Row
  <2>8. Denied(r, w, req[r].charged, req[r].clock)
             = [req[r] EXCEPT !.at = "commit", !.refused = TRUE, !.cause = {w},
                              !.denied = @ \cup {<<req[r].kind, w>>}]
    BY <1>1, <2>7 DEF Denied, Row
  <2>9. req' = [req EXCEPT ![r] = Denied(r, w, req[r].charged, req[r].clock)]
    BY <1>1, <2>5, <2>8 DEF Deny, Row, RequestsInv, LockInv, RequestsTypeOK
  <2>10. /\ req[r].charged \subseteq req[r].charged
         /\ \A v \in req[r].charged : v \in req[r].charged \/ RowFree(r, v)
         /\ req[r].at \in {"slot", "profile", "blocks", "account", "windows", "charge"}
    BY <1>1
  <2> HIDE DEF W, full
  <2> QED
    BY <2>5, <2>6, <2>7, <2>9, <2>10, DenyKeeps
<1> QED
  BY <1>3, <1>4

\* The windows due are charged in order: those before the last are not over.
LEMMA DueType ==
    ASSUME RequestsInv, NEW r \in Request, req[r].at = "charge"
    PROVE  /\ LastDue(r) \in 1 .. Len(Due(r)) /\ Len(Due(r)) \in {1, 2}
           /\ \A n \in 1 .. Len(Due(r)) :
                 /\ Due(r)[n] \in Window
                 /\ (Due(r)[n][1] = "delete") <=> (req[r].kind = "delete")
           /\ \A n \in 1 .. LastDue(r) : n = LastDue(r) \/ ~Over(r, Due(r)[n])
<1>1. ChargeTime(r) \in Minute /\ req[r] \in Row
  BY EarlyRow DEF ChargeTime, Row, RequestsInv, LockInv, RequestsTypeOK
<1>2. /\ DOMAIN Due(r) = 1 .. Len(Due(r)) /\ Len(Due(r)) \in {1, 2}
      /\ \A n \in 1 .. Len(Due(r)) :
            /\ Due(r)[n] \in Window
            /\ (Due(r)[n][1] = "delete") <=> (req[r].kind = "delete")
  BY <1>1, WindowsType DEF Due, Row
<1> DEFINE over == {n \in DOMAIN Due(r) : Over(r, Due(r)[n])}
<1>3. LastDue(r) = IF over = {} THEN Len(Due(r))
                   ELSE CHOOSE n \in over : \A o \in over : n <= o
  BY DEF LastDue
<1>4. CASE over = {}
  <2>1. LastDue(r) = Len(Due(r))
    BY <1>3, <1>4
  <2>2. \A n \in 1 .. Len(Due(r)) : ~Over(r, Due(r)[n])
    BY <1>2, <1>4
  <2>3. Len(Due(r)) \in 1 .. Len(Due(r))
    BY <1>2
  <2> QED
    BY <1>2, <2>1, <2>2, <2>3
<1>5. CASE over # {}
  <2>1. over \subseteq {1, 2}
    BY <1>2
  <2>2. \E m \in over : \A o \in over : m <= o
    BY <1>5, <2>1
  <2>3. LastDue(r) \in over /\ \A o \in over : LastDue(r) <= o
    BY <1>3, <1>5, <2>2
  <2>4. LastDue(r) \in 1 .. Len(Due(r))
    BY <1>2, <2>3
  <2>5. ASSUME NEW n \in 1 .. LastDue(r), n # LastDue(r)
        PROVE  ~Over(r, Due(r)[n])
    <3>1. n \in 1 .. Len(Due(r)) /\ ~(LastDue(r) <= n)
      BY <1>2, <2>4, <2>5
    <3> QED
      BY <1>2, <2>3, <3>1
  <2> QED
    BY <1>2, <2>4, <2>5
<1> QED
  BY <1>4, <1>5

LEMMA ChargeKeeps ==
    ASSUME RequestsInv, NEW r \in Request, Charge(r)
    PROVE  RequestsInv'
<1> DEFINE last    == Due(r)[LastDue(r)]
           charged == req[r].charged \cup {Due(r)[n] : n \in 1 .. LastDue(r)}
           paid    == [req EXCEPT ![r].charged = charged, ![r].clock = 0]
<1>1. /\ req[r].at = "charge" /\ req[r] \in Row /\ Open(r) /\ Running
      /\ req \in [Request -> Row] /\ 0 \in Minute
  BY EarlyRow, RequestsAssumption
     DEF Charge, At, RequestsInv, LockInv, RequestsTypeOK, Minute
<1>2. /\ LastDue(r) \in 1 .. Len(Due(r))
      /\ \A n \in 1 .. LastDue(r) :
            /\ Due(r)[n] \in Window
            /\ (Due(r)[n][1] = "delete") <=> (req[r].kind = "delete")
            /\ n = LastDue(r) \/ ~Over(r, Due(r)[n])
            /\ RowFree(r, Due(r)[n])
  BY <1>1, DueType DEF Charge
<1>3. LastDue(r) \in 1 .. LastDue(r)
  BY <1>2, DueType, <1>1
<1>4. /\ last \in Window /\ last \in charged /\ req[r].charged \subseteq charged
      /\ (last[1] = "delete") <=> (req[r].kind = "delete")
  BY <1>2, <1>3
<1>5. charged \in SUBSET Window
  BY <1>1, <1>2 DEF Row
<1>6. \A w \in charged : w \in req[r].charged \/ RowFree(r, w)
  BY <1>2
<1>7. ~Over(r, last) => \A w \in charged : used[w] + 1 <= Limit[w[1]]
  <2> SUFFICES ASSUME ~Over(r, last), NEW w \in charged
               PROVE  used[w] + 1 <= Limit[w[1]]
    OBVIOUS
  <2>1. CASE w \in req[r].charged
    BY <1>1, <2>1, EarlyRow DEF Fits
  <2>2. CASE w \notin req[r].charged
    <3>1. w \in Window /\ ~Over(r, w)
      BY <1>2, <2>2
    <3>2. used[w] \in Nat /\ Limit[w[1]] \in Nat
      BY <3>1, WindowType DEF RequestsInv, LockInv, RequestsTypeOK
    <3> QED
      BY <3>1, <3>2, <2>2, SeenIsWithCharge DEF Over, WithCharge
  <2> QED
    BY <2>1, <2>2
<1>8. \/ ~Over(r, last) /\ Writes(r, charged)
      \/ /\ Over(r, last)
         /\ req' = [Deny(r, last) EXCEPT ![r].charged = charged, ![r].clock = 0]
  BY DEF Charge
<1> HIDE DEF last, charged
\* What holds of the row in any case.
<1>9. ASSUME NEW q \in Row, RowOK(q), q.charged = charged, q.locked = req[r].locked,
             q.at \notin {"idle", "done", "lost"}, q.cause = {}, q.denied = {},
             ~Over(r, last), req' = [req EXCEPT ![r] = q]
      PROVE  RequestsInv'
  <2>1. Fits(q) /\ Full(q)
    BY <1>7, <1>9 DEF Fits, Full
  <2>2. Follows(r, q)
    BY <1>1, <1>6, <1>9, <2>1 DEF Follows
  <2> QED
    BY <1>1, <1>9, <2>2, StatementKeeps
<1>10. CASE ~Over(r, last) /\ req[r].kind = "send"
            /\ req' = [paid EXCEPT ![r].kind = "submit", ![r].at = "blocks"]
  <2> DEFINE q == [req[r] EXCEPT !.charged = charged, !.clock = 0,
                                 !.kind = "submit", !.at = "blocks"]
  <2>1. q \in Row
    BY <1>1, <1>5 DEF Row, Step, Kind
  <2>2. req[r].op = "send" /\ req[r].locked
    BY <1>1, <1>10, EarlyRow DEF RowOK
  <2>3. RowOK(q)
    BY <1>1, <2>2, EarlyRow DEF RowOK, Row
  <2>4. q.charged = charged /\ q.locked = req[r].locked /\ q.at = "blocks"
        /\ q.cause = {} /\ q.denied = {}
    BY <1>1, EarlyRow DEF Row
  <2>5. req' = [req EXCEPT ![r] = q]
    BY <1>1, <1>10 DEF Row
  <2> HIDE DEF q
  <2> QED
    BY <1>9, <1>10, <2>1, <2>3, <2>4, <2>5
<1>11. ASSUME NEW failed \in BOOLEAN, ~Over(r, last),
              req' = [paid EXCEPT ![r].at = "commit", ![r].wrote = ~failed,
                                  ![r].aborted = failed]
       PROVE  RequestsInv'
  <2> DEFINE q == [req[r] EXCEPT !.charged = charged, !.clock = 0,
                      !.at = "commit", !.wrote = ~failed, !.aborted = failed]
  <2>1. q \in Row
    BY <1>1, <1>5 DEF Row, Step
  <2>2. q.wrote = ~failed /\ q.aborted = failed /\ q.at = "commit"
        /\ q.charged = charged /\ q.locked = req[r].locked
        /\ ~q.refused /\ q.op = req[r].op /\ q.kind = req[r].kind
        /\ q.cause = {} /\ q.denied = {}
    BY <1>1, EarlyRow DEF Row
  <2>3. RowOK(q)
    BY <1>1, <2>2, EarlyRow DEF RowOK
  <2>4. req' = [req EXCEPT ![r] = q]
    BY <1>1, <1>11 DEF Row
  <2> HIDE DEF q
  <2> QED
    BY <1>9, <1>11, <2>1, <2>2, <2>3, <2>4
<1>12. CASE Over(r, last)
            /\ req' = [Deny(r, last) EXCEPT ![r].charged = charged, ![r].clock = 0]
  <2>1. req[r].denied = {}
    BY <1>1, EarlyRow
  <2>2. req' = [req EXCEPT ![r] = Denied(r, last, charged, 0)]
    BY <1>1, <1>12, <2>1 DEF Deny, Denied, Row
  <2> QED
    BY <1>1, <1>4, <1>5, <1>6, <1>12, <2>2, DenyKeeps
<1>13. CASE ~Over(r, last) /\ Writes(r, charged)
  BY <1>10, <1>11, <1>13 DEF Writes
<1> QED
  BY <1>8, <1>12, <1>13

---------------------------------------------------------------------------
(* The end of a transaction                                                *)

LEMMA UnitType ==
    ASSUME NEW r, NEW w
    PROVE  Unit(r, w) = IF w \in req[r].charged THEN 1 ELSE 0
BY CardinalityWithin DEF Unit

LEMMA FreshRow ==
    ASSUME NEW step \in {"done", "lost"}
    PROVE  /\ Fresh(step, "read", 0) \in Row
           /\ RowOK(Fresh(step, "read", 0))
           /\ Fresh(step, "read", 0).at = step
           /\ Fresh(step, "read", 0).charged = {}
           /\ ~Fresh(step, "read", 0).locked
<1>1. 0 \in Minute
  BY RequestsAssumption DEF Minute
<1>2. Fresh(step, "read", 0) \in Row
  BY <1>1 DEF Fresh, Row, Step, Kind, Tier
<1>3. RowOK(Fresh(step, "read", 0))
  BY DEF Fresh, RowOK
<1> QED
  BY <1>2, <1>3 DEF Fresh

\* The tables keep their types when a transaction commits.
LEMMA CommitTypes ==
    ASSUME LockInv, NEW r \in Request, Commits(r)
    PROVE  /\ used' \in [Window -> Nat] /\ touched' \in [Window -> Minute]
           /\ blocks' \in [Kind \X Metric -> Nat]
           /\ durable' \subseteq Request /\ admitted' \in [Window -> Nat]
<1>1. /\ used \in [Window -> Nat] /\ touched \in [Window -> Minute]
      /\ blocks \in [Kind \X Metric -> Nat] /\ admitted \in [Window -> Nat]
      /\ durable \subseteq Request /\ req[r] \in Row
  BY DEF LockInv, RequestsTypeOK
<1>2. \A w \in Window : Unit(r, w) \in Nat
  BY UnitType
<1>3. req[r].began \in Minute /\ req[r].denied \subseteq Kind \X Window
  BY <1>1 DEF Row
<1>4. used' \in [Window -> Nat] /\ touched' \in [Window -> Minute]
  BY <1>1, <1>2, <1>3 DEF Commits
<1>5. durable' \subseteq Request /\ admitted' \in [Window -> Nat]
  BY <1>1, <1>2 DEF Commits
<1>6. blocks' \in [Kind \X Metric -> Nat]
  <2> DEFINE D(b) == {d \in req[r].denied : d[1] = b[1] /\ d[2][1] = b[2]}
             e(b) == CHOOSE d \in req[r].denied : d[1] = b[1] /\ d[2][1] = b[2]
  <2>1. \A b \in Kind \X Metric : D(b) # {} => e(b) \in req[r].denied
    OBVIOUS
  <2>2. \A b \in Kind \X Metric : D(b) # {} => Until(e(b)[2]) \in Nat
    BY <1>3, <2>1, WindowType
  <2>3. blocks' = [b \in Kind \X Metric |-> IF D(b) # {} THEN Until(e(b)[2]) ELSE blocks[b]]
    BY DEF Commits
  <2> HIDE DEF D, e
  <2> QED
    BY <1>1, <2>2, <2>3
<1> QED
  BY <1>4, <1>5, <1>6

\* A committed transaction leaves the counters of rows that others hold alone,
\* and adds its units to the rest.
LEMMA CommitCounts ==
    ASSUME RequestsInv, NEW r \in Request, Open(r), ~req[r].aborted,
           Commits(r), pruned' = pruned
    PROVE  /\ \A w \in Window : used'[w] >= used[w]
           /\ \A o \in Request \ {r} : Open(o) =>
                 \A w \in req[o].charged : used'[w] = used[w]
           /\ Counted'
<1>1. /\ used \in [Window -> Nat] /\ admitted \in [Window -> Nat]
      /\ pruned \in [Window -> Nat] /\ req \in [Request -> Row]
  BY DEF RequestsInv, LockInv, RequestsTypeOK
<1>2. \A w \in Window : /\ Unit(r, w) = IF w \in req[r].charged THEN 1 ELSE 0
                        /\ used'[w] = used[w] + Unit(r, w)
                        /\ admitted'[w] = admitted[w]
                                + (IF req[r].wrote THEN Unit(r, w) ELSE 0)
  BY UnitType DEF Commits
<1>3. \A w \in Window : used'[w] >= used[w]
  BY <1>1, <1>2
<1>4. ASSUME NEW o \in Request \ {r}, Open(o), NEW w \in req[o].charged
      PROVE  used'[w] = used[w]
  <2>1. w \in Window /\ w \notin req[r].charged
    BY <1>1, <1>4 DEF RequestsInv, LockInv, Exclusive, Row
  <2> QED
    BY <1>1, <1>2, <2>1
<1>5. ASSUME NEW w \in Window
      PROVE  /\ admitted'[w] <= used'[w] + pruned[w]
             /\ admitted'[w] <= Limit[w[1]] + pruned[w]
  <2>1. /\ admitted[w] <= used[w] + pruned[w]
        /\ admitted[w] <= Limit[w[1]] + pruned[w]
    BY DEF RequestsInv, CountInv, Counted, Total
  <2>2. /\ used[w] \in Nat /\ admitted[w] \in Nat /\ pruned[w] \in Nat
        /\ Limit[w[1]] \in Nat
    BY <1>1, WindowType
  <2>3. CASE req[r].wrote /\ w \in req[r].charged
    <3>1. ~req[r].refused /\ req[r].at \notin {"idle", "done"}
      BY <2>3 DEF RequestsInv, LockInv, RowOK, Open
    <3>2. used[w] + 1 <= Limit[w[1]]
      BY <2>3, <3>1 DEF RequestsInv, CountInv, Fits
    <3>3. used'[w] = used[w] + 1 /\ admitted'[w] = admitted[w] + 1
      BY <1>2, <2>3
    <3> QED
      BY <2>1, <2>2, <3>2, <3>3
  <2>4. CASE ~(req[r].wrote /\ w \in req[r].charged)
    <3>1. used'[w] >= used[w] /\ used'[w] \in Nat /\ admitted'[w] = admitted[w]
      BY <1>2, <2>2, <2>4
    <3> QED
      BY <2>1, <2>2, <3>1
  <2> QED
    BY <2>3, <2>4
<1>6. Counted'
  BY <1>5 DEF Counted, Total
<1> QED
  BY <1>3, <1>4, <1>6

\* The blocks it leaves stand for windows that its own units have used up.
LEMMA CommitBacks ==
    ASSUME RequestsInv, NEW r \in Request, Commits(r), pruned' = pruned
    PROVE  Backed'
<1> SUFFICES ASSUME NEW k \in Kind, NEW m \in Metric, blocks'[<<k, m>>] > 0
             PROVE  /\ (k = "delete") <=> (m = "delete")
                    /\ \E w \in Window :
                          /\ w[1] = m /\ End(m, w[2]) = blocks'[<<k, m>>]
                          /\ used'[w] + pruned[w] >= Limit[m]
  BY DEF Backed, Total
<1>1. /\ used \in [Window -> Nat] /\ pruned \in [Window -> Nat]
      /\ req[r] \in Row /\ RowOK(req[r]) /\ Full(req[r])
  BY DEF RequestsInv, LockInv, CountInv, RequestsTypeOK
<1>2. \A w \in Window : used'[w] = WithCharge(req[r], w) /\ used'[w] \in Nat
                        /\ used'[w] >= used[w] /\ used[w] \in Nat /\ pruned[w] \in Nat
  BY <1>1, UnitType DEF Commits, WithCharge
<1> DEFINE D == {d \in req[r].denied : d[1] = k /\ d[2][1] = m}
           e == CHOOSE d \in req[r].denied : d[1] = k /\ d[2][1] = m
<1>3. blocks'[<<k, m>>] = IF D # {} THEN Until(e[2]) ELSE blocks[<<k, m>>]
  BY DEF Commits
<1>4. CASE D # {}
  <2>1. e \in req[r].denied /\ e[1] = k /\ e[2][1] = m
    BY <1>4
  <2> HIDE DEF e
  <2>2. e[2] \in Window
    BY <1>1, <2>1 DEF Row
  <2>3. (k = "delete") <=> (m = "delete")
    BY <1>1, <2>1 DEF RowOK
  <2>4. used'[e[2]] + pruned[e[2]] >= Limit[m]
    BY <1>1, <1>2, <2>1, <2>2 DEF Full
  <2>5. End(m, e[2][2]) = blocks'[<<k, m>>]
    BY <1>3, <1>4, <2>1 DEF Until
  <2> QED
    BY <2>1, <2>2, <2>3, <2>4, <2>5
<1>5. CASE D = {}
  <2>1. blocks'[<<k, m>>] = blocks[<<k, m>>]
    BY <1>3, <1>5
  <2>2. /\ (k = "delete") <=> (m = "delete")
        /\ \E w \in Window : /\ w[1] = m /\ End(m, w[2]) = blocks[<<k, m>>]
                             /\ used[w] + pruned[w] >= Limit[m]
    BY <2>1 DEF RequestsInv, CountInv, Backed, Total
  <2>3. PICK w \in Window : /\ w[1] = m /\ End(m, w[2]) = blocks[<<k, m>>]
                            /\ used[w] + pruned[w] >= Limit[m]
    BY <2>2
  <2>4. used'[w] + pruned[w] >= Limit[m]
    BY <1>2, <2>3, WindowType
  <2> QED
    BY <2>1, <2>2, <2>3, <2>4
<1> QED
  BY <1>4, <1>5

\* More units in a window, of which none was charged by q, keep what q knows.
LEMMA GrowthKeepsRow ==
    ASSUME LockInv, LockInv', NEW q \in Row, Fits(q), Full(q), pruned' = pruned,
           \A w \in Window : used'[w] >= used[w],
           q.at \notin {"idle", "done"} => \A w \in q.charged : used'[w] = used[w]
    PROVE  Fits(q)' /\ Full(q)'
<1>1. \A w \in Window : /\ used[w] \in Nat /\ used'[w] \in Nat /\ pruned[w] \in Nat
                        /\ Limit[w[1]] \in Nat
  BY WindowType DEF LockInv, RequestsTypeOK
<1>2. q.cause \subseteq Window /\ \A d \in q.denied : d[2] \in Window
  BY DEF Row
<1>3. \A w \in Window : used'[w] + (IF w \in q.charged THEN 1 ELSE 0) + pruned'[w]
                           >= WithCharge(q, w) + pruned[w]
  BY <1>1 DEF WithCharge
<1>4. \A w \in Window : /\ WithCharge(q, w) \in Nat
                        /\ used'[w] + (IF w \in q.charged THEN 1 ELSE 0) \in Nat
  BY <1>1 DEF WithCharge
<1>5. Full(q)'
  <2>1. \A w \in Window : WithCharge(q, w) + pruned[w] >= Limit[w[1]] =>
           used'[w] + (IF w \in q.charged THEN 1 ELSE 0) + pruned'[w] >= Limit[w[1]]
    BY <1>1, <1>3, <1>4
  <2> QED
    BY <1>2, <2>1 DEF Full, WithCharge
<1>6. Fits(q)'
  BY DEF Fits
<1> QED
  BY <1>5, <1>6

\* The transaction of r ends: rolled back, or committed when it has not failed.
LEMMA EndKeeps ==
    ASSUME RequestsInv, NEW r \in Request, Open(r), Close(r),
           RollsBack \/ (Commits(r) /\ ~req[r].aborted),
           UNCHANGED <<minute, tier, pruned>>,
           answer' \in [Request -> {"none", "ok", "refused", "failed"}],
           \A o \in Request \ {r} : answer'[o] = answer[o],
           answer'[r] = "ok" => r \in durable',
           answer'[r] = "refused" => r \notin durable'
    PROVE  RequestsInv'
<1> DEFINE q == Fresh("done", "read", 0)
<1>1. /\ req \in [Request -> Row] /\ q \in Row /\ RowOK(q)
      /\ q.charged = {} /\ ~q.locked /\ q.at = "done"
  BY FreshRow DEF RequestsInv, LockInv, RequestsTypeOK
<1>2. req' \in [Request -> Row] /\ req'[r] = q
      /\ \A o \in Request \ {r} : req'[o] = req[o]
  BY <1>1 DEF Close
<1> HIDE DEF q
<1>3. RequestsTypeOK'
  <2>1. /\ used' \in [Window -> Nat] /\ touched' \in [Window -> Minute]
        /\ blocks' \in [Kind \X Metric -> Nat]
        /\ durable' \subseteq Request /\ admitted' \in [Window -> Nat]
    <3>1. CASE RollsBack
      BY <3>1 DEF RollsBack, tables, kept, RequestsInv, LockInv, RequestsTypeOK
    <3>2. CASE Commits(r)
      BY <3>2, CommitTypes DEF RequestsInv
    <3> QED
      BY <3>1, <3>2
  <2> QED
    BY <1>2, <2>1 DEF RequestsInv, LockInv, RequestsTypeOK
<1>4. \A o \in Request : RowOK(req'[o])
  BY <1>1, <1>2 DEF RequestsInv, LockInv
<1>5. Exclusive'
  BY <1>1, <1>2 DEF Exclusive, Open, RequestsInv, LockInv
<1>6. LockInv'
  BY <1>3, <1>4, <1>5 DEF LockInv
<1>7. AnswerInv'
  <2>1. durable' \subseteq durable \cup {r} /\ durable \subseteq durable'
    BY DEF RollsBack, kept, Commits
  <2> QED
    BY <1>1, <1>2, <2>1 DEF RequestsInv, AnswerInv, AnswersAreTrue
<1>8. CASE RollsBack
  <2>1. UNCHANGED <<used, blocks, admitted, pruned>>
    BY <1>8 DEF RollsBack, tables, kept
  <2>2. Fits(q) /\ Full(q)
    BY <1>1 DEF Fits, Full, RowOK
  <2>3. \A o \in Request : Fits(req'[o]) /\ Full(req'[o])
    BY <1>2, <2>2 DEF RequestsInv, CountInv
  <2>4. \A o \in Request : Fits(req[o])' /\ Full(req[o])'
    BY <2>1, <2>3 DEF Fits, Full, WithCharge
  <2>5. Backed' /\ Counted'
    BY <2>1 DEF RequestsInv, CountInv, Backed, Counted, Total
  <2> QED
    BY <1>6, <1>7, <2>4, <2>5 DEF CountInv, RequestsInv
<1>9. CASE Commits(r) /\ ~req[r].aborted
  <2>1. /\ \A w \in Window : used'[w] >= used[w]
        /\ \A o \in Request \ {r} : Open(o) =>
              \A w \in req[o].charged : used'[w] = used[w]
        /\ Counted' /\ Backed'
    BY <1>9, CommitCounts, CommitBacks
  <2>2. ASSUME NEW o \in Request PROVE Fits(req[o])' /\ Full(req[o])'
    <3>1. CASE o = r
      BY <1>1, <1>2, <3>1 DEF Fits, Full, RowOK
    <3>2. CASE o # r
      <4>1. PICK p \in Row : p = req[o] /\ p = req'[o]
        BY <1>1, <1>2, <3>2
      <4>2. p.at \notin {"idle", "done"} => \A w \in p.charged : used'[w] = used[w]
        BY <2>1, <3>2, <4>1 DEF Open
      <4>3. Fits(p) /\ Full(p)
        BY <4>1 DEF RequestsInv, CountInv
      <4>4. Fits(p)' /\ Full(p)'
        BY <1>6, <2>1, <4>2, <4>3, GrowthKeepsRow DEF RequestsInv
      <4> QED
        BY <4>1, <4>4 DEF Fits, Full, WithCharge
    <3> QED
      BY <3>1, <3>2
  <2> QED
    BY <1>6, <1>7, <2>1, <2>2 DEF CountInv, RequestsInv
<1> QED
  BY <1>8, <1>9

LEMMA CommitKeeps ==
    ASSUME RequestsInv, NEW r \in Request, Commit(r)
    PROVE  RequestsInv'
<1>1. /\ req[r].at = "commit" /\ Open(r) /\ r \notin durable
      /\ RowOK(req[r]) /\ req[r] \in Row
      /\ answer \in [Request -> {"none", "ok", "refused", "failed"}]
  BY DEF Commit, At, Open, RequestsInv, LockInv, AnswerInv, RequestsTypeOK
<1>2. answer' = [answer EXCEPT ![r] = IF req[r].aborted THEN "failed"
                                      ELSE IF req[r].refused THEN "refused" ELSE "ok"]
  BY DEF Commit, Acknowledged
<1>3. /\ answer' \in [Request -> {"none", "ok", "refused", "failed"}]
      /\ \A o \in Request \ {r} : answer'[o] = answer[o]
  BY <1>1, <1>2
<1>4. /\ Close(r) /\ UNCHANGED <<minute, tier, pruned>>
      /\ RollsBack \/ (Commits(r) /\ ~req[r].aborted)
  BY DEF Commit
<1>5. answer'[r] = "ok" => r \in durable'
  <2> SUFFICES ASSUME answer'[r] = "ok" PROVE r \in durable'
    OBVIOUS
  <2>1. ~req[r].aborted /\ ~req[r].refused
    BY <1>1, <1>2
  <2>2. req[r].wrote /\ Commits(r)
    BY <1>1, <2>1 DEF RowOK, Commit
  <2> QED
    BY <2>2 DEF Commits
<1>6. answer'[r] = "refused" => r \notin durable'
  <2> SUFFICES ASSUME answer'[r] = "refused" PROVE r \notin durable'
    OBVIOUS
  <2>1. ~req[r].aborted /\ req[r].refused
    BY <1>1, <1>2
  <2>2. ~req[r].wrote /\ Commits(r)
    BY <1>1, <2>1 DEF RowOK, Commit
  <2> QED
    BY <1>1, <2>2 DEF Commits
<1> QED
  BY <1>1, <1>3, <1>4, <1>5, <1>6, EndKeeps

LEMMA FailKeeps ==
    ASSUME RequestsInv, NEW r \in Request, Fail(r)
    PROVE  RequestsInv'
<1>1. answer \in [Request -> {"none", "ok", "refused", "failed"}]
  BY DEF RequestsInv, LockInv, RequestsTypeOK
<1>2. /\ answer' \in [Request -> {"none", "ok", "refused", "failed"}]
      /\ answer'[r] = "failed" /\ \A o \in Request \ {r} : answer'[o] = answer[o]
  BY <1>1 DEF Fail
<1> QED
  BY <1>2, EndKeeps DEF Fail

LEMMA ServerEndsKeeps ==
    ASSUME RequestsInv, NEW r \in Request, ServerEnds(r)
    PROVE  RequestsInv'
<1>1. /\ answer' = answer /\ answer[r] = "failed" /\ Open(r)
      /\ answer \in [Request -> {"none", "ok", "refused", "failed"}]
  BY DEF ServerEnds, At, Open, RequestsInv, AnswerInv, LockInv, RequestsTypeOK
<1>2. /\ Close(r) /\ UNCHANGED <<minute, tier, pruned>>
      /\ RollsBack \/ (Commits(r) /\ ~req[r].aborted)
  BY DEF ServerEnds
<1> QED
  BY <1>1, <1>2, EndKeeps

\* The worker has gone: the transaction keeps what it holds.
LEMMA GiveUpKeeps ==
    ASSUME RequestsInv, NEW r \in Request, GiveUp(r)
    PROVE  RequestsInv'
<1>1. /\ req \in [Request -> Row] /\ req[r] \in Row /\ RowOK(req[r])
      /\ Fits(req[r]) /\ Full(req[r]) /\ r \notin durable
      /\ Open(r) /\ req[r].at \notin {"idle", "lost", "done"}
      /\ answer \in [Request -> {"none", "ok", "refused", "failed"}]
  BY DEF GiveUp, At, Open, RequestsInv, LockInv, CountInv, AnswerInv, RequestsTypeOK
<1>2. PICK q \in Row : /\ req' = [req EXCEPT ![r] = q] /\ q.at = "lost"
                       /\ q.locked = req[r].locked /\ q.charged = req[r].charged
                       /\ RowOK(q) /\ Fits(q) /\ Full(q)
  <2>1. CASE req' = [req EXCEPT ![r] =
                [Fresh("lost", "read", 0) EXCEPT !.slot = req[r].slot, !.aborted = TRUE,
                     !.locked = req[r].locked, !.charged = req[r].charged]]
    <3> DEFINE f == Fresh("lost", "read", 0)
               q == [f EXCEPT !.slot = req[r].slot, !.aborted = TRUE,
                              !.locked = req[r].locked, !.charged = req[r].charged]
    <3>1. f \in Row /\ f.at = "lost" /\ ~f.wrote /\ ~f.refused /\ f.denied = {}
          /\ f.cause = {} /\ f.op = "read" /\ f.kind = "read"
      BY FreshRow DEF Fresh
    <3> HIDE DEF f
    <3>2. q \in Row
      BY <1>1, <3>1 DEF Row
    <3>3. /\ q.at = "lost" /\ q.locked = req[r].locked /\ q.charged = req[r].charged
          /\ q.aborted /\ ~q.wrote /\ ~q.refused /\ q.denied = {} /\ q.cause = {}
          /\ q.op = "read" /\ q.kind = "read"
      BY <1>1, <3>1 DEF Row
    <3>4. req' = [req EXCEPT ![r] = q]
      BY <2>1 DEF f
    <3> HIDE DEF q
    <3>5. RowOK(q) /\ Fits(q) /\ Full(q)
      BY <3>3 DEF RowOK, Fits, Full
    <3> QED
      BY <3>2, <3>3, <3>4, <3>5
  <2>2. CASE req[r].at = "commit" /\ req' = [req EXCEPT ![r].at = "lost"]
    <3> DEFINE q == [req[r] EXCEPT !.at = "lost"]
    <3>1. q \in Row
      BY <1>1 DEF Row, Step
    <3>2. /\ q.at = "lost" /\ q.locked = req[r].locked /\ q.charged = req[r].charged
          /\ q.aborted = req[r].aborted /\ q.wrote = req[r].wrote
          /\ q.refused = req[r].refused /\ q.denied = req[r].denied
          /\ q.cause = req[r].cause /\ q.op = req[r].op /\ q.kind = req[r].kind
      BY <1>1 DEF Row
    <3>3. req' = [req EXCEPT ![r] = q]
      BY <1>1, <2>2
    <3> HIDE DEF q
    <3>4. RowOK(q)
      BY <1>1, <2>2, <3>2 DEF RowOK
    <3>5. Fits(q) /\ Full(q)
      BY <1>1, <2>2, <3>2 DEF Fits, Full, WithCharge
    <3> QED
      BY <3>1, <3>2, <3>3, <3>4, <3>5
  <2> QED
    BY <2>1, <2>2 DEF GiveUp, At
<1>3. req' \in [Request -> Row] /\ req'[r] = q
      /\ \A o \in Request \ {r} : req'[o] = req[o]
  BY <1>1, <1>2
<1>4. /\ UNCHANGED <<minute, tier, used, touched, blocks, durable, admitted, pruned>>
      /\ answer' = [answer EXCEPT ![r] = "failed"]
  BY DEF GiveUp, tables, kept
<1>5. RequestsTypeOK'
  BY <1>1, <1>3, <1>4 DEF RequestsInv, LockInv, RequestsTypeOK
<1>6. \A o \in Request : RowOK(req'[o])
  BY <1>2, <1>3 DEF RequestsInv, LockInv
<1>7. Exclusive'
  <2>1. \A o \in Request : /\ Open(o)' <=> Open(o)
                           /\ req'[o].locked = req[o].locked
                           /\ req'[o].charged = req[o].charged
    BY <1>1, <1>2, <1>3 DEF Open
  <2> QED
    BY <2>1 DEF Exclusive, RequestsInv, LockInv
<1>8. AnswerInv'
  BY <1>1, <1>2, <1>3, <1>4 DEF RequestsInv, AnswerInv, AnswersAreTrue
<1>9. CountInv'
  <2>1. \A o \in Request : Fits(req'[o]) /\ Full(req'[o])
    BY <1>2, <1>3 DEF RequestsInv, CountInv
  <2>2. \A o \in Request : Fits(req[o])' /\ Full(req[o])'
    BY <1>4, <2>1 DEF Fits, Full, WithCharge
  <2>3. Backed' /\ Counted'
    BY <1>4 DEF RequestsInv, CountInv, Backed, Counted, Total
  <2> QED
    BY <2>2, <2>3 DEF CountInv
<1> QED
  BY <1>5, <1>6, <1>7, <1>8, <1>9 DEF RequestsInv, LockInv

---------------------------------------------------------------------------
(* Time, billing and cleanup                                               *)

\* A step that leaves requests and tables alone.
LEMMA OtherKeeps ==
    ASSUME RequestsInv, UNCHANGED <<tables, req, answer, kept, pruned>>,
           minute' \in Minute, tier' \in Tier
    PROVE  RequestsInv'
<1>1. UNCHANGED <<used, touched, blocks, req, answer, durable, admitted, pruned>>
  BY DEF tables, kept
<1>2. LockInv'
  BY <1>1 DEF RequestsInv, LockInv, RequestsTypeOK, RowOK, Exclusive, Open
<1>3. AnswerInv'
  BY <1>1 DEF RequestsInv, AnswerInv, AnswersAreTrue
<1>4. CountInv'
  <2>1. \A o \in Request : Fits(req[o])' /\ Full(req[o])'
    BY <1>1 DEF RequestsInv, CountInv, Fits, Full, WithCharge
  <2>2. Backed' /\ Counted'
    BY <1>1 DEF RequestsInv, CountInv, Backed, Counted, Total
  <2> QED
    BY <2>1, <2>2 DEF CountInv
<1> QED
  BY <1>2, <1>3, <1>4 DEF RequestsInv

\* The cleanup moves units from used to pruned, and none that a transaction holds.
LEMMA CleanupKeeps ==
    ASSUME RequestsInv, Cleanup
    PROVE  RequestsInv'
<1> DEFINE stale == {w \in Window : used[w] > 0 /\ touched[w] < Start("month", minute)}
<1>1. /\ used \in [Window -> Nat] /\ touched \in [Window -> Minute]
      /\ pruned \in [Window -> Nat] /\ blocks \in [Kind \X Metric -> Nat]
      /\ req \in [Request -> Row] /\ 0 \in Minute
  BY RequestsAssumption DEF RequestsInv, LockInv, RequestsTypeOK, Minute
<1>2. /\ pruned' = [w \in Window |-> IF w \in stale THEN pruned[w] + used[w] ELSE pruned[w]]
      /\ used' = [w \in Window |-> IF w \in stale THEN 0 ELSE used[w]]
      /\ touched' = [w \in Window |-> IF w \in stale THEN 0 ELSE touched[w]]
      /\ blocks' = [b \in Kind \X Metric |-> IF blocks[b] <= minute THEN 0 ELSE blocks[b]]
      /\ UNCHANGED <<minute, tier, req, answer, durable, admitted>>
      /\ \A w \in stale, r \in Request : Open(r) => w \notin req[r].charged
  BY DEF Cleanup, kept
<1> HIDE DEF stale
<1>3. RequestsTypeOK'
  <2>1. used' \in [Window -> Nat] /\ pruned' \in [Window -> Nat]
        /\ touched' \in [Window -> Minute] /\ blocks' \in [Kind \X Metric -> Nat]
    BY <1>1, <1>2
  <2> QED
    BY <1>2, <2>1 DEF RequestsInv, LockInv, RequestsTypeOK
<1>4. LockInv'
  BY <1>2, <1>3 DEF RequestsInv, LockInv, RowOK, Exclusive, Open
<1>5. AnswerInv'
  BY <1>2 DEF RequestsInv, AnswerInv, AnswersAreTrue
<1>6. \A w \in Window : /\ used'[w] + pruned'[w] = used[w] + pruned[w]
                        /\ used'[w] \in Nat /\ pruned'[w] \in Nat
                        /\ used[w] \in Nat /\ pruned[w] \in Nat
                        /\ pruned'[w] >= pruned[w] /\ Limit[w[1]] \in Nat
  BY <1>1, <1>2, WindowType
<1>7. ASSUME NEW q \in Row, Full(q) PROVE Full(q)'
  <2>1. q.cause \subseteq Window /\ \A d \in q.denied : d[2] \in Window
    BY DEF Row
  <2>2. \A w \in Window : used'[w] + (IF w \in q.charged THEN 1 ELSE 0) + pruned'[w]
                             = used[w] + (IF w \in q.charged THEN 1 ELSE 0) + pruned[w]
    BY <1>6
  <2> QED
    BY <1>7, <2>1, <2>2 DEF Full, WithCharge
<1>8. ASSUME NEW r \in Request PROVE Fits(req[r])'
  <2>1. req[r].charged \subseteq Window
    BY <1>1 DEF Row
  <2>2. Open(r) => \A w \in req[r].charged : used'[w] = used[w]
    BY <1>1, <1>2, <2>1
  <2> QED
    BY <1>2, <2>2 DEF Fits, Open, RequestsInv, CountInv
<1>9. Backed'
  <2> SUFFICES ASSUME NEW k \in Kind, NEW m \in Metric, blocks'[<<k, m>>] > 0
               PROVE  /\ (k = "delete") <=> (m = "delete")
                      /\ \E w \in Window :
                            /\ w[1] = m /\ End(m, w[2]) = blocks'[<<k, m>>]
                            /\ used'[w] + pruned'[w] >= Limit[m]
    BY DEF Backed, Total
  <2>1. blocks'[<<k, m>>] = blocks[<<k, m>>]
    BY <1>1, <1>2
  <2> QED
    BY <1>6, <2>1 DEF RequestsInv, CountInv, Backed, Total
<1>10. Counted'
  BY <1>2, <1>6 DEF RequestsInv, CountInv, RequestsTypeOK, LockInv, Counted, Total
<1>11. \A r \in Request : Full(req[r])'
  BY <1>1, <1>2, <1>7 DEF RequestsInv, CountInv
<1> QED
  BY <1>4, <1>5, <1>8, <1>9, <1>10, <1>11 DEF RequestsInv, CountInv

LEMMA InitRequestsInv == RequestsInit => RequestsInv
<1> SUFFICES ASSUME RequestsInit PROVE RequestsInv
  OBVIOUS
<1> DEFINE q == Fresh("idle", "read", 0)
<1>1. 0 \in Minute
  BY RequestsAssumption DEF Minute
<1>2. q \in Row /\ RowOK(q) /\ q.at = "idle" /\ ~q.locked /\ q.charged = {}
      /\ q.cause = {} /\ q.denied = {}
  BY <1>1 DEF Fresh, Row, Step, Kind, Tier, RowOK
<1>3. PICK full \in BOOLEAN :
         used = [w \in Window |-> IF full /\ w[2] = 0 THEN Limit[w[1]] ELSE 0]
  BY DEF RequestsInit
<1>4. /\ \A w \in Window : used[w] \in Nat /\ used[w] <= Limit[w[1]]
      /\ used \in [Window -> Nat]
  BY <1>3, WindowType
<1>5. /\ req = [r \in Request |-> q] /\ minute = 0 /\ tier \in Tier
      /\ touched = [w \in Window |-> 0] /\ blocks = [b \in Kind \X Metric |-> 0]
      /\ answer = [r \in Request |-> "none"] /\ durable = {} /\ admitted = used
      /\ pruned = [w \in Window |-> 0]
  BY DEF RequestsInit
<1> HIDE DEF q
<1>6. LockInv
  <2>1. RequestsTypeOK
    BY <1>1, <1>2, <1>4, <1>5 DEF RequestsTypeOK
  <2>2. (\A r \in Request : RowOK(req[r])) /\ Exclusive
    BY <1>2, <1>5 DEF Exclusive, Open
  <2> QED
    BY <2>1, <2>2 DEF LockInv
<1>7. AnswerInv
  <2>1. \A r \in Request : answer[r] = "none" /\ r \notin durable /\ req[r].at = "idle"
    BY <1>2, <1>5
  <2> QED
    BY <2>1 DEF AnswerInv, AnswersAreTrue
<1>8. CountInv
  <2>1. \A r \in Request : Fits(req[r]) /\ Full(req[r])
    BY <1>2, <1>5 DEF Fits, Full
  <2>2. Backed
    BY <1>5 DEF Backed
  <2>3. Counted
    BY <1>4, <1>5, WindowType DEF Counted, Total
  <2> QED
    BY <2>1, <2>2, <2>3 DEF CountInv
<1> QED
  BY <1>6, <1>7, <1>8 DEF RequestsInv

---------------------------------------------------------------------------
(* The theorems                                                            *)

LEMMA StepKeepsRequestsInv == RequestsInv /\ [RequestsNext]_vars => RequestsInv'
<1> SUFFICES ASSUME RequestsInv, [RequestsNext]_vars
             PROVE  RequestsInv'
  OBVIOUS
<1>1. minute \in Minute /\ tier \in Tier
  BY DEF RequestsInv, LockInv, RequestsTypeOK
<1>2. ASSUME NEW r \in Request, Proceed(r) PROVE RequestsInv'
  BY <1>2, TakeSlotKeeps, LockAccountKeeps, ReadProfileKeeps, CheckBlocksKeeps,
     CheckWindowsKeeps, ChargeKeeps, CommitKeeps, ServerEndsKeeps DEF Proceed
<1>3. CASE Tick
  <2>1. minute' \in Minute
    BY <1>1, <1>3, RequestsAssumption DEF Tick, Minute
  <2> QED
    BY <1>1, <1>3, <2>1, OtherKeeps DEF Tick
<1>4. CASE ChangeTier
  BY <1>1, <1>4, OtherKeeps DEF ChangeTier
<1>5. CASE UNCHANGED vars
  BY <1>1, <1>5, OtherKeeps DEF vars
<1> QED
  BY <1>2, <1>3, <1>4, <1>5, BeginKeeps, FailKeeps, GiveUpKeeps, CleanupKeeps
     DEF RequestsNext

LEMMA RequestsInvariant == RequestsSpec => []RequestsInv
BY InitRequestsInv, StepKeepsRequestsInv, PTL DEF RequestsSpec

\* Every variable keeps its type.
THEOREM RequestTypes == RequestsSpec => []RequestsTypeOK
<1>1. RequestsInv => RequestsTypeOK
  BY DEF RequestsInv, LockInv
<1> QED
  BY <1>1, RequestsInvariant, PTL

\* Success is answered only for a write that is durable, a refusal only without
\* one, whatever became of the worker or of COMMIT.
THEOREM AnswersAreAlwaysTrue == RequestsSpec => []AnswersAreTrue
<1>1. RequestsInv => AnswersAreTrue
  BY DEF RequestsInv, AnswerInv
<1> QED
  BY <1>1, RequestsInvariant, PTL

\* No window admits more than its limit, but for what the cleanup has dropped.
THEOREM LimitsHold == RequestsSpec => []WithinLimits
<1>1. RequestsInv => WithinLimits
  BY DEF RequestsInv, CountInv, Counted, WithinLimits
<1> QED
  BY <1>1, RequestsInvariant, PTL

\* A request is refused only for a window that is used up, and a delete only
\* for deletes.
THEOREM RefusalsAreAlwaysDeserved == RequestsSpec => []RefusalsAreDeserved
<1>1. RequestsInv => RefusalsAreDeserved
  <2> SUFFICES ASSUME RequestsInv, NEW r \in Request, NEW w \in req[r].cause
               PROVE  /\ Seen(r, w) + pruned[w] >= Limit[w[1]]
                      /\ (w[1] = "delete") <=> (req[r].op = "delete")
    BY DEF RefusalsAreDeserved
  <2>1. Full(req[r]) /\ RowOK(req[r])
    BY DEF RequestsInv, CountInv, LockInv
  <2> QED
    BY <2>1, SeenIsWithCharge DEF Full, RowOK
<1> QED
  BY <1>1, RequestsInvariant, PTL

\* A block in force stands for a window that is used up.
THEOREM BlocksAreAlwaysBacked == RequestsSpec => []BlocksAreBacked
<1>1. RequestsInv => BlocksAreBacked
  <2> SUFFICES ASSUME RequestsInv, NEW k \in Kind, NEW m \in Metric,
                      blocks[<<k, m>>] > minute
               PROVE  \E w \in Window :
                         /\ w[1] = m /\ End(m, w[2]) = blocks[<<k, m>>]
                         /\ used[w] + pruned[w] >= Limit[m]
    BY DEF BlocksAreBacked
  <2>1. minute \in Nat /\ blocks[<<k, m>>] \in Nat
    BY RequestsAssumption DEF RequestsInv, LockInv, RequestsTypeOK, Minute
  <2>2. blocks[<<k, m>>] > 0
    BY <2>1
  <2> QED
    BY <2>2 DEF RequestsInv, CountInv, Backed, Total
<1> QED
  BY <1>1, RequestsInvariant, PTL

\* Whoever holds counter rows that another waits for has the account lock or is
\* at its end, and whoever has the account lock waits only for the latter.
LEMMA LocksMakeNoCircle == LockInv => NoCircle
<1> SUFFICES ASSUME LockInv, NEW r \in Request, Open(r)
             PROVE  \E o \in Request : Open(o) /\ ~Waits(o)
  BY DEF NoCircle
<1>1. ASSUME NEW o \in Request, Open(o), req[o].at \in {"commit", "lost"}
      PROVE  ~Waits(o)
  BY <1>1 DEF Waits, At
<1>2. ASSUME NEW o \in Request, Open(o), Waits(o)
      PROVE  \/ At(o, "account") /\ ~AccountFree(o)
             \/ \E p \in Request \ {o} : Open(p) /\ req[p].charged # {}
  BY <1>2 DEF Waits, RowFree
<1>3. ASSUME NEW p \in Request, Open(p), req[p].charged # {}, ~req[p].locked
      PROVE  ~Waits(p)
  BY <1>1, <1>3 DEF LockInv, RowOK
\* The holder of the account lock waits for nobody, or for one that does not.
<1>4. ASSUME NEW o \in Request, Open(o), req[o].locked
      PROVE  \E p \in Request : Open(p) /\ ~Waits(p)
  <2>1. \A p \in Request \ {o} : Open(p) => ~req[p].locked
    BY <1>4 DEF LockInv, Exclusive
  <2>2. AccountFree(o)
    BY <2>1 DEF AccountFree
  <2>3. CASE Waits(o)
    <3>1. PICK p \in Request \ {o} : Open(p) /\ req[p].charged # {}
      BY <1>2, <1>4, <2>2, <2>3
    <3>2. ~Waits(p)
      BY <1>3, <2>1, <3>1
    <3> QED
      BY <3>1, <3>2
  <2> QED
    BY <1>4, <2>3
<1>5. CASE Waits(r)
  <2>1. CASE At(r, "account") /\ ~AccountFree(r)
    BY <1>4, <2>1 DEF AccountFree
  <2>2. CASE \E p \in Request \ {r} : Open(p) /\ req[p].charged # {}
    BY <1>3, <1>4, <2>2
  <2> QED
    BY <1>2, <1>5, <2>1, <2>2
<1> QED
  BY <1>5

\* Some open transaction can always go on.
THEOREM NeverDeadlocked == RequestsSpec => []NoCircle
<1>1. RequestsInv => NoCircle
  BY LocksMakeNoCircle DEF RequestsInv
<1> QED
  BY <1>1, RequestsInvariant, PTL
=============================================================================
