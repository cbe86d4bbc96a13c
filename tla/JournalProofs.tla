--------------------------- MODULE JournalProofs ---------------------------
(***************************************************************************)
(* Invariants of ReviewJournal, proved for every number of items,          *)
(* submissions, foreign changes and requests in doubt.                     *)
(*                                                                         *)
(* An item is sure while nobody else has changed it and no request for it  *)
(* is in doubt.  What the page knows of a sure item is what the server     *)
(* has, but for the one request whose reply is on its way; of an item that *)
(* was only answered late it is true that an undone answer is either still *)
(* undone or has a later answer in the journal.                            *)
(***************************************************************************)
EXTENDS ReviewJournal, FiniteSetTheorems, WellFoundedInduction, TLAPS

Sure(i) == ~Unsure(i)

\* Submissions that are not settled.
Open(n) == n \in started + 1 .. submitted \/ (n = started /\ awaited)

\* The last submission that is settled, of which the page may not be rendered yet.
Settled == IF awaited THEN started - 1 ELSE started

Single(S) == \E i \in Item : S = {i}

---------------------------------------------------------------------------
(* Requests, records and the rendered records by themselves                *)

\* A request by itself.
RequestShape(q) ==
    /\ q.at = "none" => q.done = {}
    /\ q.at # "none" =>
          /\ q.items # {} /\ q.todo \cup q.done \subseteq q.items /\ q.todo \cap q.done = {}
          /\ q.op # "bulk" => Single(q.items)
    /\ q.at = "queued" => q.todo = q.items /\ q.done = {}
    /\ q.at = "sent" => q.todo # {}
    /\ q.at = "served" =>
          /\ q.todo = {} /\ (q.code = "ok" <=> q.done # {})
          /\ q.op = "bulk" => q.code # "conflict"

\* Items only move on from the revisions that a request or a record names.
Passed(item, rev) == item.status = "pending" => rev < item.rev

RequestDated(q, rw) ==
    /\ q.at # "none" =>
          \A i \in q.items : q.revs[i] <= rw[i].rev /\ (q.op = "undo" => Passed(rw[i], q.revs[i]))
    /\ \A i \in q.done : Passed(rw[i], q.revs[i]) /\ (q.op = "undo" => q.revs[i] < rw[i].rev)

RequestUndos(n, q) ==
    /\ n > submitted => q.undos = {}
    /\ \A u \in q.undos :
          /\ u < n
          /\ u \in DOMAIN journal => journal[u].op = "undo" /\ journal[u].items \subseteq q.items

RequestPlace(n, q) ==
    /\ Open(n) => q.at # "none"
    /\ ~Open(n) => q.at \in {"none", "sent"}
    /\ (~Open(n) /\ q.at = "sent") => \A i \in q.items : Unsure(i)

RequestOK(n) ==
    /\ RequestShape(request[n]) /\ RequestDated(request[n], row)
    /\ RequestUndos(n, request[n]) /\ RequestPlace(n, request[n])

RecordDated(r, rw) ==
    /\ \A i \in r.items : r.revs[i] <= rw[i].rev /\ (r.op = "undo" => Passed(rw[i], r.revs[i]))
    /\ r.status = "succeeded" =>
          /\ \A i \in Items(r) : Passed(rw[i], r.revs[i])
          /\ r.op = "undo" => \A i \in r.items : r.revs[i] < rw[i].rev

RecordPlace(n, r) ==
    /\ r.op # "bulk" => Single(r.items)
    /\ r.status = "queued" => Open(n) /\ r.due = "no"
    /\ r.status # "queued" => n <= started /\ ~Open(n) /\ r.due # "no"
    /\ r.due = "waiting" => page.at # "idle"

RecordDoubt(r) ==
    r.status = "indeterminate" =>
        \A i \in r.items : <<IF r.op = "bulk" THEN "bulk" ELSE "late", i>> \in doubt

RecordOK(n) == RecordDated(journal[n], row) /\ RecordPlace(n, journal[n]) /\ RecordDoubt(journal[n])

\* A submission that is not settled has its record.
OpenIsQueued(n) ==
    Open(n) =>
        /\ n \in DOMAIN journal /\ journal[n].status = "queued"
        /\ journal[n].op = request[n].op /\ journal[n].items = request[n].items
        /\ journal[n].revs = request[n].revs

ShownPlace(n, r) ==
    /\ r.op # "bulk" => Single(r.items)
    /\ r.status = "queued" => Open(n) \/ n = Settled
    /\ r.status # "queued" => n <= started
    /\ Open(n) => r.status = "queued" /\ r.op = request[n].op /\ r.items = request[n].items

ShownDated(r, rw) ==
    (r.op = "undo" /\ r.status = "succeeded") => \A i \in r.items : r.revs[i] < rw[i].rev

ShownOK(n) ==
    /\ ShownPlace(n, shown[n]) /\ ShownDated(shown[n], row)
    /\ shown[n].due = "due" => ~Reflected(shown[n], rows)
    /\ n \in DOMAIN journal => journal[n].op = shown[n].op

UndosOK ==
    /\ \A u, v \in lastUndo : u = v
    /\ \A u \in lastUndo : u[2] <= row[u[1]].rev /\ Passed(row[u[1]], u[2])

RowsOK == \A i \in Item : rows[i] <= row[i].rev /\ (page.at = "read" => page.rows[i] <= row[i].rev)

BookInv ==
    /\ JournalTypeOK
    /\ awaited => started > 0
    /\ \A n \in Job : RequestOK(n) /\ OpenIsQueued(n)
    /\ \A n \in DOMAIN journal : RecordOK(n)
    /\ \A n \in DOMAIN shown : ShownOK(n)
    /\ UndosOK /\ RowsOK

---------------------------------------------------------------------------
(* What the journal, the rendered records and the requests say of each     *)
(* other                                                                   *)

\* The record of the item that was settled since the last render.
Behind(i) == Settled \in DOMAIN shown /\ shown[Settled].status = "queued" /\ i \in shown[Settled].items

\* What is settled was rendered.
SettledIsShown ==
    \A n \in DOMAIN journal : journal[n].status # "queued" =>
        n \in DOMAIN shown /\ Items(journal[n]) \subseteq Items(shown[n])

\* What is rendered of a sure item is what the journal has.
ShownIsCurrent ==
    \A n \in DOMAIN shown : \A i \in Items(shown[n]) : (Sure(i) /\ ~Behind(i)) =>
        /\ n \in DOMAIN journal /\ i \in Items(journal[n])
        /\ journal[n].status = shown[n].status /\ journal[n].revs = shown[n].revs

Supersedes(j) ==
    \A m \in DOMAIN j, n \in DOMAIN journal :
        (n < m /\ j[m].status = "succeeded") => Items(j[m]) \cap journal[n].items = {}

\* An answer or undo of one item comes before all else that is not settled.
FirstCome ==
    \A m, n \in Job :
        (/\ Open(m) /\ Open(n) /\ m # n /\ request[n].op # "bulk"
         /\ request[m].items \cap request[n].items # {}) => n < m

SameView ==
    \A m, n \in Job : (Open(m) /\ Open(n) /\ request[m].op # "undo" /\ request[n].op # "undo") =>
        \A i \in request[m].items \cap request[n].items : request[m].revs[i] = request[n].revs[i]

Unshown ==
    \A n \in Job : (Open(n) /\ n \notin DOMAIN shown /\ request[n].op # "undo") =>
        \A i \in request[n].items : request[n].revs[i] = Projected(i)

\* What a bulk answer has confirmed is not changed by a later submission.
BulkStays ==
    \A m \in DOMAIN journal : (journal[m].op = "bulk" /\ journal[m].status = "succeeded") =>
        \A i \in Items(journal[m]) :
            /\ \A n \in Job : (Open(n) /\ i \in request[n].items) =>
                  /\ request[n].op = "bulk" /\ request[n].revs[i] = journal[m].revs[i]
                  /\ i \notin request[n].done
            /\ \A u \in lastUndo : u[1] # i

OrderInv ==
    /\ SettledIsShown /\ ShownIsCurrent /\ Supersedes(shown) /\ Supersedes(journal)
    /\ FirstCome /\ SameView /\ Unshown /\ BulkStays

---------------------------------------------------------------------------
(* Sure items                                                              *)

\* The reply that is on its way says that the item was changed.
Served(i) == awaited /\ i \in request[started].done

\* The item as the page knows it.
Known(i) ==
    IF Served(i) THEN (IF request[started].op = "undo" THEN 0 ELSE request[started].revs[i])
    ELSE Pending[i]

\* A record says that the item was changed.
Changed(n, i) == n \in DOMAIN journal /\ i \in Items(journal[n]) /\ journal[n].status = "succeeded"

SureOK(i) ==
    /\ row[i].status \in {"pending", "answered"}
    /\ Served(i) => /\ row[i].status = IF request[started].op = "undo" THEN "pending" ELSE "answered"
                    /\ row[i].rev = request[started].revs[i] +
                                        (IF request[started].op = "undo" THEN 1 ELSE 0)
    /\ \A n \in Job : Changed(n, i) =>
          Known(i) = IF journal[n].op = "undo" THEN journal[n].revs[i] + 1 ELSE 0
    /\ (\A n \in Job : ~Changed(n, i)) => rows[i] \in {Known(i), Pending[i]}
    /\ (page.at = "read" /\ \A n \in Job : Changed(n, i) => journal[n].due = "due")
          => page.rows[i] \in {Known(i), Pending[i]}
    /\ \A u \in lastUndo : u[1] = i =>
          IF Served(i) THEN request[started].op = "undo" /\ request[started].revs[i] = u[2]
          ELSE row[i].status = "answered" /\ row[i].rev = u[2]
    /\ \A n \in Job : (Open(n) /\ request[n].op # "bulk" /\ i \in request[n].todo) =>
          /\ row[i].status = IF request[n].op = "undo" THEN "answered" ELSE "pending"
          /\ row[i].rev = request[n].revs[i]
    /\ told[i] <= row[i].rev
    /\ \A x \in {Known(i), Pending[i]} : x > 0 => told[i] < x

SureInv == \A i \in Item : Sure(i) => SureOK(i)

---------------------------------------------------------------------------
(* Items that nobody else has changed, of which answers and undos may be   *)
(* in doubt                                                                *)

Plain(i) == i \notin elsewhere /\ doubt \cap ({"bulk", "broken"} \X {i}) = {}

\* The answer of the item was undone, as far as the page will hear.
Undone(n, i) ==
    /\ n \in DOMAIN journal /\ journal[n].op = "undo" /\ i \in journal[n].items
    /\ journal[n].status = "succeeded" \/ (Open(n) /\ i \in request[n].done)

\* A later answer of the item.
Overtakes(m, n, i) ==
    m > n /\ m \in DOMAIN journal /\ i \in journal[m].items /\ journal[m].op # "undo"

InDoubt(m) == journal[m].op = "answer" /\ journal[m].status = "indeterminate"

UndoneOK(n, i) ==
    /\ \/ row[i].status = "pending" /\ row[i].rev > journal[n].revs[i]
       \/ \E m \in Job : Overtakes(m, n, i) /\ ((Open(m) /\ i \in request[m].done) \/ InDoubt(m))
    /\ \A m \in Job :
          (/\ request[m].at # "none" /\ i \in request[m].items
           /\ request[m].revs[i] > journal[n].revs[i]) =>
          Overtakes(m, n, i) /\ request[m].op # "undo" /\ (Open(m) \/ InDoubt(m))
    /\ \A u \in lastUndo : u[1] = i => u[2] <= journal[n].revs[i]

PlainInv == \A i \in Item, n \in Job : (Plain(i) /\ Undone(n, i)) => UndoneOK(n, i)

JournalInv == BookInv /\ OrderInv /\ SureInv /\ PlainInv /\ NoSelfConflict

---------------------------------------------------------------------------
(* Operators                                                               *)

\* A nonempty set of submissions has a last one.
LEMMA Largest ==
    ASSUME NEW N \in Nat, NEW S, S \subseteq 1 .. N, S # {}
    PROVE  \E n \in S : \A m \in S : m <= n
<1> DEFINE Above(m) == {x \in 1 .. N : x > m}
           T == {Above(n) : n \in S}
           R == StrictSubsetOrdering(1 .. N)
           W == FiniteSubsetsOf(1 .. N)
<1>1. IsFiniteSet(1 .. N)
  BY FS_Interval
<1>2. IsWellFoundedOn(R, W)
  BY <1>1, FS_StrictSubsetOrderingWellFounded
<1>3. T \subseteq W /\ T # {}
  <2>1. \A n \in S : Above(n) \subseteq 1 .. N /\ IsFiniteSet(Above(n))
    BY <1>1, FS_Subset
  <2>2. \A n \in S : Above(n) \in W
    BY <2>1 DEF FiniteSubsetsOf
  <2>3. PICK n \in S : TRUE
    OBVIOUS
  <2>4. Above(n) \in T
    BY <2>3
  <2> QED
    BY <2>2, <2>4
<1>4. \E x \in T : \A y \in T : ~(<<y, x>> \in R)
  <2> HIDE DEF T, R, W
  <2> QED
    BY <1>2, <1>3, WFMin
<1>5. PICK n \in S : \A m \in S : ~(<<Above(m), Above(n)>> \in R)
  BY <1>4
<1>6. ASSUME NEW m \in S, m > n
      PROVE  FALSE
  <2>1. Above(m) \subseteq Above(n) /\ m \in Above(n) /\ m \notin Above(m)
    BY <1>6
  <2>2. Above(m) \in SUBSET (1 .. N) /\ Above(n) \in SUBSET (1 .. N) /\ Above(m) # Above(n)
    BY <2>1
  <2>3. <<Above(m), Above(n)>> \in R
    <3> HIDE DEF Above
    <3> QED
      BY <2>1, <2>2 DEF StrictSubsetOrdering
  <2> QED
    BY <2>3, <1>5
<1> QED
  BY <1>6

LEMMA LatestFacts ==
    ASSUME NEW N \in Nat, NEW j, DOMAIN j \subseteq 1 .. N, NEW i
    PROVE  /\ Latest(j, i) \in 0 .. N
           /\ Latest(j, i) = 0 => \A n \in DOMAIN j : i \notin Items(j[n])
           /\ Latest(j, i) # 0 =>
                 /\ Latest(j, i) \in DOMAIN j /\ i \in Items(j[Latest(j, i)])
                 /\ \A n \in DOMAIN j : i \in Items(j[n]) => n <= Latest(j, i)
<1> DEFINE own == {n \in DOMAIN j : i \in Items(j[n])}
<1>1. CASE own = {}
  BY <1>1 DEF Latest
<1>2. CASE own # {}
  <2>1. \E n \in own : \A m \in own : m <= n
    <3>1. own \subseteq 1 .. N
      OBVIOUS
    <3> HIDE DEF own
    <3> QED
      BY <1>2, <3>1, Largest
  <2>2. Latest(j, i) \in own /\ \A m \in own : m <= Latest(j, i)
    BY <1>2, <2>1 DEF Latest
  <2> QED
    BY <2>2
<1> QED
  BY <1>1, <1>2

LEMMA ItemsWithin == ASSUME NEW r PROVE Items(r) \subseteq r.items
BY DEF Items

LEMMA RequestType ==
    ASSUME JournalTypeOK, NEW n \in Job
    PROVE  /\ request[n].op \in Operation /\ request[n].items \in SUBSET Item
           /\ request[n].revs \in [Item -> Nat] /\ request[n].undos \in SUBSET Job
           /\ request[n].at \in {"none", "queued", "sent", "served"}
           /\ request[n].todo \in SUBSET Item /\ request[n].done \in SUBSET Item
           /\ request[n].code \in Code
BY DEF JournalTypeOK, Request

LEMMA RecordType ==
    ASSUME NEW r \in Record
    PROVE  /\ r.op \in Operation /\ r.items \in SUBSET Item /\ r.revs \in [Item -> Nat]
           /\ r.status \in {"queued", "succeeded", "indeterminate"} /\ r.answered \in SUBSET Item
           /\ r.due \in {"no", "waiting", "due"} /\ r.retried \in BOOLEAN
BY DEF Record

LEMMA JournalType ==
    ASSUME JournalTypeOK
    PROVE  /\ submitted \in Nat /\ started \in Nat /\ started <= submitted /\ submitted <= MaxJobs
           /\ awaited \in BOOLEAN
           /\ \A n \in DOMAIN journal : /\ n \in Job /\ n <= submitted /\ journal[n] \in Record
                                        /\ journal[n].op \in Operation
                                        /\ journal[n].items \in SUBSET Item
                                        /\ journal[n].revs \in [Item -> Nat]
                                        /\ Items(journal[n]) \subseteq journal[n].items
                                        /\ Items(journal[n]) # {}
           /\ \A n \in DOMAIN shown : /\ n \in Job /\ n <= submitted /\ shown[n] \in Record
                                      /\ shown[n].op \in Operation
                                      /\ shown[n].items \in SUBSET Item
                                      /\ shown[n].revs \in [Item -> Nat]
                                      /\ Items(shown[n]) \subseteq shown[n].items
           /\ \A i \in Item : row[i].rev \in Nat /\ rows[i] \in Nat /\ told[i] \in Nat
                              /\ Pending[i] \in Nat /\ page.rows[i] \in Nat
                              /\ row[i].status \in {"pending", "answered", "read", "gone"}
           /\ \A u \in lastUndo : u[1] \in Item /\ u[2] \in Nat /\ u = <<u[1], u[2]>>
           /\ page.at \in {"idle", "asked", "read"} /\ page.again \in BOOLEAN
<1>1. MaxJobs \in Nat
  BY JournalAssumption
<1>2. /\ submitted \in Nat /\ started \in Nat /\ started <= submitted /\ submitted <= MaxJobs
      /\ awaited \in BOOLEAN
  BY <1>1 DEF JournalTypeOK
<1>3. ASSUME NEW n \in DOMAIN journal
      PROVE  /\ n \in Job /\ n <= submitted /\ journal[n] \in Record
             /\ Items(journal[n]) # {}
  BY <1>1, <1>2 DEF JournalTypeOK, Job
<1>4. ASSUME NEW n \in DOMAIN shown
      PROVE  n \in Job /\ n <= submitted /\ shown[n] \in Record
  BY <1>1, <1>2 DEF JournalTypeOK, Job
<1>5. ASSUME NEW i \in Item
      PROVE  /\ row[i].rev \in Nat /\ rows[i] \in Nat /\ told[i] \in Nat
             /\ Pending[i] \in Nat /\ page.rows[i] \in Nat
             /\ row[i].status \in {"pending", "answered", "read", "gone"}
  <2>1. row[i].rev \in Nat /\ row[i].status \in {"pending", "answered", "read", "gone"}
    BY DEF JournalTypeOK
  <2>2. rows[i] \in Nat /\ told[i] \in Nat
    BY DEF JournalTypeOK
  <2>3. page.rows[i] \in Nat
    BY DEF JournalTypeOK
  <2> QED
    BY <2>1, <2>2, <2>3 DEF Pending
<1>6. \A u \in lastUndo : u[1] \in Item /\ u[2] \in Nat /\ u = <<u[1], u[2]>>
  BY DEF JournalTypeOK
<1>7. page.at \in {"idle", "asked", "read"} /\ page.again \in BOOLEAN
  BY DEF JournalTypeOK
<1> QED
  BY <1>2, <1>3, <1>4, <1>5, <1>6, <1>7, RecordType, ItemsWithin

\* What the page offers.
LEMMA OfferCases ==
    ASSUME JournalTypeOK, NEW i \in Item
    PROVE  /\ Projected(i) \in Nat
           /\ (\A n \in DOMAIN shown : i \notin Items(shown[n])) =>
                 Projected(i) = rows[i] /\ ~Locked(i)
           /\ \A k \in DOMAIN shown :
                 (i \in Items(shown[k]) /\ \A n \in DOMAIN shown : i \in Items(shown[n]) => n <= k) =>
                 /\ Latest(shown, i) = k
                 /\ shown[k].op # "undo" => Projected(i) = 0 /\ ~Locked(i)
                 /\ shown[k].op = "undo" =>
                       /\ Projected(i) = IF rows[i] < shown[k].revs[i] + 1
                                         THEN shown[k].revs[i] + 1 ELSE rows[i]
                       /\ Locked(i) <=> shown[k].status # "succeeded"
           /\ \/ \A n \in DOMAIN shown : i \notin Items(shown[n])
              \/ \E k \in DOMAIN shown :
                    i \in Items(shown[k]) /\ \A n \in DOMAIN shown : i \in Items(shown[n]) => n <= k
<1> DEFINE L == Latest(shown, i)
<1>1. /\ L \in 0 .. submitted
      /\ L = 0 => \A n \in DOMAIN shown : i \notin Items(shown[n])
      /\ L # 0 => /\ L \in DOMAIN shown /\ i \in Items(shown[L])
                  /\ \A n \in DOMAIN shown : i \in Items(shown[n]) => n <= L
  <2>1. submitted \in Nat /\ DOMAIN shown \subseteq 1 .. submitted
    BY JournalType DEF JournalTypeOK
  <2> QED
    BY <2>1, LatestFacts
<1>2. /\ rows[i] \in Nat
      /\ \A n \in DOMAIN shown : /\ n \in Nat /\ n > 0 /\ shown[n].revs[i] \in Nat
  BY JournalType DEF Job
<1>3. L \in Nat
  BY <1>1, JournalType
<1> HIDE DEF L
<1>4. /\ Projected(i) = CASE L = 0 -> rows[i]
                          [] L > 0 /\ shown[L].op # "undo" -> 0
                          [] L > 0 /\ shown[L].op = "undo" ->
                                IF rows[i] < shown[L].revs[i] + 1 THEN shown[L].revs[i] + 1 ELSE rows[i]
      /\ Locked(i) <=> (L > 0 /\ shown[L].op = "undo" /\ shown[L].status # "succeeded")
  BY DEF Projected, Locked, L, Snapshot
<1>5. L = 0 => Projected(i) = rows[i] /\ ~Locked(i)
  BY <1>4, <1>3
<1>6. L # 0 =>
        /\ shown[L].op # "undo" => Projected(i) = 0 /\ ~Locked(i)
        /\ shown[L].op = "undo" =>
                       /\ Projected(i) = IF rows[i] < shown[L].revs[i] + 1
                                         THEN shown[L].revs[i] + 1 ELSE rows[i]
                       /\ Locked(i) <=> shown[L].status # "succeeded"
  BY <1>4, <1>3
<1>7. Projected(i) \in Nat
  BY <1>5, <1>6, <1>2, <1>1
<1>8. ASSUME NEW k \in DOMAIN shown, i \in Items(shown[k]),
             \A n \in DOMAIN shown : i \in Items(shown[n]) => n <= k
      PROVE  L = k /\ L # 0
  <2>1. L # 0
    BY <1>8, <1>1
  <2>2. L <= k /\ k <= L
    BY <2>1, <1>8, <1>1
  <2> QED
    BY <2>1, <2>2, <1>2, <1>3
<1>9. (\A n \in DOMAIN shown : i \notin Items(shown[n])) => L = 0
  BY <1>1
<1>10. Latest(shown, i) = L
  BY DEF L
<1>11. ASSUME NEW k \in DOMAIN shown, i \in Items(shown[k]),
             \A n \in DOMAIN shown : i \in Items(shown[n]) => n <= k
      PROVE  /\ Latest(shown, i) = k
             /\ shown[k].op # "undo" => Projected(i) = 0 /\ ~Locked(i)
             /\ shown[k].op = "undo" =>
                       /\ Projected(i) = IF rows[i] < shown[k].revs[i] + 1
                                         THEN shown[k].revs[i] + 1 ELSE rows[i]
                       /\ Locked(i) <=> shown[k].status # "succeeded"
  <2>1. L = k /\ L # 0
    BY <1>11, <1>8
  <2> QED
    BY <2>1, <1>6, <1>10
<1>12. \/ \A n \in DOMAIN shown : i \notin Items(shown[n])
       \/ \E k \in DOMAIN shown :
             i \in Items(shown[k]) /\ \A n \in DOMAIN shown : i \in Items(shown[n]) => n <= k
  BY <1>1
<1> QED
  BY <1>5, <1>7, <1>9, <1>11, <1>12

---------------------------------------------------------------------------
(* A submission                                                            *)

\* The revisions of the submitted items.
Seen(S, revs) == [i \in Item |-> IF i \in S THEN revs[i] ELSE 0]

LEMMA EnqueueFacts ==
    ASSUME JournalTypeOK, NEW op \in Operation, NEW S \in SUBSET Item, NEW revs \in [Item -> Nat],
           Enqueue(op, S, revs)
    PROVE  /\ submitted + 1 \in Job /\ submitted' = submitted + 1 /\ S # {}
           /\ UNCHANGED <<row, started, awaited, shown, rows, page, lastUndo, history>>
           /\ submitted + 1 \notin DOMAIN journal /\ submitted + 1 \notin DOMAIN shown
           /\ request' \in [Job -> Request]
           /\ \A n \in Job : n # submitted + 1 => request'[n] = request[n]
           /\ request'[submitted + 1].op = op /\ request'[submitted + 1].items = S
           /\ request'[submitted + 1].todo = S /\ request'[submitted + 1].done = {}
           /\ request'[submitted + 1].at = "queued"
           /\ request'[submitted + 1].revs = Seen(S, revs)
           /\ \A u \in request'[submitted + 1].undos :
                 u \in DOMAIN shown /\ shown[u].op = "undo" /\ shown[u].items \cap S # {}
           /\ DOMAIN journal' = DOMAIN journal \cup {submitted + 1}
           /\ \A n \in DOMAIN journal : journal'[n] = journal[n]
           /\ journal'[submitted + 1] \in Record
           /\ journal'[submitted + 1].op = op /\ journal'[submitted + 1].items = S
           /\ journal'[submitted + 1].revs = request'[submitted + 1].revs
           /\ journal'[submitted + 1].status = "queued" /\ journal'[submitted + 1].due = "no"
           /\ Items(journal'[submitted + 1]) = S
           /\ \E i \in S : \A n \in DOMAIN journal : journal[n].status = "queued" => i \notin journal[n].items
<1> DEFINE n == submitted + 1
           of == [i \in Item |-> IF i \in S THEN revs[i] ELSE 0]
           und == {u \in DOMAIN shown : shown[u].op = "undo" /\ shown[u].items \cap S # {}}
           q == [NoRequest EXCEPT !.op = op, !.items = S, !.todo = S, !.revs = of, !.at = "queued",
                    !.undos = und]
           r == [op |-> op, items |-> S, revs |-> of, status |-> "queued",
                 answered |-> {}, due |-> "no", retried |-> FALSE]
<1>1. n \in Job /\ submitted' = n /\ S # {} /\ ~Unsettled(S)
      /\ UNCHANGED <<row, started, awaited, shown, rows, page, lastUndo, history>>
  BY DEF Enqueue
<1>2. request' = [request EXCEPT ![n] = q]
  BY DEF Enqueue
<1>3. journal' = [m \in DOMAIN journal \cup {n} |-> IF m # n THEN journal[m] ELSE r]
  BY DEF Enqueue
<1>4. of \in [Item -> Nat] /\ of = Seen(S, revs)
  BY DEF Seen
<1>5. \A m \in DOMAIN journal \cup DOMAIN shown : m \in Nat /\ m <= submitted /\ m \in Job
  BY JournalType DEF Job
<1>6. n \notin DOMAIN journal /\ n \notin DOMAIN shown
  BY <1>5, JournalType
<1>7. q \in Request
  <2>1. und \in SUBSET Job
    BY <1>5
  <2> HIDE DEF of, und
  <2> QED
    BY <2>1, <1>4 DEF Request, Code, NoRequest, Nothing
<1>8. r \in Record
  <2> HIDE DEF of
  <2> QED
    BY <1>4 DEF Record
<1>9. Items(r) = S
  BY DEF Items
<1>10. \E i \in S : \A m \in DOMAIN journal : journal[m].status = "queued" => i \notin journal[m].items
  BY <1>1 DEF Unsettled
<1>11. q.op = op /\ q.items = S /\ q.todo = S /\ q.done = {} /\ q.at = "queued" /\ q.revs = of /\ q.undos = und
  <2> HIDE DEF of, und
  <2> QED
    BY DEF NoRequest
<1>12. r.op = op /\ r.items = S /\ r.status = "queued" /\ r.due = "no" /\ r.revs = of
  OBVIOUS
<1> HIDE DEF q, r, of
<1>13. request \in [Job -> Request]
  BY DEF JournalTypeOK
<1>14. request' \in [Job -> Request] /\ request'[n] = q /\ \A m \in Job : m # n => request'[m] = request[m]
  BY <1>13, <1>2, <1>7, <1>1
<1>15. DOMAIN journal' = DOMAIN journal \cup {n} /\ journal'[n] = r
       /\ \A m \in DOMAIN journal : journal'[m] = journal[m]
  BY <1>3, <1>6
<1> QED
  BY <1>1, <1>4, <1>6, <1>8, <1>9, <1>10, <1>11, <1>12, <1>14, <1>15

LEMMA EnqueueTypes ==
    ASSUME BookInv, NEW op \in Operation, NEW S \in SUBSET Item, NEW revs \in [Item -> Nat],
           Enqueue(op, S, revs)
    PROVE  JournalTypeOK'
<1>0. JournalTypeOK
  BY DEF BookInv
<1> PICK n \in Job : n = submitted + 1
  BY <1>0, EnqueueFacts
<1>1. /\ submitted' = n /\ S # {}
      /\ UNCHANGED <<row, started, awaited, shown, rows, page, lastUndo, told, doubt, elsewhere>>
      /\ request' \in [Job -> Request] /\ request'[n].at = "queued"
      /\ \A m \in Job : m # n => request'[m] = request[m]
      /\ DOMAIN journal' = DOMAIN journal \cup {n}
      /\ \A m \in DOMAIN journal : journal'[m] = journal[m]
      /\ journal'[n] \in Record /\ Items(journal'[n]) = S
  BY <1>0, EnqueueFacts DEF history
<1>2. started \in Nat /\ submitted \in Nat /\ started <= submitted /\ MaxJobs \in Nat
  BY <1>0, JournalType, JournalAssumption
<1>3. submitted' \in 0 .. MaxJobs /\ started' \in 0 .. submitted' /\ awaited' \in BOOLEAN
  BY <1>0, <1>1, <1>2 DEF JournalTypeOK, Job
<1>4. \A m \in Job : (request[m].at = "queued") <=> (m \in started + 1 .. submitted)
  BY <1>0 DEF JournalTypeOK
<1>5. \A m \in Job : (request'[m].at = "queued") <=> (m \in started' + 1 .. submitted')
  BY <1>1, <1>2, <1>4 DEF Job
<1>6. DOMAIN journal' \subseteq 1 .. submitted'
  BY <1>0, <1>1, <1>2 DEF JournalTypeOK
<1>7. \A m \in DOMAIN journal' : journal'[m] \in Record /\ Items(journal'[m]) # {}
  <2>1. \A m \in DOMAIN journal : journal[m] \in Record /\ Items(journal[m]) # {}
    BY <1>0 DEF JournalTypeOK
  <2> QED
    BY <1>1, <2>1
<1>8. DOMAIN shown' \subseteq 1 .. submitted' /\ \A m \in DOMAIN shown' : shown'[m] \in Record
  BY <1>0, <1>1, <1>2 DEF JournalTypeOK
<1> QED
  BY <1>0, <1>1, <1>3, <1>5, <1>6, <1>7, <1>8 DEF JournalTypeOK

LEMMA AwaitedJob ==
    ASSUME BookInv, awaited
    PROVE  started \in Job /\ Open(started) /\ started \in Nat /\ started > 0
<1>1. submitted \in Nat /\ started \in Nat /\ started <= submitted /\ submitted <= MaxJobs
  BY JournalType DEF BookInv
<1>2. MaxJobs \in Nat /\ started > 0
  BY JournalAssumption DEF BookInv
<1> QED
  BY <1>1, <1>2 DEF Job, Open

\* The records of an undo name the same item.
LEMMA UndoItems ==
    ASSUME BookInv, SettledIsShown, NEW u \in DOMAIN shown, u \in DOMAIN journal, shown[u].op = "undo"
    PROVE  journal[u].op = "undo" /\ journal[u].items = shown[u].items
<1>0. JournalTypeOK /\ u \in Job
  BY JournalType DEF BookInv
<1>1. journal[u].op = "undo" /\ Single(shown[u].items) /\ Single(journal[u].items)
  BY DEF BookInv, ShownOK, ShownPlace, RecordOK, RecordPlace
<1>2. CASE journal[u].status = "queued"
  <2>1. Open(u)
    BY <1>2 DEF BookInv, RecordOK, RecordPlace
  <2> QED
    BY <1>0, <1>1, <2>1 DEF BookInv, OpenIsQueued, ShownOK, ShownPlace
<1>3. CASE journal[u].status # "queued"
  <2>1. Items(journal[u]) \subseteq Items(shown[u])
    BY <1>3 DEF SettledIsShown
  <2>2. Items(journal[u]) = journal[u].items /\ Items(shown[u]) = shown[u].items
    BY <1>1 DEF Items
  <2> QED
    BY <1>1, <2>1, <2>2 DEF Single
<1> QED
  BY <1>2, <1>3

LEMMA EnqueueBook ==
    ASSUME BookInv, SettledIsShown,
           NEW op \in Operation, NEW S \in SUBSET Item, NEW revs \in [Item -> Nat],
           Enqueue(op, S, revs), op # "bulk" => Single(S),
           \A i \in S : /\ revs[i] <= row[i].rev
                        /\ op = "undo" => Passed(row[i], revs[i])
    PROVE  BookInv'
<1>0. JournalTypeOK
  BY DEF BookInv
<1> PICK n \in Job : n = submitted + 1
  BY <1>0, EnqueueFacts
<1>a. /\ submitted' = n /\ S # {}
      /\ UNCHANGED <<row, started, awaited, shown, rows, page, lastUndo, told, doubt, elsewhere>>
      /\ n \notin DOMAIN journal /\ n \notin DOMAIN shown
      /\ \A m \in Job : m # n => request'[m] = request[m]
      /\ DOMAIN journal' = DOMAIN journal \cup {n}
      /\ \A m \in DOMAIN journal : journal'[m] = journal[m]
  BY <1>0, EnqueueFacts DEF history
<1>b. /\ request'[n].op = op /\ request'[n].items = S
      /\ request'[n].todo = S /\ request'[n].done = {}
      /\ request'[n].at = "queued"
      /\ journal'[n].op = op /\ journal'[n].items = S
      /\ journal'[n].revs = request'[n].revs
      /\ journal'[n].status = "queued" /\ journal'[n].due = "no"
  BY <1>0, EnqueueFacts
<1>c. \A i \in S : request'[n].revs[i] = revs[i]
  <2>1. request'[submitted + 1].revs = Seen(S, revs)
    BY <1>0, EnqueueFacts, ZenonT(60)
  <2> QED
    BY <2>1 DEF Seen
<1>d. \A u \in request'[n].undos :
            u \in DOMAIN shown /\ shown[u].op = "undo" /\ shown[u].items \cap S # {}
  BY <1>0, EnqueueFacts
<1>2. started \in Nat /\ submitted \in Nat /\ started <= submitted
  BY <1>0, JournalType
<1>3. \A m \in DOMAIN journal : m \in Job /\ m <= submitted /\ m # n
  BY <1>0, <1>2, JournalType DEF Job
<1>4. \A m \in DOMAIN shown : m \in Job /\ m <= submitted /\ m # n
  BY <1>0, <1>2, JournalType DEF Job
<1>5. \A m \in Job : m # n => (Open(m)' <=> Open(m))
  BY <1>a, <1>b, <1>c, <1>d, <1>2 DEF Open, Job
<1>6. Open(n)'
  BY <1>a, <1>b, <1>c, <1>d, <1>2 DEF Open
<1>7. \A i : Unsure(i)' <=> Unsure(i)
  BY <1>a, <1>b, <1>c, <1>d DEF Unsure
<1>8. ASSUME NEW m \in Job
      PROVE  RequestOK(m)'
  <2>1. CASE m = n
    <3>1. ASSUME NEW u \in DOMAIN shown, shown[u].op = "undo", shown[u].items \cap S # {}
          PROVE  u < n /\ (u \in DOMAIN journal' =>
                                       journal'[u].op = "undo" /\ journal'[u].items \subseteq S)
      <4>1. u < n
        BY <1>2, <1>4 DEF Job
      <4>2. ASSUME u \in DOMAIN journal'
            PROVE  journal'[u].op = "undo" /\ journal'[u].items \subseteq S
        <5>1. u \in DOMAIN journal /\ journal'[u] = journal[u]
          BY <1>a, <1>b, <1>c, <1>d, <1>4, <4>2
        <5>2. journal[u].op = "undo" /\ journal[u].items = shown[u].items
          BY <5>1, <3>1, UndoItems
        <5>3. Single(shown[u].items)
          BY <3>1 DEF BookInv, ShownOK, ShownPlace
        <5> QED
          BY <5>1, <5>2, <5>3, <3>1 DEF Single
      <4> QED
        BY <4>1, <4>2
    <3>2. RequestUndos(n, request[n])'
      BY <1>a, <1>b, <1>c, <1>d, <1>2, <3>1 DEF RequestUndos
    <3>3. RequestShape(request[n])'
      BY <1>a, <1>b, <1>c, <1>d DEF RequestShape
    <3>4. RequestDated(request[n], row)'
      BY <1>a, <1>b, <1>c, <1>d DEF RequestDated
    <3>5. RequestPlace(n, request[n])'
      BY <1>a, <1>b, <1>c, <1>d, <1>6 DEF RequestPlace
    <3> QED
      BY <2>1, <3>2, <3>3, <3>4, <3>5 DEF RequestOK
  <2>2. CASE m # n
    <3>1. /\ RequestShape(request[m]) /\ RequestDated(request[m], row)
          /\ RequestUndos(m, request[m]) /\ RequestPlace(m, request[m])
      BY DEF BookInv, RequestOK
    <3>2. request'[m] = request[m] /\ (Open(m)' <=> Open(m)) /\ row' = row
      BY <2>2, <1>a, <1>b, <1>c, <1>d, <1>5
    <3>3. m \in Nat /\ request[m].undos \in SUBSET Job
      BY <1>0, RequestType DEF Job
    <3>4. ASSUME NEW u \in request[m].undos, u \in DOMAIN journal'
          PROVE  journal'[u].op = "undo" /\ journal'[u].items \subseteq request[m].items
      <4>1. u < m /\ m <= submitted /\ u \in Nat
        BY <3>1, <3>3, <1>2 DEF RequestUndos, Job
      <4>2. u # n /\ u \in DOMAIN journal /\ journal'[u] = journal[u]
        BY <4>1, <3>3, <3>4, <1>a, <1>b, <1>c, <1>d, <1>2
      <4> QED
        BY <4>2, <3>1 DEF RequestUndos
    <3>5. m > submitted' => request[m].undos = {}
      BY <3>1, <3>3, <1>a, <1>b, <1>c, <1>d, <1>2 DEF RequestUndos
    <3>6. RequestUndos(m, request[m])'
      BY <3>1, <3>2, <3>4, <3>5 DEF RequestUndos
    <3>7. RequestPlace(m, request[m])'
      BY <3>1, <3>2, <1>7 DEF RequestPlace
    <3> QED
      BY <3>1, <3>2, <3>6, <3>7 DEF RequestOK
  <2> QED
    BY <2>1, <2>2
<1>9. ASSUME NEW m \in Job
      PROVE  OpenIsQueued(m)'
  <2>1. CASE m = n
    BY <2>1, <1>a, <1>b, <1>c, <1>d DEF OpenIsQueued
  <2>2. CASE m # n
    <3>1. OpenIsQueued(m)
      BY DEF BookInv
    <3> QED
      BY <2>2, <3>1, <1>a, <1>b, <1>c, <1>d, <1>5 DEF OpenIsQueued
  <2> QED
    BY <2>1, <2>2
<1>10. ASSUME NEW m \in DOMAIN journal'
       PROVE  RecordOK(m)'
  <2>1. CASE m = n
    <3>1. Items(journal'[n]) \subseteq S
      BY <1>a, <1>b, <1>c, <1>d, ItemsWithin
    <3>2. RecordDated(journal[n], row)'
      BY <1>a, <1>b, <1>c, <1>d, <3>1 DEF RecordDated
    <3>3. RecordPlace(n, journal[n])'
      BY <1>a, <1>b, <1>c, <1>d, <1>6 DEF RecordPlace
    <3>4. RecordDoubt(journal[n])'
      BY <1>a, <1>b, <1>c, <1>d DEF RecordDoubt
    <3> QED
      BY <2>1, <3>2, <3>3, <3>4 DEF RecordOK
  <2>2. CASE m # n
    <3>1. m \in DOMAIN journal /\ RecordOK(m) /\ m \in Job /\ journal'[m] = journal[m]
      BY <2>2, <1>a, <1>b, <1>c, <1>d, <1>3 DEF BookInv
    <3>2. RecordPlace(m, journal[m])'
      BY <2>2, <3>1, <1>a, <1>b, <1>c, <1>d, <1>5 DEF RecordPlace, RecordOK
    <3>3. RecordDoubt(journal[m])'
      BY <3>1, <1>a, <1>b, <1>c, <1>d DEF RecordDoubt, RecordOK
    <3>4. RecordDated(journal[m], row)'
      BY <3>1, <1>a, <1>b, <1>c, <1>d DEF RecordOK
    <3> QED
      BY <3>2, <3>3, <3>4 DEF RecordOK
  <2> QED
    BY <2>1, <2>2
<1>11. ASSUME NEW m \in DOMAIN shown'
       PROVE  ShownOK(m)'
  <2>1. m \in DOMAIN shown /\ ShownOK(m) /\ m \in Job /\ m # n
    BY <1>a, <1>b, <1>c, <1>d, <1>4 DEF BookInv
  <2>2. Settled' = Settled /\ (Reflected(shown[m], rows)' <=> Reflected(shown[m], rows))
    BY <1>a, <1>b, <1>c, <1>d DEF Settled
  <2>3. m \in DOMAIN journal' => journal'[m] = journal[m] /\ m \in DOMAIN journal
    BY <1>a, <1>b, <1>c, <1>d, <2>1
  <2>4. ShownPlace(m, shown[m])'
    BY <2>1, <2>2, <1>a, <1>b, <1>c, <1>d, <1>5 DEF ShownPlace, ShownOK
  <2> QED
    BY <2>1, <2>2, <2>3, <2>4, <1>a, <1>b, <1>c, <1>d DEF ShownOK
<1>12. UndosOK' /\ RowsOK' /\ (awaited' => started' > 0)
  BY <1>a, <1>b, <1>c, <1>d DEF BookInv, UndosOK, RowsOK
<1> QED
  BY <1>8, <1>9, <1>10, <1>11, <1>12, EnqueueTypes DEF BookInv

\* A revision that the page offers is not beyond the server's.
LEMMA OfferDated ==
    ASSUME BookInv, NEW i \in Item, Offers(i)
    PROVE  Projected(i) \in Nat /\ Projected(i) > 0 /\ Projected(i) <= row[i].rev
<1>0. JournalTypeOK /\ row[i].rev \in Nat /\ rows[i] \in Nat /\ rows[i] <= row[i].rev
  BY JournalType DEF BookInv, RowsOK
<1>1. CASE \A n \in DOMAIN shown : i \notin Items(shown[n])
  BY <1>0, <1>1, OfferCases DEF Offers
<1>2. CASE \E k \in DOMAIN shown :
              i \in Items(shown[k]) /\ \A n \in DOMAIN shown : i \in Items(shown[n]) => n <= k
  <2>1. PICK k \in DOMAIN shown :
              i \in Items(shown[k]) /\ \A n \in DOMAIN shown : i \in Items(shown[n]) => n <= k
    BY <1>2
  <2>2. /\ shown[k].op # "undo" => Projected(i) = 0 /\ ~Locked(i)
        /\ shown[k].op = "undo" =>
              /\ Projected(i) = IF rows[i] < shown[k].revs[i] + 1 THEN shown[k].revs[i] + 1 ELSE rows[i]
              /\ Locked(i) <=> shown[k].status # "succeeded"
    BY <1>0, <2>1, OfferCases
  <2>3. shown[k].op = "undo" /\ shown[k].status = "succeeded"
    BY <2>2 DEF Offers
  <2>4. i \in shown[k].items /\ shown[k].revs[i] \in Nat
    BY <1>0, <2>1, JournalType
  <2>5. shown[k].revs[i] < row[i].rev
    BY <2>3, <2>4 DEF BookInv, ShownOK, ShownDated
  <2> QED
    BY <1>0, <2>2, <2>3, <2>4, <2>5
<1> QED
  BY <1>0, <1>1, <1>2, OfferCases

Submits(op, S, revs) ==
    /\ Enqueue(op, S, revs)
    /\ op # "bulk" => Single(S)
    /\ \A i \in S : revs[i] <= row[i].rev /\ (op = "undo" => Passed(row[i], revs[i]))
    /\ op # "undo" => revs = View /\ \A i \in S : Offers(i)
    /\ op = "undo" => \E u \in lastUndo : S = {u[1]} /\ \A i \in S : revs[i] = u[2]

LEMMA Submissions ==
    ASSUME BookInv,
           (\E i \in Item : Answer(i)) \/ (\E S \in SUBSET Item : BulkAnswer(S)) \/ Undo
    PROVE  \E op \in Operation, S \in SUBSET Item, revs \in [Item -> Nat] : Submits(op, S, revs)
<1>0. JournalTypeOK
  BY DEF BookInv
<1>1. View \in [Item -> Nat] /\ \A i \in Item : View[i] = Projected(i)
  BY <1>0, OfferCases DEF View
<1>2. ASSUME NEW i \in Item, Answer(i)
      PROVE  Submits("answer", {i}, View)
  <2>1. Offers(i) /\ Enqueue("answer", {i}, View)
    BY <1>2 DEF Answer
  <2>2. View[i] <= row[i].rev
    BY <1>1, <2>1, OfferDated
  <2> QED
    BY <2>1, <2>2 DEF Submits, Single
<1>3. ASSUME NEW S \in SUBSET Item, BulkAnswer(S)
      PROVE  Submits("bulk", S, View)
  <2>1. (\A i \in S : Offers(i)) /\ Enqueue("bulk", S, View)
    BY <1>3 DEF BulkAnswer
  <2>2. \A i \in S : View[i] <= row[i].rev
    BY <1>1, <2>1, OfferDated
  <2> QED
    BY <2>1, <2>2 DEF Submits
<1>4. ASSUME Undo
      PROVE  \E S \in SUBSET Item, revs \in [Item -> Nat] : Submits("undo", S, revs)
  <2>1. PICK u \in lastUndo : Enqueue("undo", {u[1]}, [i \in Item |-> u[2]])
    BY <1>4 DEF Undo
  <2>2. u[1] \in Item /\ u[2] \in Nat
    BY <1>0, JournalType
  <2>3. PICK revs \in [Item -> Nat] : revs = [i \in Item |-> u[2]]
    BY <2>2
  <2>4. \A i \in {u[1]} : revs[i] = u[2] /\ i = u[1]
    BY <2>2, <2>3
  <2>5. u[2] <= row[u[1]].rev /\ Passed(row[u[1]], u[2])
    BY DEF BookInv, UndosOK
  <2>6. Submits("undo", {u[1]}, revs)
    BY <2>1, <2>2, <2>3, <2>4, <2>5 DEF Submits, Single
  <2> QED
    BY <2>2, <2>6
<1> QED
  BY <1>1, <1>2, <1>3, <1>4 DEF Operation

LEMMA OpenType ==
    ASSUME JournalTypeOK, NEW n \in Job, Open(n)
    PROVE  n \in Nat /\ n >= started /\ n <= submitted
<1>1. submitted \in Nat /\ started \in Nat /\ started <= submitted
  BY JournalType
<1> QED
  BY <1>1 DEF Open, Job

\* A later record of an item that is offered is none.
LEMMA OfferHasUndo ==
    ASSUME BookInv, NEW i \in Item, Offers(i), NEW m \in DOMAIN shown, i \in Items(shown[m])
    PROVE  \E k \in DOMAIN shown :
              /\ i \in Items(shown[k]) /\ \A n \in DOMAIN shown : i \in Items(shown[n]) => n <= k
              /\ m <= k /\ shown[k].op = "undo" /\ shown[k].status = "succeeded" /\ k <= started
              /\ Projected(i) = IF rows[i] < shown[k].revs[i] + 1 THEN shown[k].revs[i] + 1 ELSE rows[i]
<1>0. JournalTypeOK
  BY DEF BookInv
<1>1. PICK k \in DOMAIN shown :
              i \in Items(shown[k]) /\ \A n \in DOMAIN shown : i \in Items(shown[n]) => n <= k
  BY <1>0, OfferCases
<1>2. /\ shown[k].op # "undo" => Projected(i) = 0 /\ ~Locked(i)
      /\ shown[k].op = "undo" =>
              /\ Projected(i) = IF rows[i] < shown[k].revs[i] + 1 THEN shown[k].revs[i] + 1 ELSE rows[i]
              /\ Locked(i) <=> shown[k].status # "succeeded"
  BY <1>0, <1>1, OfferCases
<1>3. Projected(i) # 0 /\ ~Locked(i)
  BY OfferDated DEF Offers
<1>4. shown[k].op = "undo" /\ shown[k].status = "succeeded"
  BY <1>2, <1>3
<1>5. k <= started
  BY <1>4 DEF BookInv, ShownOK, ShownPlace
<1> QED
  BY <1>1, <1>2, <1>4, <1>5

LEMMA EnqueueOrder ==
    ASSUME BookInv, OrderInv,
           NEW op \in Operation, NEW S \in SUBSET Item, NEW revs \in [Item -> Nat],
           Submits(op, S, revs)
    PROVE  OrderInv'
<1>0. JournalTypeOK /\ Enqueue(op, S, revs)
  BY DEF BookInv, Submits
<1> PICK n \in Job : n = submitted + 1
  BY <1>0, EnqueueFacts
<1>a. /\ submitted' = n /\ S # {}
      /\ UNCHANGED <<row, started, awaited, shown, rows, page, lastUndo, told, doubt, elsewhere>>
      /\ n \notin DOMAIN journal /\ n \notin DOMAIN shown
      /\ \A m \in Job : m # n => request'[m] = request[m]
      /\ DOMAIN journal' = DOMAIN journal \cup {n}
      /\ \A m \in DOMAIN journal : journal'[m] = journal[m]
  BY <1>0, EnqueueFacts DEF history
<1>b. /\ request'[n].op = op /\ request'[n].items = S
      /\ request'[n].done = {}
      /\ journal'[n].status = "queued"
  BY <1>0, EnqueueFacts
<1>c. \A i \in S : request'[n].revs[i] = revs[i]
  <2>1. request'[submitted + 1].revs = Seen(S, revs)
    BY <1>0, EnqueueFacts, ZenonT(60)
  <2> QED
    BY <2>1 DEF Seen
<1>d. \E i \in S : \A m \in DOMAIN journal : journal[m].status = "queued" => i \notin journal[m].items
  BY <1>0, EnqueueFacts
<1>e. op # "undo" => \A i \in S : request'[n].revs[i] = Projected(i) /\ Offers(i)
  BY <1>c DEF Submits, View
<1>2. started \in Nat /\ submitted \in Nat /\ started <= submitted
  BY <1>0, JournalType
<1>3. \A m \in DOMAIN journal : m \in Job /\ m \in Nat /\ m <= submitted /\ m # n
  BY <1>0, <1>2, JournalType DEF Job
<1>4. \A m \in DOMAIN shown : m \in Job /\ m \in Nat /\ m <= submitted /\ m # n
  BY <1>0, <1>2, JournalType DEF Job
<1>5. \A m \in Job : m # n => (Open(m)' <=> Open(m))
  BY <1>a, <1>2 DEF Open, Job
<1>6. \A m \in Job : Open(m) => m < n
  BY <1>0, <1>2, OpenType
<1>7. \A m \in Job : Open(m) => m \in DOMAIN journal /\ journal[m].status = "queued"
                                /\ journal[m].items = request[m].items
  BY DEF BookInv, OpenIsQueued
<1>8. \A i : Projected(i)' = Projected(i)
  BY <1>a DEF Projected
<1>9. SettledIsShown'
  BY <1>a, <1>b, <1>3 DEF OrderInv, SettledIsShown
<1>10. ShownIsCurrent'
  <2>1. \A i : (Sure(i)' <=> Sure(i)) /\ (Behind(i)' <=> Behind(i))
    BY <1>a DEF Sure, Unsure, Behind, Settled
  <2>2. shown' = shown /\ \A m \in DOMAIN journal : m \in DOMAIN journal' /\ journal'[m] = journal[m]
    BY <1>a
  <2>3. ShownIsCurrent
    BY DEF OrderInv
  <2> QED
    BY <2>1, <2>2, <2>3 DEF ShownIsCurrent
<1>11. Supersedes(shown)'
  <2> SUFFICES ASSUME NEW m \in DOMAIN shown, NEW k \in DOMAIN journal', k < m,
                      shown[m].status = "succeeded"
               PROVE  Items(shown[m]) \cap journal'[k].items = {}
    BY <1>a DEF Supersedes
  <2>1. k \in DOMAIN journal /\ journal'[k] = journal[k]
    BY <1>a, <1>2, <1>4
  <2> QED
    BY <2>1 DEF OrderInv, Supersedes
<1>12. Supersedes(journal)'
  <2> SUFFICES ASSUME NEW m \in DOMAIN journal', NEW k \in DOMAIN journal', k < m,
                      journal'[m].status = "succeeded"
               PROVE  Items(journal'[m]) \cap journal'[k].items = {}
    BY DEF Supersedes
  <2>1. m \in DOMAIN journal /\ journal'[m] = journal[m]
    BY <1>a, <1>b
  <2>2. k \in DOMAIN journal /\ journal'[k] = journal[k]
    BY <2>1, <1>a, <1>2, <1>3
  <2> QED
    BY <2>1, <2>2 DEF OrderInv, Supersedes
<1>13. FirstCome'
  <2> SUFFICES ASSUME NEW m \in Job, NEW k \in Job, Open(m)', Open(k)', m # k,
                      request'[k].op # "bulk", request'[m].items \cap request'[k].items # {}
               PROVE  k < m
    BY DEF FirstCome
  <2>1. CASE m = n
    BY <2>1, <1>5, <1>6
  <2>2. CASE k = n
    <3>1. Single(S) /\ Open(m)
      BY <2>2, <1>b, <1>5 DEF Submits
    <3>2. request'[m] = request[m] /\ journal[m].items = request[m].items /\ m \in DOMAIN journal
          /\ journal[m].status = "queued"
      BY <2>2, <3>1, <1>a, <1>7
    <3> QED
      BY <2>2, <3>1, <3>2, <1>b, <1>d DEF Single
  <2>3. CASE m # n /\ k # n
    BY <2>3, <1>a, <1>5 DEF OrderInv, FirstCome
  <2> QED
    BY <2>1, <2>2, <2>3
<1>14. ASSUME NEW m \in Job, Open(m), request[m].op # "undo", op # "undo", NEW i \in S,
              i \in request[m].items
       PROVE  request[m].revs[i] = Projected(i)
  <2>1. m \notin DOMAIN shown
    <3> SUFFICES ASSUME m \in DOMAIN shown PROVE FALSE
      OBVIOUS
    <3>1. shown[m].status = "queued" /\ shown[m].op = request[m].op /\ shown[m].items = request[m].items
      BY <1>14 DEF BookInv, ShownOK, ShownPlace
    <3>2. i \in Items(shown[m])
      BY <1>14, <3>1 DEF Items
    <3>3. PICK k \in DOMAIN shown : m <= k /\ shown[k].op = "undo" /\ k <= started
      BY <1>14, <1>e, <3>2, OfferHasUndo
    <3>4. m >= started
      BY <1>0, <1>14, OpenType
    <3>5. k = m
      BY <3>3, <3>4, <1>2, <1>4
    <3> QED
      BY <3>1, <3>3, <3>5, <1>14
  <2> QED
    BY <2>1, <1>14 DEF OrderInv, Unshown
<1>15. SameView'
  <2> SUFFICES ASSUME NEW m \in Job, NEW k \in Job, Open(m)', Open(k)',
                      request'[m].op # "undo", request'[k].op # "undo",
                      NEW i \in request'[m].items, i \in request'[k].items
               PROVE  request'[m].revs[i] = request'[k].revs[i]
    BY DEF SameView
  <2>1. CASE m = n /\ k = n
    BY <2>1
  <2>2. CASE m = n /\ k # n
    BY <2>2, <1>a, <1>b, <1>e, <1>5, <1>14
  <2>3. CASE m # n /\ k = n
    BY <2>3, <1>a, <1>b, <1>e, <1>5, <1>14
  <2>4. CASE m # n /\ k # n
    BY <2>4, <1>a, <1>5 DEF OrderInv, SameView
  <2> QED
    BY <2>1, <2>2, <2>3, <2>4
<1>16. Unshown'
  <2> SUFFICES ASSUME NEW m \in Job, Open(m)', m \notin DOMAIN shown', request'[m].op # "undo",
                      NEW i \in request'[m].items
               PROVE  request'[m].revs[i] = Projected(i)'
    BY DEF Unshown
  <2>1. CASE m = n
    BY <2>1, <1>b, <1>e, <1>8
  <2>2. CASE m # n
    BY <2>2, <1>a, <1>5, <1>8 DEF OrderInv, Unshown
  <2> QED
    BY <2>1, <2>2
<1>17. BulkStays'
  <2> SUFFICES ASSUME NEW m \in DOMAIN journal', journal'[m].op = "bulk",
                      journal'[m].status = "succeeded", NEW i \in Items(journal'[m])
               PROVE  /\ \A k \in Job : (Open(k)' /\ i \in request'[k].items) =>
                            /\ request'[k].op = "bulk" /\ request'[k].revs[i] = journal'[m].revs[i]
                            /\ i \notin request'[k].done
                      /\ \A u \in lastUndo' : u[1] # i
    BY DEF BulkStays
  <2>1. m \in DOMAIN journal /\ journal'[m] = journal[m]
    BY <1>a, <1>b
  <2>2. /\ \A k \in Job : (Open(k) /\ i \in request[k].items) =>
                  /\ request[k].op = "bulk" /\ request[k].revs[i] = journal[m].revs[i]
                  /\ i \notin request[k].done
        /\ \A u \in lastUndo : u[1] # i
    BY <2>1 DEF OrderInv, BulkStays
  <2>3. i \notin S
    <3> SUFFICES ASSUME i \in S PROVE FALSE
      OBVIOUS
    <3>1. op # "undo"
      BY <2>2 DEF Submits
    <3>2. i \in Item /\ Offers(i)
      BY <3>1, <1>e
    <3>3. m \in DOMAIN shown /\ i \in Items(shown[m]) /\ shown[m].op = "bulk"
      BY <2>1 DEF OrderInv, SettledIsShown, BookInv, ShownOK
    <3>4. PICK k \in DOMAIN shown : i \in Items(shown[k]) /\ m <= k /\ shown[k].op = "undo"
                                    /\ shown[k].status = "succeeded"
      BY <3>2, <3>3, OfferHasUndo
    <3>5. m < k
      BY <3>3, <3>4, <1>4
    <3>6. Items(shown[k]) \cap journal[m].items = {}
      BY <2>1, <3>4, <3>5 DEF OrderInv, Supersedes
    <3>7. i \in journal[m].items
      BY <2>1, ItemsWithin
    <3> QED
      BY <3>4, <3>6, <3>7
  <2>4. \A k \in Job : (Open(k)' /\ i \in request'[k].items) => Open(k) /\ request'[k] = request[k]
    BY <2>3, <1>a, <1>b, <1>5
  <2> QED
    BY <2>1, <2>2, <2>4, <1>a
<1> QED
  BY <1>9, <1>10, <1>11, <1>12, <1>13, <1>15, <1>16, <1>17 DEF OrderInv

\* What is offered of a sure item is what the page knows of it.
LEMMA SureOffer ==
    ASSUME BookInv, OrderInv, NEW i \in Item, Sure(i), SureOK(i), Offers(i)
    PROVE  Projected(i) \in {Known(i), Pending[i]}
<1>0. JournalTypeOK /\ row[i].rev \in Nat /\ rows[i] \in Nat /\ rows[i] <= row[i].rev
      /\ started \in Nat
  BY JournalType DEF BookInv, RowsOK
<1>1. CASE \A n \in DOMAIN shown : i \notin Items(shown[n])
  <2>1. Projected(i) = rows[i]
    BY <1>0, <1>1, OfferCases
  <2>2. ASSUME NEW n \in Job, Changed(n, i)
        PROVE  FALSE
    <3>1. n \in DOMAIN shown /\ i \in Items(shown[n])
      BY <2>2 DEF OrderInv, SettledIsShown, Changed
    <3> QED
      BY <1>1, <3>1
  <2> QED
    BY <2>1, <2>2 DEF SureOK
<1>2. CASE \E m \in DOMAIN shown : i \in Items(shown[m])
  <2>1. PICK k \in DOMAIN shown :
              /\ i \in Items(shown[k]) /\ \A n \in DOMAIN shown : i \in Items(shown[n]) => n <= k
              /\ shown[k].op = "undo" /\ shown[k].status = "succeeded" /\ k <= started
              /\ Projected(i) = IF rows[i] < shown[k].revs[i] + 1 THEN shown[k].revs[i] + 1 ELSE rows[i]
    BY <1>2, OfferHasUndo
  <2>2. k \in Job /\ k \in Nat /\ shown[k].revs[i] \in Nat
    BY <1>0, JournalType DEF Job
  <2>3. ~Open(k)
    BY <2>1, <2>2 DEF BookInv, ShownOK, ShownPlace
  <2>4. ~Behind(i)
    <3> SUFFICES ASSUME Behind(i) PROVE FALSE
      OBVIOUS
    <3>1. Settled \in DOMAIN shown /\ shown[Settled].status = "queued" /\ i \in Items(shown[Settled])
      BY DEF Behind, Items
    <3>2. Settled <= k /\ Settled # k
      BY <2>1, <3>1
    <3>3. awaited /\ k = started
      BY <3>2, <2>1, <2>2, <1>0 DEF Settled
    <3> QED
      BY <3>3, <2>3 DEF Open
  <2>5. /\ k \in DOMAIN journal /\ i \in Items(journal[k])
        /\ journal[k].status = "succeeded" /\ journal[k].revs = shown[k].revs
    BY <2>1, <2>4 DEF OrderInv, ShownIsCurrent
  <2>6. journal[k].op = "undo"
    BY <2>1, <2>5 DEF BookInv, ShownOK
  <2>7. Known(i) = shown[k].revs[i] + 1
    BY <2>2, <2>5, <2>6 DEF SureOK, Changed
  <2>8. row[i].rev <= Known(i)
    <3>1. CASE Served(i)
      <4>1. request[started].op # "undo" /\ Known(i) = request[started].revs[i]
        BY <3>1, <2>2, <2>7 DEF Known
      <4>2. started \in Job
        BY <3>1, AwaitedJob DEF Served
      <4>3. request[started].revs[i] \in Nat
        BY <1>0, <4>2, RequestType
      <4>4. row[i].rev = request[started].revs[i] + 0
        BY <3>1, <4>1 DEF SureOK
      <4> QED
        BY <4>1, <4>3, <4>4
    <3>2. CASE ~Served(i)
      <4>1. Pending[i] = Known(i) /\ Pending[i] # 0
        BY <3>2, <2>2, <2>7 DEF Known
      <4> QED
        BY <4>1, <1>0 DEF Pending
    <3> QED
      BY <3>1, <3>2
  <2> QED
    BY <1>0, <2>1, <2>2, <2>7, <2>8
<1> QED
  BY <1>1, <1>2

LEMMA EnqueueSure ==
    ASSUME BookInv, OrderInv, SureInv,
           NEW op \in Operation, NEW S \in SUBSET Item, NEW revs \in [Item -> Nat],
           Submits(op, S, revs)
    PROVE  SureInv'
<1>0. JournalTypeOK /\ Enqueue(op, S, revs)
  BY DEF BookInv, Submits
<1> PICK n \in Job : n = submitted + 1
  BY <1>0, EnqueueFacts
<1>a. /\ submitted' = n /\ S # {}
      /\ UNCHANGED <<row, started, awaited, shown, rows, page, lastUndo, told, doubt, elsewhere>>
      /\ n \notin DOMAIN journal /\ n \notin DOMAIN shown
      /\ \A m \in Job : m # n => request'[m] = request[m]
      /\ DOMAIN journal' = DOMAIN journal \cup {n}
      /\ \A m \in DOMAIN journal : journal'[m] = journal[m]
  BY <1>0, EnqueueFacts DEF history
<1>b. /\ request'[n].op = op /\ request'[n].items = S
      /\ request'[n].done = {} /\ request'[n].todo = S
      /\ journal'[n].status = "queued"
  BY <1>0, EnqueueFacts
<1>c. \A i \in S : request'[n].revs[i] = revs[i]
  <2>1. request'[submitted + 1].revs = Seen(S, revs)
    BY <1>0, EnqueueFacts, ZenonT(60)
  <2> QED
    BY <2>1 DEF Seen
<1>d. \E i \in S : \A m \in DOMAIN journal : journal[m].status = "queued" => i \notin journal[m].items
  BY <1>0, EnqueueFacts
<1>2. started \in Nat /\ submitted \in Nat /\ started <= submitted
  BY <1>0, JournalType
<1>5. \A m \in Job : m # n => (Open(m)' <=> Open(m))
  BY <1>a, <1>2 DEF Open, Job
<1> SUFFICES ASSUME NEW i \in Item, Sure(i)'
             PROVE  SureOK(i)'
  BY DEF SureInv
<1>6. Sure(i) /\ SureOK(i)
  BY <1>a DEF Sure, Unsure, SureInv
<1>7. started # n /\ (awaited => request'[started] = request[started])
  BY <1>a, <1>2, AwaitedJob
<1>8. /\ Served(i)' <=> Served(i)
      /\ Pending'[i] = Pending[i]
      /\ Known(i)' = Known(i)
  <2>1. (Served(i)' <=> Served(i)) /\ Pending' = Pending
    BY <1>a, <1>7 DEF Served, Pending
  <2> QED
    BY <2>1, <1>a, <1>7 DEF Known, Served
<1>9. \A m \in Job : /\ Changed(m, i)' <=> Changed(m, i)
                     /\ Changed(m, i) => journal'[m] = journal[m]
  BY <1>a, <1>b DEF Changed
<1>10. Served(i) => request'[started] = request[started]
  BY <1>7 DEF Served
<1>11. ASSUME NEW m \in Job, Open(m)', request'[m].op # "bulk", i \in request'[m].todo
       PROVE  /\ row[i].status = IF request'[m].op = "undo" THEN "answered" ELSE "pending"
              /\ row[i].rev = request'[m].revs[i]
  <2>1. CASE m # n
    BY <1>6, <1>11, <2>1, <1>a, <1>5 DEF SureOK
  <2>2. CASE m = n
    <3>1. op # "bulk" /\ S = {i}
      BY <1>11, <2>2, <1>b DEF Submits, Single
    <3>2. \A k \in DOMAIN journal : journal[k].status = "queued" => i \notin journal[k].items
      BY <3>1, <1>d
    <3>3. ~Served(i)
      <4> SUFFICES ASSUME Served(i) PROVE FALSE
        OBVIOUS
      <4>1. started \in Job /\ Open(started)
        BY AwaitedJob DEF Served
      <4>2. i \in request[started].items
        BY <4>1 DEF Served, BookInv, RequestOK, RequestPlace, RequestShape
      <4> QED
        BY <4>1, <4>2, <3>2 DEF BookInv, OpenIsQueued
    <3>4. CASE op = "undo"
      <4>1. PICK u \in lastUndo : u[1] = i /\ revs[i] = u[2]
        BY <3>1, <3>4 DEF Submits
      <4> QED
        BY <4>1, <3>1, <3>3, <3>4, <2>2, <1>6, <1>b, <1>c DEF SureOK
    <3>5. CASE op # "undo"
      <4>1. Offers(i) /\ revs[i] = Projected(i)
        BY <3>1, <3>5 DEF Submits, View
      <4>2. Projected(i) = Pending[i] /\ Projected(i) > 0
        BY <4>1, <1>6, <3>3, SureOffer, OfferDated DEF Known
      <4>3. row[i].status = "pending" /\ row[i].rev = Projected(i)
        BY <4>2 DEF Pending
      <4> QED
        BY <4>1, <4>3, <3>1, <3>5, <2>2, <1>b, <1>c
    <3> QED
      BY <3>4, <3>5
  <2> QED
    BY <2>1, <2>2
<1> QED
  BY <1>a, <1>6, <1>8, <1>9, <1>10, <1>11 DEF SureOK

LEMMA EnqueuePlain ==
    ASSUME BookInv, PlainInv,
           NEW op \in Operation, NEW S \in SUBSET Item, NEW revs \in [Item -> Nat],
           Submits(op, S, revs)
    PROVE  PlainInv'
<1>0. JournalTypeOK /\ Enqueue(op, S, revs)
  BY DEF BookInv, Submits
<1> PICK n \in Job : n = submitted + 1
  BY <1>0, EnqueueFacts
<1>a. /\ submitted' = n /\ S # {}
      /\ UNCHANGED <<row, started, awaited, shown, rows, page, lastUndo, told, doubt, elsewhere>>
      /\ n \notin DOMAIN journal /\ n \notin DOMAIN shown
      /\ \A m \in Job : m # n => request'[m] = request[m]
      /\ DOMAIN journal' = DOMAIN journal \cup {n}
      /\ \A m \in DOMAIN journal : journal'[m] = journal[m]
  BY <1>0, EnqueueFacts DEF history
<1>b. /\ request'[n].op = op /\ request'[n].items = S
      /\ request'[n].done = {} /\ request'[n].todo = S
      /\ journal'[n].status = "queued" /\ journal'[n].op = op /\ journal'[n].items = S
  BY <1>0, EnqueueFacts
<1>c. \A i \in S : request'[n].revs[i] = revs[i]
  <2>1. request'[submitted + 1].revs = Seen(S, revs)
    BY <1>0, EnqueueFacts, ZenonT(60)
  <2> QED
    BY <2>1 DEF Seen
<1>2. started \in Nat /\ submitted \in Nat /\ started <= submitted
  BY <1>0, JournalType
<1>5. (\A m \in Job : m # n => (Open(m)' <=> Open(m))) /\ Open(n)'
  BY <1>a, <1>2 DEF Open, Job
<1> SUFFICES ASSUME NEW i \in Item, NEW m \in Job, Plain(i)', Undone(m, i)'
             PROVE  UndoneOK(m, i)'
  BY DEF PlainInv
<1>6. Plain(i) /\ m # n /\ Undone(m, i) /\ journal'[m] = journal[m] /\ m \in DOMAIN journal
  BY <1>a, <1>b, <1>5 DEF Plain, Undone
<1>7. UndoneOK(m, i)
  BY <1>6 DEF PlainInv
<1>8. \A k \in Job : (Overtakes(k, m, i) => Overtakes(k, m, i)' /\ k # n /\ journal'[k] = journal[k])
  BY <1>a, <1>6 DEF Overtakes
<1>9. \/ row'[i].status = "pending" /\ row'[i].rev > journal'[m].revs[i]
      \/ \E k \in Job : Overtakes(k, m, i)' /\ ((Open(k)' /\ i \in request'[k].done) \/ InDoubt(k)')
  BY <1>a, <1>5, <1>6, <1>7, <1>8 DEF UndoneOK, InDoubt
<1>10. m < n
  BY <1>0, <1>2, <1>6, JournalType DEF Job
<1>11. ASSUME NEW k \in Job, request'[k].at # "none", i \in request'[k].items,
              request'[k].revs[i] > journal'[m].revs[i]
       PROVE  Overtakes(k, m, i)' /\ request'[k].op # "undo" /\ (Open(k)' \/ InDoubt(k)')
  <2>1. CASE k # n
    BY <2>1, <1>11, <1>a, <1>5, <1>6, <1>7, <1>8 DEF UndoneOK, InDoubt
  <2>2. CASE k = n
    <3>1. i \in S /\ revs[i] > journal[m].revs[i]
      BY <2>2, <1>11, <1>6, <1>b, <1>c
    <3>2. op # "undo"
      <4> SUFFICES ASSUME op = "undo" PROVE FALSE
        OBVIOUS
      <4>1. PICK u \in lastUndo : u[1] = i /\ revs[i] = u[2]
        BY <3>1 DEF Submits
      <4>2. u[2] <= journal[m].revs[i] /\ u[2] \in Nat /\ journal[m].revs[i] \in Nat
        BY <4>1, <1>0, <1>6, <1>7, JournalType DEF UndoneOK
      <4> QED
        BY <3>1, <4>1, <4>2
    <3>3. Overtakes(n, m, i)'
      BY <3>1, <3>2, <1>a, <1>b, <1>10 DEF Overtakes
    <3> QED
      BY <2>2, <3>2, <3>3, <1>5, <1>b
  <2> QED
    BY <2>1, <2>2
<1> QED
  BY <1>a, <1>6, <1>7, <1>9, <1>11 DEF UndoneOK

LEMMA EnqueueStep ==
    ASSUME JournalInv,
           (\E i \in Item : Answer(i)) \/ (\E S \in SUBSET Item : BulkAnswer(S)) \/ Undo
    PROVE  JournalInv'
<1> USE DEF JournalInv
<1>1. PICK op \in Operation, S \in SUBSET Item, revs \in [Item -> Nat] : Submits(op, S, revs)
  BY Submissions
<1>2. Enqueue(op, S, revs) /\ JournalTypeOK
  BY <1>1 DEF Submits, BookInv
<1>3. BookInv'
  BY <1>1, EnqueueBook DEF Submits, OrderInv
<1>4. OrderInv' /\ SureInv' /\ PlainInv'
  BY <1>1, EnqueueOrder, EnqueueSure, EnqueuePlain
<1>5. NoSelfConflict'
  <2>1. PICK n \in Job : n = submitted + 1
    BY <1>2, EnqueueFacts
  <2>2. /\ request'[n].at = "queued" /\ \A m \in Job : m # n => request'[m] = request[m]
        /\ UNCHANGED <<doubt, elsewhere>>
    BY <1>2, <2>1, EnqueueFacts DEF history
  <2> QED
    BY <2>2 DEF NoSelfConflict, Unsure
<1> QED
  BY <1>3, <1>4, <1>5

---------------------------------------------------------------------------
(* The server                                                              *)

\* What an item may do: its revision grows, and it is pending again only at a
\* later revision.
Moved(rw, new) ==
    \A i \in Item :
        /\ rw[i].rev \in Nat /\ new[i].rev \in Nat /\ rw[i].rev <= new[i].rev
        /\ new[i].status = "pending" => rw[i].status = "pending" \/ rw[i].rev < new[i].rev

LEMMA PassedStays ==
    ASSUME NEW rw, NEW new, Moved(rw, new), NEW i \in Item, NEW rev \in Nat
    PROVE  /\ rev <= rw[i].rev => rev <= new[i].rev
           /\ rev < rw[i].rev => rev < new[i].rev
           /\ (rev <= rw[i].rev /\ Passed(rw[i], rev)) => Passed(new[i], rev)
BY DEF Moved, Passed

LEMMA DatedStays ==
    ASSUME NEW rw, NEW new, Moved(rw, new)
    PROVE  /\ \A q \in Request : (RequestShape(q) /\ RequestDated(q, rw)) => RequestDated(q, new)
           /\ \A r \in Record : RecordDated(r, rw) => RecordDated(r, new)
           /\ \A r \in Record : ShownDated(r, rw) => ShownDated(r, new)
<1>1. ASSUME NEW q \in Request, RequestShape(q), RequestDated(q, rw)
      PROVE  RequestDated(q, new)
  <2>1. q.items \in SUBSET Item /\ q.revs \in [Item -> Nat] /\ q.done \in SUBSET Item
    BY DEF Request
  <2>2. q.at # "none" => q.done \subseteq q.items
    BY <1>1 DEF RequestShape
  <2>3. q.done # {} => q.at # "none"
    BY <1>1 DEF RequestShape
  <2>4. ASSUME NEW i \in q.items, q.at # "none"
        PROVE  q.revs[i] <= new[i].rev /\ (q.op = "undo" => Passed(new[i], q.revs[i]))
    <3>1. q.revs[i] <= rw[i].rev /\ (q.op = "undo" => Passed(rw[i], q.revs[i]))
          /\ i \in Item /\ q.revs[i] \in Nat
      BY <1>1, <2>1, <2>4 DEF RequestDated
    <3> QED
      BY <3>1, PassedStays
  <2>5. ASSUME NEW i \in q.done
        PROVE  Passed(new[i], q.revs[i]) /\ (q.op = "undo" => q.revs[i] < new[i].rev)
    <3>1. i \in Item /\ q.revs[i] \in Nat /\ i \in q.items /\ q.at # "none"
      BY <2>1, <2>2, <2>3
    <3>2. Passed(rw[i], q.revs[i]) /\ (q.op = "undo" => q.revs[i] < rw[i].rev) /\ q.revs[i] <= rw[i].rev
      BY <1>1, <3>1 DEF RequestDated
    <3> QED
      BY <3>1, <3>2, PassedStays
  <2> QED
    BY <2>4, <2>5 DEF RequestDated
<1>2. ASSUME NEW r \in Record, RecordDated(r, rw)
      PROVE  RecordDated(r, new)
  <2>1. r.items \in SUBSET Item /\ r.revs \in [Item -> Nat] /\ Items(r) \subseteq r.items
    BY RecordType, ItemsWithin
  <2>2. ASSUME NEW i \in r.items
        PROVE  /\ r.revs[i] <= new[i].rev /\ (r.op = "undo" => Passed(new[i], r.revs[i]))
               /\ (r.status = "succeeded" /\ i \in Items(r)) => Passed(new[i], r.revs[i])
               /\ (r.status = "succeeded" /\ r.op = "undo") => r.revs[i] < new[i].rev
    <3>1. /\ r.revs[i] <= rw[i].rev /\ (r.op = "undo" => Passed(rw[i], r.revs[i]))
          /\ (r.status = "succeeded" /\ i \in Items(r)) => Passed(rw[i], r.revs[i])
          /\ (r.status = "succeeded" /\ r.op = "undo") => r.revs[i] < rw[i].rev
      BY <1>2 DEF RecordDated
    <3>2. i \in Item /\ r.revs[i] \in Nat
      BY <2>1
    <3> QED
      BY <3>1, <3>2, PassedStays
  <2> QED
    BY <2>1, <2>2 DEF RecordDated
<1>3. ASSUME NEW r \in Record, ShownDated(r, rw)
      PROVE  ShownDated(r, new)
  <2>1. r.items \in SUBSET Item /\ r.revs \in [Item -> Nat]
    BY RecordType
  <2> QED
    BY <1>3, <2>1, PassedStays DEF ShownDated
<1> QED
  BY <1>1, <1>2, <1>3

\* Records, rendered records, rows and undo control while only items move.
LEMMA BookMoved ==
    ASSUME BookInv, Moved(row, row'), elsewhere \subseteq elsewhere',
           UNCHANGED <<submitted, started, awaited, journal, shown, rows, page, lastUndo, doubt>>,
           \A n \in Job : Open(n) => request'[n].op = request[n].op /\ request'[n].items = request[n].items
    PROVE  /\ \A n \in DOMAIN journal' : RecordOK(n)'
           /\ \A n \in DOMAIN shown' : ShownOK(n)'
           /\ UndosOK' /\ RowsOK' /\ (awaited' => started' > 0)
<1>0. JournalTypeOK
  BY DEF BookInv
<1>1. \A n : Open(n)' <=> Open(n)
  BY DEF Open
<1>2. ASSUME NEW n \in DOMAIN journal
      PROVE  RecordOK(n)'
  <2>1. RecordOK(n) /\ journal[n] \in Record
    BY <1>0, JournalType DEF BookInv
  <2>2. RecordDated(journal[n], row)'
    BY <2>1, DatedStays DEF RecordOK
  <2>3. RecordPlace(n, journal[n])'
    BY <2>1, <1>1 DEF RecordOK, RecordPlace
  <2>4. RecordDoubt(journal[n])'
    BY <2>1 DEF RecordOK, RecordDoubt
  <2> QED
    BY <2>2, <2>3, <2>4 DEF RecordOK
<1>3. ASSUME NEW n \in DOMAIN shown
      PROVE  ShownOK(n)'
  <2>1. ShownOK(n) /\ shown[n] \in Record /\ n \in Job
    BY <1>0, JournalType DEF BookInv
  <2>2. ShownDated(shown[n], row)'
    BY <2>1, DatedStays DEF ShownOK
  <2>3. Settled' = Settled
    BY DEF Settled
  <2>4. ShownPlace(n, shown[n])'
    BY <2>1, <2>3, <1>1 DEF ShownOK, ShownPlace
  <2> QED
    BY <2>1, <2>2, <2>4 DEF ShownOK
<1>4. UndosOK'
  <2>1. ASSUME NEW u \in lastUndo
        PROVE  u[2] <= row'[u[1]].rev /\ Passed(row'[u[1]], u[2])
    <3>1. u[1] \in Item /\ u[2] \in Nat /\ u[2] <= row[u[1]].rev /\ Passed(row[u[1]], u[2])
      BY <1>0, JournalType DEF BookInv, UndosOK
    <3> QED
      BY <3>1, PassedStays
  <2> QED
    BY <2>1 DEF BookInv, UndosOK
<1>5. RowsOK'
  <2>1. ASSUME NEW i \in Item
        PROVE  rows[i] <= row'[i].rev /\ (page.at = "read" => page.rows[i] <= row'[i].rev)
    <3>1. rows[i] \in Nat /\ page.rows[i] \in Nat
      BY <1>0, JournalType
    <3> QED
      BY <3>1, PassedStays DEF BookInv, RowsOK
  <2> QED
    BY <2>1 DEF RowsOK
<1> QED
  BY <1>2, <1>3, <1>4, <1>5 DEF BookInv

LEMMA NoRequestType ==
    /\ NoRequest \in Request
    /\ NoRequest.op = "answer" /\ NoRequest.items = {} /\ NoRequest.undos = {} /\ NoRequest.at = "none"
    /\ NoRequest.todo = {} /\ NoRequest.done = {}
<1>1. Nothing \in [Item -> Nat]
  BY DEF Nothing
<1> HIDE DEF Nothing
<1> QED
  BY <1>1 DEF NoRequest, Request, Operation, Code

LEMMA ElsewhereStep ==
    ASSUME JournalInv, NEW i \in Item, Elsewhere(i)
    PROVE  JournalInv'
<1>0. JournalTypeOK
  BY DEF JournalInv, BookInv
<1>1. /\ UNCHANGED <<submitted, started, awaited, request, journal, shown, rows, page, lastUndo,
                     told, doubt>>
      /\ elsewhere' = elsewhere \cup {i}
  BY DEF Elsewhere
<1>2. /\ row \in [Item -> [status : {"pending", "answered", "read", "gone"}, rev : Nat]]
      /\ row[i].rev \in Nat
  BY <1>0 DEF JournalTypeOK
<1>3. /\ row' \in [Item -> [status : {"pending", "answered", "read", "gone"}, rev : Nat]]
      /\ \A j \in Item : j # i => row'[j] = row[j]
      /\ row[i].rev <= row'[i].rev
      /\ row'[i].status = "pending" => row[i].rev < row'[i].rev
  <2>1. CASE row' = [row EXCEPT ![i].status = "answered"]
    BY <2>1, <1>2
  <2>2. CASE row' = [row EXCEPT ![i].rev = @ + 1]
    BY <2>2, <1>2
  <2>3. CASE row' = [row EXCEPT ![i].status = "read"]
    BY <2>3, <1>2
  <2>4. CASE row' = [row EXCEPT ![i] = [status |-> "pending", rev |-> @.rev + 1]]
    BY <2>4, <1>2
  <2>5. CASE row' = [row EXCEPT ![i].status = "gone"]
    BY <2>5, <1>2
  <2> QED
    BY <2>1, <2>2, <2>3, <2>4, <2>5 DEF Elsewhere
<1>4. Moved(row, row')
  <2>1. \A j \in Item : row[j].rev \in Nat
    BY <1>2
  <2> QED
    BY <1>2, <1>3, <2>1 DEF Moved
<1>5. \A n : Open(n)' <=> Open(n)
  BY <1>1 DEF Open
<1>6. \A j : Unsure(j) => Unsure(j)'
  BY <1>1 DEF Unsure
<1>7. JournalTypeOK'
  BY <1>0, <1>1, <1>3 DEF JournalTypeOK
<1>8. ASSUME NEW n \in Job
      PROVE  RequestOK(n)' /\ OpenIsQueued(n)'
  <2>1. RequestOK(n) /\ OpenIsQueued(n) /\ request[n] \in Request
    BY <1>0 DEF JournalInv, BookInv, JournalTypeOK
  <2>2. RequestShape(request[n])' /\ RequestUndos(n, request[n])'
    BY <2>1, <1>1 DEF RequestOK, RequestUndos
  <2>3. RequestDated(request[n], row)'
    BY <2>1, <1>1, <1>4, DatedStays DEF RequestOK
  <2>4. RequestPlace(n, request[n])'
    BY <2>1, <1>1, <1>5, <1>6 DEF RequestOK, RequestPlace
  <2> QED
    BY <2>1, <2>2, <2>3, <2>4, <1>1, <1>5 DEF RequestOK, OpenIsQueued
<1>9. BookInv'
  BY <1>1, <1>4, <1>7, <1>8, BookMoved DEF JournalInv, BookInv
<1>10. \A j : Sure(j)' => Sure(j) /\ j # i
  BY <1>1 DEF Sure, Unsure
<1>11. OrderInv'
  <2>1. \A j : Behind(j)' <=> Behind(j)
    BY <1>1 DEF Behind, Settled
  <2>2. \A j : Projected(j)' = Projected(j)
    BY <1>1 DEF Projected
  <2>3. ShownIsCurrent'
    BY <1>1, <1>10, <2>1 DEF JournalInv, OrderInv, ShownIsCurrent
  <2>4. Unshown'
    BY <1>1, <1>5, <2>2 DEF JournalInv, OrderInv, Unshown
  <2>5. SettledIsShown' /\ Supersedes(shown)' /\ Supersedes(journal)'
    BY <1>1 DEF JournalInv, OrderInv, SettledIsShown, Supersedes
  <2>6. FirstCome' /\ SameView'
    BY <1>1, <1>5 DEF JournalInv, OrderInv, FirstCome, SameView
  <2>7. BulkStays'
    BY <1>1, <1>5 DEF JournalInv, OrderInv, BulkStays
  <2> QED
    BY <2>3, <2>4, <2>5, <2>6, <2>7 DEF OrderInv
<1>12. SureInv'
  <2> SUFFICES ASSUME NEW j \in Item, Sure(j)'
               PROVE  SureOK(j)'
    BY DEF SureInv
  <2>1. SureOK(j) /\ row'[j] = row[j]
    BY <1>3, <1>10 DEF JournalInv, SureInv
  <2>2. Pending'[j] = Pending[j] /\ (Served(j)' <=> Served(j))
    BY <2>1, <1>1 DEF Pending, Served
  <2>3. Known(j)' = Known(j)
    BY <2>2, <1>1 DEF Known, Served
  <2>4. \A n : Changed(n, j)' <=> Changed(n, j)
    BY <1>1 DEF Changed
  <2> QED
    BY <2>1, <2>2, <2>3, <2>4, <1>1, <1>5 DEF SureOK
<1>13. PlainInv'
  <2> SUFFICES ASSUME NEW j \in Item, NEW n \in Job, Plain(j)', Undone(n, j)'
               PROVE  UndoneOK(n, j)'
    BY DEF PlainInv
  <2>1. Plain(j) /\ Undone(n, j) /\ row'[j] = row[j]
    BY <1>1, <1>3, <1>5 DEF Plain, Undone
  <2>2. UndoneOK(n, j)
    BY <2>1 DEF JournalInv, PlainInv
  <2>3. \A m : /\ Overtakes(m, n, j)' <=> Overtakes(m, n, j)
               /\ InDoubt(m)' <=> InDoubt(m)
    BY <1>1 DEF Overtakes, InDoubt
  <2> QED
    BY <2>1, <2>2, <2>3, <1>1, <1>5 DEF UndoneOK
<1>14. NoSelfConflict'
  BY <1>1, <1>6 DEF JournalInv, NoSelfConflict
<1> QED
  BY <1>9, <1>11, <1>12, <1>13, <1>14 DEF JournalInv

LEMMA TriedFacts ==
    ASSUME JournalTypeOK, NEW n \in Job, NEW i \in Item, NEW d \in SUBSET Item, NEW code \in Code,
           Tried(n, i, d, code), request[n].at = "sent"
    PROVE  /\ request' \in [Job -> Request]
           /\ \A m \in Job : m # n => request'[m] = request[m]
           /\ \/ /\ request[n].todo \ {i} = {} /\ ~(n = started /\ awaited)
                 /\ request'[n] = NoRequest
              \/ /\ request'[n].op = request[n].op /\ request'[n].items = request[n].items
                 /\ request'[n].revs = request[n].revs /\ request'[n].undos = request[n].undos
                 /\ request'[n].todo = request[n].todo \ {i}
                 /\ request'[n].done = request[n].done \cup d
                 /\ \/ request[n].todo \ {i} # {} /\ request'[n].at = "sent"
                    \/ /\ request[n].todo \ {i} = {} /\ n = started /\ awaited
                       /\ request'[n].at = "served"
                       /\ request'[n].code = IF request'[n].done # {} THEN "ok" ELSE code
<1> DEFINE q == [request[n] EXCEPT !.todo = @ \ {i}, !.done = @ \cup d]
           reply == [q EXCEPT !.at = "served", !.code = IF q.done # {} THEN "ok" ELSE code]
           new == CASE q.todo # {}                               -> q
                    [] q.todo = {} /\ ~(n = started /\ awaited)  -> NoRequest
                    [] q.todo = {} /\ n = started /\ awaited     -> reply
<1>1. request' = [request EXCEPT ![n] = new]
  BY DEF Tried
<1>2. request[n] \in Request /\ request \in [Job -> Request]
  BY DEF JournalTypeOK
<1>3. /\ q \in Request
      /\ q.op = request[n].op /\ q.items = request[n].items /\ q.revs = request[n].revs
      /\ q.undos = request[n].undos /\ q.at = request[n].at
      /\ q.todo = request[n].todo \ {i} /\ q.done = request[n].done \cup d
  <2>1. q \in Request
    BY <1>2 DEF Request
  <2> QED
    BY <2>1, <1>2 DEF Request
<1> HIDE DEF q
<1>4. /\ reply \in Request
      /\ reply.op = q.op /\ reply.items = q.items /\ reply.revs = q.revs /\ reply.undos = q.undos
      /\ reply.todo = q.todo /\ reply.done = q.done /\ reply.at = "served"
      /\ reply.code = IF q.done # {} THEN "ok" ELSE code
  <2>1. (IF q.done # {} THEN "ok" ELSE code) \in Code
    BY DEF Code
  <2>2. reply \in Request
    BY <1>3, <2>1 DEF Request
  <2> QED
    BY <2>2, <1>3 DEF Request
<1> HIDE DEF reply
<1>5. /\ q.todo # {} => new = q
      /\ (q.todo = {} /\ ~(n = started /\ awaited)) => new = NoRequest
      /\ (q.todo = {} /\ n = started /\ awaited) => new = reply
  OBVIOUS
<1> HIDE DEF new
<1>6. new \in Request
  BY <1>3, <1>4, <1>5, NoRequestType
<1>7. request'[n] = new /\ request' \in [Job -> Request] /\ \A m \in Job : m # n => request'[m] = request[m]
  BY <1>1, <1>2, <1>6
<1> QED
  BY <1>3, <1>4, <1>5, <1>7

\* The item was in the state that the request needs.
Ready(q, i) ==
    /\ row[i].status = IF q.op = "undo" THEN "answered" ELSE "pending"
    /\ row[i].rev = q.revs[i]

\* The request after its item i was tried, and changed for those in d.
Tries(n, i, d) ==
    \/ /\ request[n].todo \ {i} = {} /\ ~(n = started /\ awaited)
       /\ request'[n] = NoRequest
    \/ /\ request'[n].op = request[n].op /\ request'[n].items = request[n].items
       /\ request'[n].revs = request[n].revs /\ request'[n].undos = request[n].undos
       /\ request'[n].todo = request[n].todo \ {i}
       /\ request'[n].done = request[n].done \cup d
       /\ \/ request[n].todo \ {i} # {} /\ request'[n].at = "sent"
          \/ /\ request[n].todo \ {i} = {} /\ n = started /\ awaited
             /\ request'[n].at = "served"
             /\ request'[n].code = "ok" <=> request'[n].done # {}
             /\ request'[n].code = "conflict" =>
                   request[n].op # "bulk" /\ ~Ready(request[n], i)

LEMMA ServeFacts ==
    ASSUME BookInv, NEW n \in Job, Serve(n)
    PROVE  /\ UNCHANGED <<submitted, started, awaited, journal, shown, rows, page, lastUndo,
                          told, doubt, elsewhere>>
           /\ request[n].at = "sent"
           /\ request' \in [Job -> Request]
           /\ \A m \in Job : m # n => request'[m] = request[m]
           /\ row' \in [Item -> [status : {"pending", "answered", "read", "gone"}, rev : Nat]]
           /\ \E i \in request[n].todo, d \in SUBSET Item :
                 /\ \/ d = {} /\ row' = row
                    \/ /\ d = {i} /\ Ready(request[n], i) /\ request[n].op # "undo"
                       /\ row'[i].status = "answered" /\ row'[i].rev = row[i].rev
                    \/ /\ d = {i} /\ Ready(request[n], i) /\ request[n].op = "undo"
                       /\ row'[i].status = "pending" /\ row'[i].rev = row[i].rev + 1
                 /\ \A j \in Item : j # i => row'[j] = row[j]
                 /\ Tries(n, i, d)
<1>0. JournalTypeOK
  BY DEF BookInv
<1>1. /\ UNCHANGED <<submitted, started, awaited, journal, shown, rows, page, lastUndo,
                          told, doubt, elsewhere>>
      /\ request[n].at = "sent"
  BY DEF Serve, history
<1>2. PICK i \in request[n].todo : ServeAnswer(n, i) \/ ServeUndo(n, i)
  BY DEF Serve
<1>3. /\ request[n].todo \in SUBSET Item /\ i \in Item
      /\ row \in [Item -> [status : {"pending", "answered", "read", "gone"}, rev : Nat]]
  BY <1>0, RequestType DEF JournalTypeOK
<1>4. "ok" \in Code /\ "failed" \in Code /\ "conflict" \in Code /\ "read" \in Code
  BY DEF Code
<1>5. ASSUME NEW d \in SUBSET Item, NEW code \in Code, Tried(n, i, d, code),
             d = {} => code # "ok",
             code = "conflict" => request[n].op # "bulk" /\ ~Ready(request[n], i)
      PROVE  /\ request' \in [Job -> Request]
             /\ \A m \in Job : m # n => request'[m] = request[m]
             /\ Tries(n, i, d)
  <2>1. /\ request' \in [Job -> Request]
        /\ \A m \in Job : m # n => request'[m] = request[m]
        /\ \/ /\ request[n].todo \ {i} = {} /\ ~(n = started /\ awaited)
              /\ request'[n] = NoRequest
           \/ /\ request'[n].op = request[n].op /\ request'[n].items = request[n].items
              /\ request'[n].revs = request[n].revs /\ request'[n].undos = request[n].undos
              /\ request'[n].todo = request[n].todo \ {i}
              /\ request'[n].done = request[n].done \cup d
              /\ \/ request[n].todo \ {i} # {} /\ request'[n].at = "sent"
                 \/ /\ request[n].todo \ {i} = {} /\ n = started /\ awaited
                    /\ request'[n].at = "served"
                    /\ request'[n].code = IF request'[n].done # {} THEN "ok" ELSE code
    BY <1>0, <1>1, <1>3, <1>5, TriedFacts
  <2>2. request'[n].done = request[n].done \cup d => (request'[n].done = {} => d = {})
    OBVIOUS
  <2> QED
    BY <2>1, <2>2, <1>5 DEF Tries
<1>6. CASE ServeAnswer(n, i)
  <2>1. request[n].op # "undo"
    BY <1>6 DEF ServeAnswer
  <2>2. CASE row[i].status = "pending" /\ Current(n, i)
    <3>1. Ready(request[n], i)
      BY <2>1, <2>2 DEF Ready, Current
    <3>2. CASE row' = [row EXCEPT ![i].status = "answered"] /\ Tried(n, i, {i}, "ok")
      <4>1. row' \in [Item -> [status : {"pending", "answered", "read", "gone"}, rev : Nat]]
            /\ row'[i].status = "answered" /\ row'[i].rev = row[i].rev
            /\ \A j \in Item : j # i => row'[j] = row[j]
        BY <3>2, <1>3
      <4>2. {i} \in SUBSET Item /\ {i} # {}
        BY <1>3
      <4>3. /\ request' \in [Job -> Request]
            /\ \A m \in Job : m # n => request'[m] = request[m]
            /\ Tries(n, i, {i})
        BY <1>4, <1>5, <3>2, <4>2
      <4> QED
        BY <1>1, <2>1, <3>1, <4>1, <4>2, <4>3
    <3>3. CASE UNCHANGED row /\ Tried(n, i, {}, "failed")
      BY <1>1, <1>3, <1>4, <1>5, <3>3
    <3> QED
      BY <1>6, <2>2, <3>2, <3>3 DEF ServeAnswer
  <2>3. CASE ~(row[i].status = "pending" /\ Current(n, i))
    <3>1. ~Ready(request[n], i)
      BY <2>1, <2>3 DEF Ready, Current
    <3>2. UNCHANGED row /\ Tried(n, i, {}, IF request[n].op = "bulk" THEN "failed" ELSE "conflict")
      BY <1>6, <2>3 DEF ServeAnswer
    <3>3. CASE request[n].op = "bulk"
      <4>1. Tried(n, i, {}, "failed")
        BY <3>2, <3>3
      <4> QED
        BY <1>1, <1>3, <1>4, <1>5, <3>2, <4>1
    <3>4. CASE request[n].op # "bulk"
      <4>1. Tried(n, i, {}, "conflict")
        BY <3>2, <3>4
      <4> QED
        BY <1>1, <1>3, <1>4, <1>5, <3>1, <3>2, <3>4, <4>1
    <3> QED
      BY <3>3, <3>4
  <2> QED
    BY <2>2, <2>3
<1>7. CASE ServeUndo(n, i)
  <2>1. request[n].op = "undo"
    BY <1>7 DEF ServeUndo
  <2>2. CASE row[i].status = "answered" /\ Current(n, i)
    <3>1. Ready(request[n], i)
      BY <2>1, <2>2 DEF Ready, Current
    <3>2. CASE /\ row' = [row EXCEPT ![i] = [status |-> "pending", rev |-> @.rev + 1]]
               /\ Tried(n, i, {i}, "ok")
      <4>1. row' \in [Item -> [status : {"pending", "answered", "read", "gone"}, rev : Nat]]
            /\ row'[i].status = "pending" /\ row'[i].rev = row[i].rev + 1
            /\ \A j \in Item : j # i => row'[j] = row[j]
        BY <3>2, <1>3
      <4>2. {i} \in SUBSET Item /\ {i} # {}
        BY <1>3
      <4>3. /\ request' \in [Job -> Request]
            /\ \A m \in Job : m # n => request'[m] = request[m]
            /\ Tries(n, i, {i})
        BY <1>4, <1>5, <3>2, <4>2
      <4> QED
        BY <1>1, <2>1, <3>1, <4>1, <4>2, <4>3
    <3>3. CASE UNCHANGED row /\ Tried(n, i, {}, "failed")
      BY <1>1, <1>3, <1>4, <1>5, <3>3
    <3> QED
      BY <1>7, <2>2, <3>2, <3>3 DEF ServeUndo
  <2>3. CASE ~(row[i].status = "answered" /\ Current(n, i))
    <3>1. ~Ready(request[n], i)
      BY <2>1, <2>3 DEF Ready, Current
    <3>2. UNCHANGED row /\ Tried(n, i, {}, IF row[i].status = "read" /\ Current(n, i) THEN "read"
                                           ELSE "conflict")
      BY <1>7, <2>3 DEF ServeUndo
    <3>3. CASE row[i].status = "read" /\ Current(n, i)
      <4>1. Tried(n, i, {}, "read")
        BY <3>2, <3>3
      <4> QED
        BY <1>1, <1>3, <1>4, <1>5, <3>2, <4>1
    <3>4. CASE ~(row[i].status = "read" /\ Current(n, i))
      <4>1. Tried(n, i, {}, "conflict")
        BY <3>2, <3>4
      <4> QED
        BY <1>1, <1>3, <1>4, <1>5, <2>1, <3>1, <3>2, <4>1
    <3> QED
      BY <3>3, <3>4
  <2> QED
    BY <2>2, <2>3
<1> QED
  BY <1>2, <1>6, <1>7

\* The item is changed for the items in d.
Changes(n, i, d) ==
    \/ d = {} /\ row' = row
    \/ /\ d = {i} /\ Ready(request[n], i) /\ request[n].op # "undo"
       /\ row'[i].status = "answered" /\ row'[i].rev = row[i].rev
    \/ /\ d = {i} /\ Ready(request[n], i) /\ request[n].op = "undo"
       /\ row'[i].status = "pending" /\ row'[i].rev = row[i].rev + 1

\* What the following lemmas use of a request that is served.
Serves(n, i, d) ==
    /\ UNCHANGED <<submitted, started, awaited, journal, shown, rows, page, lastUndo,
                   told, doubt, elsewhere>>
    /\ request[n].at = "sent" /\ i \in request[n].todo
    /\ \A m \in Job : m # n => request'[m] = request[m]
    /\ Changes(n, i, d) /\ \A j \in Item : j # i => row'[j] = row[j]
    /\ Tries(n, i, d)

LEMMA ServesFacts ==
    ASSUME BookInv, NEW n \in Job, NEW i \in Item, NEW d \in SUBSET Item, Serves(n, i, d)
    PROVE  /\ JournalTypeOK
           /\ \A m : Open(m)' <=> Open(m)
           /\ Open(n) => n = started /\ awaited
           /\ Open(n) => \/ request'[n].at = "sent" /\ request'[n].todo # {}
                         \/ request'[n].at = "served" /\ request'[n].todo = {}
           /\ request[n].items # {} /\ request[n].todo \cup request[n].done \subseteq request[n].items
           /\ i \notin request[n].done /\ i \in request[n].items
           /\ d \subseteq {i}
           /\ row[i].rev \in Nat /\ request[n].revs[i] \in Nat
           /\ request'[n] = NoRequest \/
                 /\ request'[n].op = request[n].op /\ request'[n].items = request[n].items
                 /\ request'[n].revs = request[n].revs /\ request'[n].undos = request[n].undos
                 /\ request'[n].todo = request[n].todo \ {i}
                 /\ request'[n].done = request[n].done \cup d
           /\ Open(n) => /\ request'[n].op = request[n].op /\ request'[n].items = request[n].items
                         /\ request'[n].revs = request[n].revs
                         /\ request'[n].todo = request[n].todo \ {i}
                         /\ request'[n].done = request[n].done \cup d
           /\ Moved(row, row')
<1>0. JournalTypeOK
  BY DEF BookInv
<1>1. \A m : Open(m)' <=> Open(m)
  BY DEF Open, Serves
<1>2. /\ RequestShape(request[n]) /\ request[n].at = "sent" /\ i \in request[n].todo
      /\ Tries(n, i, d) /\ Changes(n, i, d)
  BY DEF Serves, BookInv, RequestOK
<1>3. /\ request[n].items # {} /\ request[n].todo \cup request[n].done \subseteq request[n].items
      /\ i \notin request[n].done /\ i \in request[n].items
  BY <1>2 DEF RequestShape
<1>4. row[i].rev \in Nat /\ request[n].revs[i] \in Nat
  BY <1>0, JournalType, RequestType
<1>5. Open(n) => n = started /\ awaited
  BY <1>0, <1>2 DEF JournalTypeOK, Open
<1>6. d \subseteq {i}
  BY <1>2 DEF Changes
<1>7. Moved(row, row')
  <2>1. \A j \in Item : row[j].rev \in Nat
    BY <1>0, JournalType
  <2>2. /\ row'[i].rev \in Nat /\ row[i].rev <= row'[i].rev
        /\ row'[i].status = "pending" => row[i].status = "pending" \/ row[i].rev < row'[i].rev
    BY <1>2, <1>4 DEF Changes
  <2>3. \A j \in Item : j # i => row'[j] = row[j]
    BY DEF Serves
  <2> QED
    BY <2>1, <2>2, <2>3 DEF Moved
<1>8. /\ request'[n] = NoRequest \/
                 /\ request'[n].op = request[n].op /\ request'[n].items = request[n].items
                 /\ request'[n].revs = request[n].revs /\ request'[n].undos = request[n].undos
                 /\ request'[n].todo = request[n].todo \ {i}
                 /\ request'[n].done = request[n].done \cup d
      /\ Open(n) => /\ request'[n].op = request[n].op /\ request'[n].items = request[n].items
                    /\ request'[n].revs = request[n].revs
                    /\ request'[n].todo = request[n].todo \ {i}
                    /\ request'[n].done = request[n].done \cup d
      /\ Open(n) => \/ request'[n].at = "sent" /\ request'[n].todo # {}
                    \/ request'[n].at = "served" /\ request'[n].todo = {}
  BY <1>2, <1>5 DEF Tries
<1> QED
  BY <1>0, <1>1, <1>3, <1>4, <1>5, <1>6, <1>7, <1>8

LEMMA ServeBook ==
    ASSUME BookInv, NEW n \in Job, NEW i \in Item, NEW d \in SUBSET Item, Serves(n, i, d),
           request' \in [Job -> Request],
           row' \in [Item -> [status : {"pending", "answered", "read", "gone"}, rev : Nat]]
    PROVE  BookInv'
<1>0. /\ UNCHANGED <<submitted, started, awaited, journal, shown, rows, page, lastUndo,
                     told, doubt, elsewhere>>
      /\ request[n].at = "sent" /\ i \in request[n].todo
      /\ \A m \in Job : m # n => request'[m] = request[m]
      /\ Changes(n, i, d) /\ \A j \in Item : j # i => row'[j] = row[j]
      /\ Tries(n, i, d)
  BY DEF Serves
<1>1. JournalTypeOK /\ Moved(row, row') /\ \A m : Open(m)' <=> Open(m)
  BY ServesFacts
<1>2. request'[n].at # "queued"
  BY <1>0, NoRequestType DEF Tries
<1>3. JournalTypeOK'
  <2>1. \A m \in Job : (request[m].at = "queued") <=> (m \in started + 1 .. submitted)
    BY <1>1 DEF JournalTypeOK
  <2>2. \A m \in Job : (request'[m].at = "queued") <=> (m \in started' + 1 .. submitted')
    BY <1>0, <1>2, <2>1
  <2> QED
    BY <1>0, <1>1, <2>2 DEF JournalTypeOK
<1>4. \A j : Unsure(j)' <=> Unsure(j)
  BY <1>0 DEF Unsure
<1>5. ASSUME NEW m \in Job
      PROVE  RequestOK(m)'
  <2>1. RequestOK(m) /\ request[m] \in Request
    BY <1>1 DEF BookInv, JournalTypeOK
  <2>2. RequestDated(request[m], row')
    BY <1>1, <2>1, DatedStays DEF RequestOK
  <2>3. CASE m # n
    <3>1. request'[m] = request[m]
      BY <1>0, <2>3
    <3>2. RequestUndos(m, request[m])' /\ RequestPlace(m, request[m])'
      BY <1>0, <1>1, <1>4, <2>1, <3>1 DEF RequestOK, RequestUndos, RequestPlace
    <3> QED
      BY <2>1, <2>2, <3>1, <3>2 DEF RequestOK
  <2>4. CASE m = n /\ request'[n] = NoRequest /\ ~(n = started /\ awaited)
    <3>1. ~Open(n)
      BY <2>4, ServesFacts
    <3>2. RequestShape(NoRequest) /\ RequestDated(NoRequest, row') /\ RequestUndos(n, NoRequest)'
      BY NoRequestType DEF RequestShape, RequestDated, RequestUndos
    <3>3. RequestPlace(n, NoRequest)'
      BY <1>1, <3>1, NoRequestType DEF RequestPlace
    <3> QED
      BY <2>4, <3>2, <3>3 DEF RequestOK
  <2>5. CASE m = n /\ ~(request'[n] = NoRequest /\ ~(n = started /\ awaited))
    <3>1. /\ request'[n].op = request[n].op /\ request'[n].items = request[n].items
          /\ request'[n].revs = request[n].revs /\ request'[n].undos = request[n].undos
          /\ request'[n].todo = request[n].todo \ {i}
          /\ request'[n].done = request[n].done \cup d
          /\ \/ request[n].todo \ {i} # {} /\ request'[n].at = "sent"
             \/ /\ request[n].todo \ {i} = {} /\ n = started /\ awaited
                /\ request'[n].at = "served"
                /\ request'[n].code = "ok" <=> request'[n].done # {}
                /\ request'[n].code = "conflict" =>
                      request[n].op # "bulk" /\ ~Ready(request[n], i)
      BY <1>0, <2>5 DEF Tries
    <3>2. /\ RequestShape(request[n]) /\ RequestUndos(n, request[n]) /\ RequestPlace(n, request[n])
      BY <2>1, <2>5 DEF RequestOK
    <3>3. RequestShape(request[n])'
      <4>1. /\ request[n].items # {} /\ request[n].todo \cup request[n].done \subseteq request[n].items
            /\ request[n].todo \cap request[n].done = {}
            /\ request[n].op # "bulk" => Single(request[n].items)
        BY <1>0, <3>2 DEF RequestShape
      <4>2. d \subseteq {i}
        BY ServesFacts
      <4>3. /\ (request[n].todo \ {i}) \cup (request[n].done \cup d) \subseteq request[n].items
            /\ (request[n].todo \ {i}) \cap (request[n].done \cup d) = {}
        BY <1>0, <4>1, <4>2
      <4> QED
        BY <3>1, <4>1, <4>3 DEF RequestShape
    <3>4. RequestUndos(n, request[n])'
      BY <1>0, <3>1, <3>2 DEF RequestUndos
    <3>5. RequestPlace(n, request[n])'
      BY <1>0, <1>1, <1>4, <3>1, <3>2 DEF RequestPlace, Open
    <3>6. RequestDated(request[n], row)'
      <4>1. ASSUME NEW j \in request'[n].done
            PROVE  /\ Passed(row'[j], request[n].revs[j])
                   /\ request[n].op = "undo" => request[n].revs[j] < row'[j].rev
        <5>1. CASE j \in request[n].done
          BY <5>1, <2>2, <2>5 DEF RequestDated
        <5>2. CASE j \notin request[n].done
          <6>1. j \in d
            BY <3>1, <5>2
          <6>2. j = i /\ Ready(request[n], i) /\ row[i].rev \in Nat
            BY <6>1, <1>0, ServesFacts DEF Changes
          <6>3. CASE request[n].op # "undo"
            BY <6>1, <6>2, <6>3, <1>0 DEF Changes, Passed
          <6>4. CASE request[n].op = "undo"
            <7>1. row'[i].rev = row[i].rev + 1 /\ request[n].revs[i] = row[i].rev
              BY <6>1, <6>2, <6>4, <1>0 DEF Changes, Ready
            <7> QED
              BY <6>2, <7>1 DEF Passed
          <6> QED
            BY <6>3, <6>4
        <5> QED
          BY <5>1, <5>2
      <4> QED
        BY <4>1, <1>0, <2>2, <2>5, <3>1 DEF RequestDated
    <3> QED
      BY <2>5, <3>3, <3>4, <3>5, <3>6 DEF RequestOK
  <2> QED
    BY <2>3, <2>4, <2>5
<1>6. \A m \in Job : Open(m) => /\ request'[m].op = request[m].op /\ request'[m].items = request[m].items
                                /\ request'[m].revs = request[m].revs
  <2>1. Open(n) => /\ request'[n].op = request[n].op /\ request'[n].items = request[n].items
                   /\ request'[n].revs = request[n].revs
    BY ServesFacts
  <2> QED
    BY <1>0, <2>1
<1>7. \A m \in Job : OpenIsQueued(m)'
  BY <1>0, <1>1, <1>6 DEF BookInv, OpenIsQueued
<1>8. /\ \A m \in DOMAIN journal' : RecordOK(m)'
      /\ \A m \in DOMAIN shown' : ShownOK(m)'
      /\ UndosOK' /\ RowsOK' /\ (awaited' => started' > 0)
  BY <1>0, <1>1, <1>6, BookMoved
<1> QED
  BY <1>3, <1>5, <1>7, <1>8 DEF BookInv

LEMMA ServeOrder ==
    ASSUME BookInv, OrderInv, NEW n \in Job, NEW i \in Item, NEW d \in SUBSET Item, Serves(n, i, d)
    PROVE  OrderInv'
<1>0. /\ UNCHANGED <<submitted, started, awaited, journal, shown, rows, page, lastUndo,
                     told, doubt, elsewhere>>
      /\ \A m \in Job : m # n => request'[m] = request[m]
      /\ Changes(n, i, d)
  BY DEF Serves
<1>1. \A m : Open(m)' <=> Open(m)
  BY ServesFacts
<1>2. \A m \in Job : Open(m) => /\ request'[m].op = request[m].op /\ request'[m].items = request[m].items
                                /\ request'[m].revs = request[m].revs
  <2>1. Open(n) => /\ request'[n].op = request[n].op /\ request'[n].items = request[n].items
                   /\ request'[n].revs = request[n].revs
    BY ServesFacts
  <2> QED
    BY <1>0, <2>1
<1>3. \A j : (Behind(j)' <=> Behind(j)) /\ (Sure(j)' <=> Sure(j)) /\ Projected(j)' = Projected(j)
  BY <1>0 DEF Behind, Settled, Sure, Unsure, Projected
<1>4. SettledIsShown' /\ ShownIsCurrent' /\ Supersedes(shown)' /\ Supersedes(journal)'
  BY <1>0, <1>3 DEF OrderInv, SettledIsShown, ShownIsCurrent, Supersedes
<1>5. FirstCome' /\ SameView'
  BY <1>1, <1>2 DEF OrderInv, FirstCome, SameView
<1>6. Unshown'
  BY <1>0, <1>1, <1>2, <1>3 DEF OrderInv, Unshown
<1>7. BulkStays'
  <2> SUFFICES ASSUME NEW m \in DOMAIN journal, journal[m].op = "bulk", journal[m].status = "succeeded",
                      NEW j \in Items(journal[m])
               PROVE  /\ \A k \in Job : (Open(k)' /\ j \in request'[k].items) =>
                            /\ request'[k].op = "bulk" /\ request'[k].revs[j] = journal[m].revs[j]
                            /\ j \notin request'[k].done
                      /\ \A u \in lastUndo' : u[1] # j
    BY <1>0 DEF BulkStays
  <2>1. /\ \A k \in Job : (Open(k) /\ j \in request[k].items) =>
                            /\ request[k].op = "bulk" /\ request[k].revs[j] = journal[m].revs[j]
                            /\ j \notin request[k].done
        /\ \A u \in lastUndo : u[1] # j
    BY DEF OrderInv, BulkStays
  <2>2. ASSUME Open(n), j \in request[n].items
        PROVE  j \notin request'[n].done
    <3> SUFFICES ASSUME j \in d PROVE FALSE
      BY <2>1, <2>2, ServesFacts
    <3>1. j = i /\ row[i].status = "pending" /\ row[i].rev = request[n].revs[i]
      BY <1>0, <2>1, <2>2 DEF Changes, Ready
    <3>2. Passed(row[j], journal[m].revs[j])
      BY DEF BookInv, RecordOK, RecordDated
    <3>3. journal[m].revs[j] = row[j].rev /\ row[j].rev \in Nat
      BY <2>1, <2>2, <3>1, ServesFacts
    <3> QED
      BY <3>1, <3>2, <3>3 DEF Passed
  <2> QED
    BY <1>0, <1>1, <1>2, <2>1, <2>2
<1> QED
  BY <1>4, <1>5, <1>6, <1>7 DEF OrderInv

LEMMA ServeSure ==
    ASSUME BookInv, OrderInv, SureInv,
           NEW n \in Job, NEW i \in Item, NEW d \in SUBSET Item, Serves(n, i, d)
    PROVE  SureInv'
<1>0. /\ UNCHANGED <<submitted, started, awaited, journal, shown, rows, page, lastUndo,
                     told, doubt, elsewhere>>
      /\ request[n].at = "sent" /\ i \in request[n].todo
      /\ \A m \in Job : m # n => request'[m] = request[m]
      /\ Changes(n, i, d) /\ \A j \in Item : j # i => row'[j] = row[j]
  BY DEF Serves
<1>1. /\ \A m : Open(m)' <=> Open(m)
      /\ Open(n) => n = started /\ awaited
      /\ i \notin request[n].done /\ i \in request[n].items
      /\ d \subseteq {i} /\ row[i].rev \in Nat /\ request[n].revs[i] \in Nat
      /\ Open(n) => /\ request'[n].op = request[n].op /\ request'[n].items = request[n].items
                    /\ request'[n].revs = request[n].revs
                    /\ request'[n].todo = request[n].todo \ {i}
                    /\ request'[n].done = request[n].done \cup d
  BY ServesFacts
<1>2. awaited => started \in Job /\ Open(started)
  BY AwaitedJob
<1> SUFFICES ASSUME NEW j \in Item, Sure(j)'
             PROVE  SureOK(j)'
  BY DEF SureInv
<1>3. Sure(j) /\ SureOK(j)
  BY <1>0 DEF Sure, Unsure, SureInv
<1>4. \A m : Changed(m, j)' <=> Changed(m, j)
  BY <1>0 DEF Changed
<1>5. awaited => request'[started].op = request[started].op /\ request'[started].revs = request[started].revs
  BY <1>0, <1>1, <1>2
<1>6. \A m \in Job : Open(m) => /\ request'[m].op = request[m].op
                                /\ request'[m].revs = request[m].revs
                                /\ request'[m].todo \subseteq request[m].todo
  BY <1>0, <1>1
<1>7. CASE j \notin d
  <2>1. row'[j] = row[j]
    BY <1>0, <1>7 DEF Changes
  <2>2. awaited => (j \in request'[started].done <=> j \in request[started].done)
    BY <1>0, <1>1, <1>2, <1>7
  <2>3. (Served(j)' <=> Served(j)) /\ Pending'[j] = Pending[j]
    BY <1>0, <2>1, <2>2 DEF Served, Pending
  <2>4. Known(j)' = Known(j)
    BY <1>0, <1>5, <2>3 DEF Known, Served
  <2>5. Served(j) => request'[started].op = request[started].op /\ request'[started].revs = request[started].revs
    BY <1>5 DEF Served
  <2> QED
    BY <1>0, <1>1, <1>3, <1>4, <1>6, <2>1, <2>3, <2>4, <2>5 DEF SureOK
<1>8. CASE j \in d
  <2>1. j = i /\ d = {i} /\ Ready(request[n], i)
    BY <1>0, <1>1, <1>8 DEF Changes
  <2>2. Open(n)
    BY <1>0, <1>1, <1>3, <2>1 DEF BookInv, RequestOK, RequestPlace, Sure
  <2>3. n = started /\ awaited /\ i \in request'[started].done
    BY <1>1, <2>1, <2>2
  <2>4. ~Served(i) /\ Served(i)'
    BY <1>0, <1>1, <2>3 DEF Served
  <2>5. Known(i) = Pending[i]
    BY <2>4 DEF Known
  <2>6. Known(i)' = IF request[n].op = "undo" THEN 0 ELSE request[n].revs[i]
    <3>1. Known(i)' = IF request'[started'].op = "undo" THEN 0 ELSE request'[started'].revs[i]
      BY <2>4 DEF Known
    <3> QED
      BY <3>1, <1>0, <1>1, <2>2, <2>3
  <2>7. /\ Pending[i] = Known(i)'
        /\ Pending'[i] = IF request[n].op = "undo" THEN row[i].rev + 1 ELSE 0
    <3>1. CASE request[n].op = "undo"
      <4>1. row[i].status = "answered" /\ row'[i].status = "pending" /\ row'[i].rev = row[i].rev + 1
        BY <3>1, <1>0, <2>1 DEF Changes, Ready
      <4> QED
        BY <3>1, <4>1, <2>6 DEF Pending
    <3>2. CASE request[n].op # "undo"
      <4>1. row[i].status = "pending" /\ row'[i].status = "answered" /\ row[i].rev = request[n].revs[i]
        BY <3>2, <1>0, <2>1 DEF Changes, Ready
      <4> QED
        BY <3>2, <4>1, <2>6 DEF Pending
    <3> QED
      BY <3>1, <3>2
  <2>8. row'[i].status \in {"pending", "answered"}
    BY <1>0, <2>1 DEF Changes
  <2>9. /\ row'[i].status = IF request'[started'].op = "undo" THEN "pending" ELSE "answered"
        /\ row'[i].rev = request'[started'].revs[i] + (IF request'[started'].op = "undo" THEN 1 ELSE 0)
    <3>1. started' = n /\ request'[n].op = request[n].op /\ request'[n].revs = request[n].revs
      BY <1>0, <1>1, <2>2, <2>3
    <3>2. CASE request[n].op = "undo"
      BY <3>1, <3>2, <1>0, <2>1 DEF Changes, Ready
    <3>3. CASE request[n].op # "undo"
      <4>1. row'[i].status = "answered" /\ row'[i].rev = request[n].revs[i]
        BY <3>3, <1>0, <2>1 DEF Changes, Ready
      <4> QED
        BY <3>1, <3>3, <4>1, <1>1
    <3> QED
      BY <3>2, <3>3
  <2>10. \A m \in Job : Changed(m, i)' =>
            Known(i)' = IF journal'[m].op = "undo" THEN journal'[m].revs[i] + 1 ELSE 0
    BY <1>0, <1>3, <1>4, <2>1, <2>5, <2>7 DEF SureOK
  <2>11. (\A m \in Job : ~Changed(m, i)') => rows'[i] \in {Known(i)', Pending'[i]}
    BY <1>0, <1>3, <1>4, <2>1, <2>5, <2>7 DEF SureOK
  <2>12. (page'.at = "read" /\ \A m \in Job : Changed(m, i)' => journal'[m].due = "due")
            => page'.rows[i] \in {Known(i)', Pending'[i]}
    BY <1>0, <1>3, <1>4, <2>1, <2>5, <2>7 DEF SureOK
  <2>13. \A u \in lastUndo' : u[1] = i =>
            request'[started'].op = "undo" /\ request'[started'].revs[i] = u[2]
    <3> SUFFICES ASSUME NEW u \in lastUndo, u[1] = i
                 PROVE  request'[started'].op = "undo" /\ request'[started'].revs[i] = u[2]
      BY <1>0
    <3>1. row[i].status = "answered" /\ row[i].rev = u[2]
      BY <1>3, <2>1, <2>4 DEF SureOK
    <3>2. request[n].op = "undo" /\ request[n].revs[i] = u[2]
      BY <3>1, <2>1 DEF Ready
    <3> QED
      BY <3>2, <1>0, <1>1, <2>2, <2>3
  <2>14. ASSUME NEW m \in Job, Open(m)', request'[m].op # "bulk", i \in request'[m].todo
         PROVE  FALSE
    <3>1. m # n
      BY <2>14, <1>1, <2>2
    <3>2. Open(m) /\ request'[m] = request[m]
      BY <2>14, <3>1, <1>0, <1>1
    <3>3. i \in request[m].items
      BY <2>14, <3>2 DEF BookInv, RequestOK, RequestShape, RequestPlace
    <3>4. m < n
      BY <2>14, <3>1, <3>2, <3>3, <1>1, <2>2 DEF OrderInv, FirstCome
    <3>5. m >= started /\ m \in Nat /\ started \in Nat
      BY <3>2, OpenType, ServesFacts, JournalType
    <3> QED
      BY <3>4, <3>5, <2>3
  <2>15. told'[i] <= row'[i].rev
    <3>1. told[i] \in Nat /\ told[i] <= row[i].rev
      BY <1>3, <2>1, ServesFacts, JournalType DEF SureOK
    <3>2. row'[i].rev = row[i].rev \/ row'[i].rev = row[i].rev + 1
      BY <1>0, <2>1 DEF Changes
    <3> QED
      BY <3>1, <3>2, <1>0, <1>1
  <2>16. \A x \in {Known(i)', Pending'[i]} : x > 0 => told'[i] < x
    <3>1. told[i] \in Nat /\ told[i] <= row[i].rev
      BY <1>3, <2>1, ServesFacts, JournalType DEF SureOK
    <3>2. Known(i)' > 0 => told[i] < Known(i)'
      BY <1>3, <2>1, <2>5, <2>7 DEF SureOK
    <3>3. Pending'[i] > 0 => told[i] < Pending'[i]
      BY <3>1, <2>7, <1>1
    <3> QED
      BY <3>2, <3>3, <1>0
  <2> QED
    BY <2>1, <2>4, <2>8, <2>9, <2>10, <2>11, <2>12, <2>13, <2>14, <2>15, <2>16 DEF SureOK
<1> QED
  BY <1>7, <1>8

LEMMA ServePlain ==
    ASSUME BookInv, PlainInv,
           NEW n \in Job, NEW i \in Item, NEW d \in SUBSET Item, Serves(n, i, d)
    PROVE  PlainInv'
<1>0. /\ UNCHANGED <<submitted, started, awaited, journal, shown, rows, page, lastUndo,
                     told, doubt, elsewhere>>
      /\ request[n].at = "sent" /\ i \in request[n].todo
      /\ \A m \in Job : m # n => request'[m] = request[m]
      /\ Changes(n, i, d) /\ \A j \in Item : j # i => row'[j] = row[j]
  BY DEF Serves
<1>1. /\ JournalTypeOK
      /\ \A m : Open(m)' <=> Open(m)
      /\ Open(n) => n = started /\ awaited
      /\ i \notin request[n].done /\ i \in request[n].items
      /\ d \subseteq {i} /\ row[i].rev \in Nat /\ request[n].revs[i] \in Nat
      /\ request'[n] = NoRequest \/
                 /\ request'[n].op = request[n].op /\ request'[n].items = request[n].items
                 /\ request'[n].revs = request[n].revs
      /\ Open(n) => /\ request'[n].op = request[n].op /\ request'[n].items = request[n].items
                    /\ request'[n].revs = request[n].revs
                    /\ request'[n].done = request[n].done \cup d
  BY ServesFacts
<1> SUFFICES ASSUME NEW j \in Item, NEW m \in Job, Plain(j)', Undone(m, j)'
             PROVE  UndoneOK(m, j)'
  BY DEF PlainInv
<1>2. \A k : (Overtakes(k, m, j)' <=> Overtakes(k, m, j)) /\ (InDoubt(k)' <=> InDoubt(k))
  BY <1>0 DEF Overtakes, InDoubt
<1>3. ASSUME NEW k \in Job, request'[k].at # "none"
      PROVE  /\ request[k].at # "none" /\ request'[k].op = request[k].op
             /\ request'[k].items = request[k].items /\ request'[k].revs = request[k].revs
  BY <1>0, <1>1, <1>3, NoRequestType
<1>4. m \in DOMAIN journal /\ journal[m].revs \in [Item -> Nat]
  BY <1>0, <1>1, JournalType DEF Undone
<1>5. CASE Undone(m, j)
  <2>1. UndoneOK(m, j)
    BY <1>0, <1>5 DEF Plain, PlainInv
  <2>2. \/ row'[j].status = "pending" /\ row'[j].rev > journal'[m].revs[j]
        \/ \E k \in Job : Overtakes(k, m, j)' /\ ((Open(k)' /\ j \in request'[k].done) \/ InDoubt(k)')
    <3>1. CASE row[j].status = "pending" /\ row[j].rev > journal[m].revs[j]
      <4>1. CASE j = i /\ d = {i} /\ request[n].op # "undo"
        <5>1. request[n].revs[i] = row[i].rev
          BY <4>1, <1>0 DEF Changes, Ready
        <5>2. request[n].revs[j] > journal[m].revs[j]
          BY <3>1, <4>1, <5>1
        <5>3. Overtakes(n, m, j) /\ (Open(n) \/ InDoubt(n))
          BY <2>1, <4>1, <5>2, <1>0, <1>1 DEF UndoneOK
        <5>4. Open(n) => j \in request'[n].done
          BY <4>1, <1>1
        <5> QED
          BY <5>3, <5>4, <1>1, <1>2
      <4>2. CASE j = i /\ d = {i} /\ request[n].op = "undo"
        <5>1. row'[i].status = "pending" /\ row'[i].rev = row[i].rev + 1
          BY <4>2, <1>0 DEF Changes
        <5> QED
          BY <5>1, <3>1, <4>2, <1>0, <1>1, <1>4
      <4>3. CASE j # i \/ d = {}
        <5>1. row'[j] = row[j]
          BY <4>3, <1>0 DEF Changes
        <5> QED
          BY <5>1, <3>1, <1>0
      <4> QED
        BY <4>1, <4>2, <4>3, <1>0 DEF Changes
    <3>2. CASE \E k \in Job : Overtakes(k, m, j) /\ ((Open(k) /\ j \in request[k].done) \/ InDoubt(k))
      <4>1. PICK k \in Job : Overtakes(k, m, j) /\ ((Open(k) /\ j \in request[k].done) \/ InDoubt(k))
        BY <3>2
      <4>2. (Open(k) /\ j \in request[k].done) => j \in request'[k].done
        BY <1>0, <1>1
      <4> QED
        BY <4>1, <4>2, <1>1, <1>2
    <3> QED
      BY <2>1, <3>1, <3>2 DEF UndoneOK
  <2>3. ASSUME NEW k \in Job, request'[k].at # "none", j \in request'[k].items,
               request'[k].revs[j] > journal'[m].revs[j]
        PROVE  Overtakes(k, m, j)' /\ request'[k].op # "undo" /\ (Open(k)' \/ InDoubt(k)')
    BY <2>1, <2>3, <1>0, <1>1, <1>2, <1>3 DEF UndoneOK
  <2> QED
    BY <2>1, <2>2, <2>3, <1>0 DEF UndoneOK
<1>6. CASE ~Undone(m, j)
  <2>1. m = n /\ j = i /\ d = {i} /\ Open(n) /\ journal[n].op = "undo" /\ i \in journal[n].items
    BY <1>0, <1>1, <1>6 DEF Undone
  <2>2. request[n].op = "undo" /\ journal[n].revs = request[n].revs
    BY <2>1 DEF BookInv, OpenIsQueued
  <2>3. /\ row[i].rev = request[n].revs[i] /\ row'[i].status = "pending"
        /\ row'[i].rev = row[i].rev + 1
    BY <1>0, <2>1, <2>2 DEF Changes, Ready
  <2>4. row'[j].status = "pending" /\ row'[j].rev > journal'[m].revs[j]
    BY <1>0, <1>1, <2>1, <2>2, <2>3
  <2>5. ASSUME NEW k \in Job, request'[k].at # "none", j \in request'[k].items,
               request'[k].revs[j] > journal'[m].revs[j]
        PROVE  FALSE
    <3>1. request[k].at # "none" /\ j \in request[k].items /\ request[k].revs[j] > row[i].rev
      BY <1>0, <1>3, <2>1, <2>2, <2>3, <2>5
    <3>2. request[k].revs[j] <= row[j].rev
      BY <3>1 DEF BookInv, RequestOK, RequestDated
    <3>3. request[k].revs[j] \in Nat
      BY <1>1, RequestType
    <3> QED
      BY <3>1, <3>2, <3>3, <1>1, <2>1
  <2>6. \A u \in lastUndo' : u[1] = j => u[2] <= journal'[m].revs[j]
    BY <1>0, <2>1, <2>2, <2>3 DEF BookInv, UndosOK
  <2> QED
    BY <2>4, <2>5, <2>6 DEF UndoneOK
<1> QED
  BY <1>5, <1>6

LEMMA ServeConflict ==
    ASSUME BookInv, SureInv, NoSelfConflict,
           NEW n \in Job, NEW i \in Item, NEW d \in SUBSET Item, Serves(n, i, d)
    PROVE  NoSelfConflict'
<1>0. /\ UNCHANGED <<doubt, elsewhere>>
      /\ i \in request[n].todo /\ request[n].at = "sent"
      /\ \A m \in Job : m # n => request'[m] = request[m]
      /\ Tries(n, i, d)
  BY DEF Serves
<1>1. \A j : Unsure(j)' <=> Unsure(j)
  BY <1>0 DEF Unsure
<1>2. ASSUME request'[n].at = "served", request'[n].code = "conflict"
      PROVE  \E j \in request'[n].items : Unsure(j)
  <2>1. /\ n = started /\ awaited /\ request[n].op # "bulk" /\ ~Ready(request[n], i)
        /\ request'[n].items = request[n].items
    BY <1>0, <1>2, NoRequestType DEF Tries
  <2>2. Open(n) /\ i \in request[n].items
    BY <2>1, ServesFacts, AwaitedJob
  <2>3. ~Sure(i)
    BY <1>0, <2>1, <2>2 DEF SureInv, SureOK, Ready
  <2> QED
    BY <2>1, <2>2, <2>3 DEF Sure
<1> QED
  BY <1>0, <1>1, <1>2 DEF NoSelfConflict

LEMMA ServeStep ==
    ASSUME JournalInv, NEW n \in Job, Serve(n)
    PROVE  JournalInv'
<1> USE DEF JournalInv
<1>1. /\ request' \in [Job -> Request]
      /\ row' \in [Item -> [status : {"pending", "answered", "read", "gone"}, rev : Nat]]
  BY ServeFacts
<1>2. \E i \in request[n].todo, d \in SUBSET Item : Serves(n, i, d)
  BY ServeFacts DEF Serves, Changes
<1>3. PICK i \in request[n].todo, d \in SUBSET Item : Serves(n, i, d)
  BY <1>2
<1>4. i \in Item
  BY RequestType DEF BookInv
<1> QED
  BY <1>1, <1>3, <1>4, ServeBook, ServeOrder, ServeSure, ServePlain, ServeConflict

---------------------------------------------------------------------------
(* Sending, and reading the page                                           *)

LEMMA SendStep ==
    ASSUME JournalInv, Send
    PROVE  JournalInv'
<1>0. JournalTypeOK /\ ~awaited
  BY DEF JournalInv, BookInv, Send
<1>1. submitted \in Nat /\ started \in Nat /\ started < submitted /\ submitted <= MaxJobs /\ MaxJobs \in Nat
  BY <1>0, JournalType, JournalAssumption DEF Send
<1> PICK n \in Job : n = started + 1
  BY <1>1 DEF Job
<1>2. /\ started' = n /\ awaited' = TRUE
      /\ UNCHANGED <<row, submitted, journal, shown, rows, page, lastUndo, told, doubt, elsewhere>>
  BY DEF Send, history
<1>3. /\ request' \in [Job -> Request] /\ \A m \in Job : m # n => request'[m] = request[m]
      /\ request'[n].at = "sent" /\ request'[n].op = request[n].op /\ request'[n].items = request[n].items
      /\ request'[n].revs = request[n].revs /\ request'[n].undos = request[n].undos
      /\ request'[n].todo = request[n].todo /\ request'[n].done = request[n].done
  <2>1. request' = [request EXCEPT ![n].at = "sent"]
    BY DEF Send
  <2>2. request \in [Job -> Request] /\ request[n] \in Request
    BY <1>0 DEF JournalTypeOK
  <2>3. [request[n] EXCEPT !.at = "sent"] \in Request
    BY <2>2 DEF Request
  <2>4. request'[n] = [request[n] EXCEPT !.at = "sent"] /\ \A m \in Job : m # n => request'[m] = request[m]
    BY <2>1, <2>2
  <2>5. request' \in [Job -> Request]
    BY <2>1, <2>2, <2>3
  <2> QED
    BY <2>2, <2>4, <2>5 DEF Request
<1>4. \A m \in Job : (request[m].at = "queued") <=> (m \in started + 1 .. submitted)
  BY <1>0 DEF JournalTypeOK
<1>5. request[n].at = "queued" /\ request[n].done = {} /\ request[n].todo = request[n].items
      /\ request[n].items # {}
  BY <1>1, <1>4 DEF JournalInv, BookInv, RequestOK, RequestShape
<1>6. \A m \in Job : Open(m)' <=> Open(m)
  BY <1>0, <1>1, <1>2 DEF Open, Job
<1>7. Settled' = Settled /\ Settled = started
  BY <1>0, <1>1, <1>2 DEF Settled
<1>8. \A j : Unsure(j)' <=> Unsure(j)
  BY <1>2 DEF Unsure
<1>9. JournalTypeOK'
  <2>1. \A m \in Job : (request'[m].at = "queued") <=> (m \in started' + 1 .. submitted')
    BY <1>1, <1>2, <1>3, <1>4 DEF Job
  <2>2. started' \in 0 .. submitted'
    BY <1>1, <1>2
  <2> QED
    BY <1>0, <1>2, <1>3, <2>1, <2>2 DEF JournalTypeOK
<1>10. ASSUME NEW m \in Job
       PROVE  RequestOK(m)' /\ OpenIsQueued(m)'
  <2>1. RequestOK(m) /\ OpenIsQueued(m)
    BY DEF JournalInv, BookInv
  <2>2. OpenIsQueued(m)'
    BY <2>1, <1>2, <1>3, <1>6 DEF OpenIsQueued
  <2>3. RequestUndos(m, request[m])'
    BY <2>1, <1>2, <1>3 DEF RequestOK, RequestUndos
  <2>4. CASE m # n
    BY <2>1, <2>2, <2>3, <2>4, <1>2, <1>3, <1>6, <1>8 DEF RequestOK, RequestPlace
  <2>5. CASE m = n
    <3>1. RequestShape(request[m])'
      BY <2>1, <2>5, <1>3, <1>5 DEF RequestOK, RequestShape
    <3>2. RequestDated(request[m], row)'
      BY <2>1, <2>5, <1>2, <1>3, <1>5 DEF RequestOK, RequestDated
    <3>3. RequestPlace(m, request[m])'
      BY <2>5, <1>2, <1>3 DEF RequestPlace, Open
    <3> QED
      BY <2>2, <2>3, <3>1, <3>2, <3>3 DEF RequestOK
  <2> QED
    BY <2>4, <2>5
<1>11. ASSUME NEW m \in DOMAIN journal
       PROVE  RecordOK(m)'
  <2>1. RecordOK(m) /\ m \in Job /\ m \in Nat
    BY <1>0, JournalType DEF JournalInv, BookInv, Job
  <2>2. RecordPlace(m, journal[m])'
    BY <2>1, <1>1, <1>2, <1>6 DEF RecordOK, RecordPlace
  <2> QED
    BY <2>1, <2>2, <1>2 DEF RecordOK, RecordDoubt
<1>12. ASSUME NEW m \in DOMAIN shown
       PROVE  ShownOK(m)'
  <2>1. ShownOK(m) /\ m \in Job /\ m \in Nat
    BY <1>0, JournalType DEF JournalInv, BookInv, Job
  <2>2. ShownPlace(m, shown[m])'
    BY <2>1, <1>1, <1>2, <1>3, <1>6, <1>7 DEF ShownOK, ShownPlace
  <2> QED
    BY <2>1, <2>2, <1>2 DEF ShownOK
<1>13. BookInv'
  <2>1. UndosOK' /\ RowsOK' /\ (awaited' => started' > 0)
    BY <1>1, <1>2 DEF JournalInv, BookInv, UndosOK, RowsOK
  <2> QED
    BY <1>2, <1>9, <1>10, <1>11, <1>12, <2>1 DEF BookInv
<1>14. OrderInv'
  <2>1. \A j : (Behind(j)' <=> Behind(j)) /\ (Sure(j)' <=> Sure(j)) /\ Projected(j)' = Projected(j)
    BY <1>2, <1>7, <1>8 DEF Behind, Sure, Projected
  <2>2. \A m \in Job : /\ request'[m].op = request[m].op /\ request'[m].items = request[m].items
                       /\ request'[m].revs = request[m].revs /\ request'[m].done = request[m].done
    BY <1>3
  <2>3. SettledIsShown' /\ ShownIsCurrent' /\ Supersedes(shown)' /\ Supersedes(journal)'
    BY <1>2, <2>1 DEF JournalInv, OrderInv, SettledIsShown, ShownIsCurrent, Supersedes
  <2>4. FirstCome' /\ SameView'
    BY <1>6, <2>2 DEF JournalInv, OrderInv, FirstCome, SameView
  <2>5. Unshown'
    BY <1>2, <1>6, <2>1, <2>2 DEF JournalInv, OrderInv, Unshown
  <2>6. BulkStays'
    BY <1>2, <1>6, <2>2 DEF JournalInv, OrderInv, BulkStays
  <2> QED
    BY <2>3, <2>4, <2>5, <2>6 DEF OrderInv
<1>15. SureInv'
  <2> SUFFICES ASSUME NEW j \in Item, Sure(j)'
               PROVE  SureOK(j)'
    BY DEF SureInv
  <2>1. Sure(j) /\ SureOK(j)
    BY <1>8 DEF Sure, JournalInv, SureInv
  <2>2. ~Served(j) /\ ~Served(j)' /\ Pending' = Pending
    BY <1>0, <1>2, <1>3, <1>5 DEF Served, Pending
  <2>3. Known(j)' = Known(j)
    BY <2>2 DEF Known
  <2>4. \A m : Changed(m, j)' <=> Changed(m, j)
    BY <1>2 DEF Changed
  <2>5. \A m \in Job : /\ request'[m].op = request[m].op /\ request'[m].todo = request[m].todo
                       /\ request'[m].revs = request[m].revs
    BY <1>3
  <2> QED
    BY <2>1, <2>2, <2>3, <2>4, <2>5, <1>2, <1>6 DEF SureOK
<1>16. PlainInv'
  <2> SUFFICES ASSUME NEW j \in Item, NEW m \in Job, Plain(j)', Undone(m, j)'
               PROVE  UndoneOK(m, j)'
    BY DEF PlainInv
  <2>0. \A k \in Job : /\ request'[k].op = request[k].op /\ request'[k].items = request[k].items
                       /\ request'[k].revs = request[k].revs /\ request'[k].done = request[k].done
                       /\ request'[k].at # "none" => request[k].at # "none"
    BY <1>3, <1>5
  <2>1. Plain(j) /\ Undone(m, j)
    BY <1>2, <1>6, <2>0 DEF Plain, Undone
  <2>2. UndoneOK(m, j)
    BY <2>1 DEF JournalInv, PlainInv
  <2>3. \A k : /\ Overtakes(k, m, j)' <=> Overtakes(k, m, j)
               /\ InDoubt(k)' <=> InDoubt(k)
    BY <1>2 DEF Overtakes, InDoubt
  <2> QED
    BY <2>0, <2>2, <2>3, <1>2, <1>6 DEF UndoneOK
<1>17. NoSelfConflict'
  BY <1>3, <1>8 DEF JournalInv, NoSelfConflict
<1> QED
  BY <1>13, <1>14, <1>15, <1>16, <1>17 DEF JournalInv

LEMMA LoadStep ==
    ASSUME JournalInv, Load
    PROVE  JournalInv'
<1>0. JournalTypeOK
  BY DEF JournalInv, BookInv
<1>1. /\ UNCHANGED <<row, submitted, started, awaited, request, journal, shown, rows, lastUndo,
                     told, doubt, elsewhere>>
  BY DEF Load, history
<1>2. Pending \in [Item -> Nat] /\ \A i \in Item : Pending[i] <= row[i].rev
  <2>1. \A i \in Item : row[i].rev \in Nat
    BY <1>0, JournalType
  <2> QED
    BY <2>1 DEF Pending
<1>3. /\ page' \in [at : {"idle", "asked", "read"}, rows : [Item -> Nat], again : BOOLEAN]
      /\ page'.at = "read" /\ page'.rows = Pending
  <2>1. page \in [at : {"idle", "asked", "read"}, rows : [Item -> Nat], again : BOOLEAN]
    BY <1>0 DEF JournalTypeOK
  <2>2. page' = [page EXCEPT !.at = "read", !.rows = Pending]
    BY DEF Load
  <2> HIDE DEF Pending
  <2> QED
    BY <1>2, <2>1, <2>2
<1>4. \A m : Open(m)' <=> Open(m)
  BY <1>1 DEF Open
<1>5. BookInv'
  <2>1. JournalTypeOK'
    BY <1>0, <1>1, <1>3 DEF JournalTypeOK
  <2>2. \A m \in Job : RequestOK(m)' /\ OpenIsQueued(m)'
    BY <1>1, <1>4 DEF JournalInv, BookInv, RequestOK, RequestUndos, RequestPlace, OpenIsQueued, Unsure
  <2>3. \A m \in DOMAIN journal' : RecordOK(m)'
    <3> SUFFICES ASSUME NEW m \in DOMAIN journal
                 PROVE  RecordOK(m)'
      BY <1>1
    <3>1. RecordOK(m)
      BY DEF JournalInv, BookInv
    <3>2. RecordPlace(m, journal[m])'
      BY <3>1, <1>1, <1>3, <1>4 DEF RecordOK, RecordPlace
    <3> QED
      BY <3>1, <3>2, <1>1 DEF RecordOK, RecordDoubt
  <2>4. \A m \in DOMAIN shown' : ShownOK(m)'
    <3> SUFFICES ASSUME NEW m \in DOMAIN shown
                 PROVE  ShownOK(m)'
      BY <1>1
    <3>1. ShownOK(m) /\ Settled' = Settled
      BY <1>1 DEF JournalInv, BookInv, Settled
    <3> QED
      BY <3>1, <1>1, <1>4 DEF ShownOK, ShownPlace
  <2>5. UndosOK' /\ RowsOK' /\ (awaited' => started' > 0)
    BY <1>1, <1>2, <1>3 DEF JournalInv, BookInv, UndosOK, RowsOK
  <2> QED
    BY <2>1, <2>2, <2>3, <2>4, <2>5 DEF BookInv
<1>6. OrderInv'
  <2>1. \A j : (Behind(j)' <=> Behind(j)) /\ (Sure(j)' <=> Sure(j)) /\ Projected(j)' = Projected(j)
    BY <1>1 DEF Behind, Settled, Sure, Unsure, Projected
  <2>3. SettledIsShown' /\ ShownIsCurrent' /\ Supersedes(shown)' /\ Supersedes(journal)'
    BY <1>1, <2>1 DEF JournalInv, OrderInv, SettledIsShown, ShownIsCurrent, Supersedes
  <2>4. FirstCome' /\ SameView'
    BY <1>1, <1>4 DEF JournalInv, OrderInv, FirstCome, SameView
  <2>5. Unshown'
    BY <1>1, <1>4, <2>1 DEF JournalInv, OrderInv, Unshown
  <2>6. BulkStays'
    BY <1>1, <1>4 DEF JournalInv, OrderInv, BulkStays
  <2> QED
    BY <2>3, <2>4, <2>5, <2>6 DEF OrderInv
<1>7. SureInv'
  <2> SUFFICES ASSUME NEW j \in Item, Sure(j)'
               PROVE  SureOK(j)'
    BY DEF SureInv
  <2>1. Sure(j) /\ SureOK(j)
    BY <1>1 DEF Sure, Unsure, JournalInv, SureInv
  <2>2. (Served(j)' <=> Served(j)) /\ Pending' = Pending
    BY <1>1 DEF Served, Pending
  <2>3. Known(j)' = Known(j)
    BY <1>1, <2>2 DEF Known
  <2>4. \A m : Changed(m, j)' <=> Changed(m, j)
    BY <1>1 DEF Changed
  <2>5. page'.rows[j] \in {Known(j)', Pending'[j]}
    BY <1>3, <2>2
  <2> QED
    BY <2>1, <2>2, <2>3, <2>4, <2>5, <1>1, <1>4 DEF SureOK
<1>8. PlainInv'
  <2> SUFFICES ASSUME NEW j \in Item, NEW m \in Job, Plain(j)', Undone(m, j)'
               PROVE  UndoneOK(m, j)'
    BY DEF PlainInv
  <2>1. Plain(j) /\ Undone(m, j)
    BY <1>1, <1>4 DEF Plain, Undone
  <2>2. UndoneOK(m, j)
    BY <2>1 DEF JournalInv, PlainInv
  <2>3. \A k : /\ Overtakes(k, m, j)' <=> Overtakes(k, m, j)
               /\ InDoubt(k)' <=> InDoubt(k)
    BY <1>1 DEF Overtakes, InDoubt
  <2> QED
    BY <2>2, <2>3, <1>1, <1>4 DEF UndoneOK
<1>9. NoSelfConflict'
  BY <1>1 DEF JournalInv, NoSelfConflict, Unsure
<1> QED
  BY <1>5, <1>6, <1>7, <1>8, <1>9 DEF JournalInv

---------------------------------------------------------------------------
(* A confirmation                                                          *)

\* The last submission that was sent is confirmed for the items in done.
Confirms(n) ==
    /\ n = started /\ awaited /\ shown = journal
    /\ request[n].at = "served" /\ request[n].code = "ok"
    /\ awaited' = FALSE
    /\ UNCHANGED <<row, submitted, started, shown, rows, doubt, elsewhere>>
    /\ request'[n] = NoRequest /\ \A m \in Job : m # n => request'[m] = request[m]
    /\ lastUndo' = UndoAfter(request[n])
    /\ told' = [i \in Item |-> IF i \in request[n].done /\ request[n].op # "undo"
                               THEN request[n].revs[i] ELSE told[i]]
    /\ page'.at # "idle" /\ page'.rows = page.rows /\ (page'.at = "read" <=> page.at = "read")

\* What becomes of the journal.
Retires(n, done) ==
    /\ n \in DOMAIN journal'
    /\ \A m : m \in DOMAIN journal' <=>
                 m \in DOMAIN journal /\ (m < n => journal[m].items \ done # {})
    /\ journal'[n].op = journal[n].op /\ journal'[n].items = journal[n].items
    /\ journal'[n].revs = journal[n].revs /\ journal'[n].status = "succeeded"
    /\ journal'[n].due = "waiting" /\ Items(journal'[n]) = done
    /\ \A m \in DOMAIN journal' : m < n =>
          /\ journal'[m].op = journal[m].op /\ journal'[m].revs = journal[m].revs
          /\ journal'[m].status = journal[m].status /\ journal'[m].due = journal[m].due
          /\ journal'[m].items = journal[m].items \ done
          /\ Items(journal'[m]) = Items(journal[m]) \ done
    /\ \A m \in DOMAIN journal' : m > n => journal'[m] = journal[m]

LEMMA SucceedFacts ==
    ASSUME BookInv, Succeed
    PROVE  /\ started \in Job /\ Confirms(started)
           /\ request' \in [Job -> Request]
           /\ page' \in [at : {"idle", "asked", "read"}, rows : [Item -> Nat], again : BOOLEAN]
           /\ told' \in [Item -> Nat]
<1>0. JournalTypeOK /\ awaited /\ shown = journal
      /\ request[started].at = "served" /\ request[started].code = "ok"
  BY DEF BookInv, Succeed, Awaited
<1>1. started \in Job
  BY <1>0, AwaitedJob
<1> DEFINE q == request[started]
<1>2. /\ request' = [request EXCEPT ![started] = NoRequest]
      /\ request \in [Job -> Request]
  BY <1>0 DEF Succeed, JournalTypeOK
<1>3. /\ request' \in [Job -> Request] /\ request'[started] = NoRequest
      /\ \A m \in Job : m # started => request'[m] = request[m]
  BY <1>1, <1>2, NoRequestType
<1>4. /\ page' \in [at : {"idle", "asked", "read"}, rows : [Item -> Nat], again : BOOLEAN]
      /\ page'.at # "idle" /\ page'.rows = page.rows /\ (page'.at = "read" <=> page.at = "read")
  <2>1. page \in [at : {"idle", "asked", "read"}, rows : [Item -> Nat], again : BOOLEAN]
    BY <1>0 DEF JournalTypeOK
  <2>2. page' = [page EXCEPT !.again = (page.at # "idle"),
                             !.at = IF @ = "idle" THEN "asked" ELSE @]
    BY DEF Succeed, Refreshed
  <2> QED
    BY <2>1, <2>2
<1>5. told' \in [Item -> Nat]
  <2>1. told' = [i \in Item |-> IF i \in q.done /\ q.op # "undo" THEN q.revs[i] ELSE told[i]]
    BY DEF Succeed
  <2>2. q.revs \in [Item -> Nat] /\ told \in [Item -> Nat]
    BY <1>0, <1>1, RequestType DEF JournalTypeOK
  <2> QED
    BY <2>1, <2>2
<1> QED
  BY <1>0, <1>1, <1>3, <1>4, <1>5 DEF Succeed, Confirms

LEMMA RetireFacts ==
    ASSUME BookInv, NEW n \in DOMAIN journal, NEW done \in SUBSET Item, done \subseteq journal[n].items,
           journal[n].op # "bulk" => done = journal[n].items,
           journal' = [Superseded(journal, n, done) EXCEPT
                    ![n].status = "succeeded", ![n].answered = done, ![n].due = "waiting"]
    PROVE  Retires(n, done) /\ \A m \in DOMAIN journal' : journal'[m] \in Record
<1>0. JournalTypeOK
  BY DEF BookInv
<1>1. /\ n \in Nat
      /\ \A m \in DOMAIN journal : /\ m \in Nat /\ journal[m] \in Record
                                   /\ journal[m].items # {}
  BY <1>0, JournalType DEF Job
<1> DEFINE left(m) == IF m < n THEN journal[m].items \ done ELSE journal[m].items
           D == {k \in DOMAIN journal : left(k) # {}}
           r(m) == [journal[m] EXCEPT !.items = left(m)]
           last == [[[r(n) EXCEPT !.status = "succeeded"] EXCEPT !.answered = done] EXCEPT !.due = "waiting"]
<1>2. Superseded(journal, n, done) = [m \in D |-> r(m)]
  BY DEF Superseded
<1>3. \A m : m \in D <=> m \in DOMAIN journal /\ (m < n => journal[m].items \ done # {})
  BY <1>1
<1>4. n \in D /\ left(n) = journal[n].items
  BY <1>1
<1>5. ASSUME NEW m \in DOMAIN journal
      PROVE  /\ r(m) \in Record /\ r(m).op = journal[m].op /\ r(m).revs = journal[m].revs
             /\ r(m).status = journal[m].status /\ r(m).due = journal[m].due
             /\ r(m).answered = journal[m].answered /\ r(m).items = left(m)
             /\ m > n => r(m) = journal[m]
  <2>1. journal[m] \in Record /\ left(m) \in SUBSET Item
    BY <1>1, RecordType
  <2>2. m > n => left(m) = journal[m].items
    BY <1>1
  <2> HIDE DEF left
  <2> QED
    BY <2>1, <2>2 DEF Record
<1>6. /\ last \in Record /\ last.op = journal[n].op /\ last.revs = journal[n].revs
      /\ last.items = journal[n].items /\ last.status = "succeeded" /\ last.due = "waiting"
      /\ last.answered = done
  <2>1. r(n) \in Record /\ r(n).op = journal[n].op /\ r(n).revs = journal[n].revs /\ r(n).items = journal[n].items
    BY <1>4, <1>5
  <2> HIDE DEF r
  <2> QED
    BY <2>1 DEF Record
<1>7. journal' = [[m \in D |-> r(m)] EXCEPT ![n] = last]
  <2> HIDE DEF D, r, left
  <2>1. journal' = [[m \in D |-> r(m)] EXCEPT
                    ![n].status = "succeeded", ![n].answered = done, ![n].due = "waiting"]
    BY <1>2
  <2> QED
    BY <2>1, <1>4
<1>8. DOMAIN journal' = D /\ journal'[n] = last /\ \A m \in D : m # n => journal'[m] = r(m)
  <2> HIDE DEF D, r, last
  <2> QED
    BY <1>4, <1>7
<1> HIDE DEF D, r, last
<1>9. Items(journal'[n]) = done
  BY <1>6, <1>8 DEF Items
<1>10. ASSUME NEW m \in D, m < n
       PROVE  Items(r(m)) = Items(journal[m]) \ done
  <2>1. m \in DOMAIN journal /\ r(m).items = journal[m].items \ done
    BY <1>3, <1>5, <1>10
  <2> QED
    BY <2>1, <1>5 DEF Items
<1>11. ASSUME NEW m \in DOMAIN journal'
       PROVE  /\ m < n =>
                    /\ journal'[m].op = journal[m].op /\ journal'[m].revs = journal[m].revs
                    /\ journal'[m].status = journal[m].status /\ journal'[m].due = journal[m].due
                    /\ journal'[m].items = journal[m].items \ done
                    /\ Items(journal'[m]) = Items(journal[m]) \ done
              /\ m > n => journal'[m] = journal[m]
              /\ journal'[m] \in Record
  <2>1. m \in D /\ m \in DOMAIN journal /\ m \in Nat
    BY <1>1, <1>3, <1>8
  <2>2. CASE m = n
    BY <1>1, <1>6, <1>8, <2>2
  <2>3. CASE m # n
    <3>1. journal'[m] = r(m)
      BY <1>8, <2>1, <2>3
    <3>2. m < n => Items(r(m)) = Items(journal[m]) \ done
      BY <1>10, <2>1
    <3> QED
      BY <1>5, <2>1, <3>1, <3>2
  <2> QED
    BY <2>2, <2>3
<1> QED
  BY <1>3, <1>4, <1>6, <1>8, <1>9, <1>11 DEF Retires

LEMMA AtMostOne ==
    ASSUME NEW S, \A u, v \in S : u = v
    PROVE  Cardinality(S) <= 1
<1>1. CASE S = {}
  BY <1>1, FS_EmptySet
<1>2. CASE S # {}
  <2>1. PICK u \in S : TRUE
    BY <1>2
  <2>2. S = {u}
    BY <2>1
  <2>3. Cardinality({u}) = 1
    BY FS_Singleton
  <2> QED
    BY <2>2, <2>3
<1> QED
  BY <1>1, <1>2

\* What the following lemmas use of a confirmation.
LEMMA ConfirmsFacts ==
    ASSUME BookInv, NEW n \in Job, Confirms(n)
    PROVE  /\ JournalTypeOK /\ n \in Nat /\ Open(n)
           /\ n \in DOMAIN journal /\ journal[n].status = "queued"
           /\ journal[n].op = request[n].op /\ journal[n].items = request[n].items
           /\ journal[n].revs = request[n].revs
           /\ request[n].done # {} /\ request[n].done \subseteq request[n].items
           /\ request[n].done \in SUBSET Item /\ request[n].todo = {}
           /\ request[n].op # "bulk" => request[n].done = request[n].items
           /\ \A m \in Job : Open(m)' <=> Open(m) /\ m # n
           /\ \A m \in Job : Open(m) /\ m # n => m \in Nat /\ m > n /\ request[m].at = "queued"
           /\ Settled' = n
           /\ \A i : (Sure(i)' <=> Sure(i)) /\ (Unsure(i)' <=> Unsure(i)) /\ Projected(i)' = Projected(i)
           /\ \A i : Behind(i)' <=> i \in request[n].items
           /\ \A m \in DOMAIN journal : m < n => journal[m].status # "queued"
<1>0. JournalTypeOK /\ n = started /\ awaited /\ shown = journal /\ request[n].at = "served"
      /\ request[n].code = "ok" /\ awaited' = FALSE
      /\ UNCHANGED <<submitted, started, shown, rows, doubt, elsewhere>>
  BY DEF BookInv, Confirms
<1>1. n \in Nat /\ Open(n) /\ n > 0 /\ submitted \in Nat
  BY <1>0, AwaitedJob, JournalType
<1>2. /\ n \in DOMAIN journal /\ journal[n].status = "queued"
      /\ journal[n].op = request[n].op /\ journal[n].items = request[n].items
      /\ journal[n].revs = request[n].revs
  BY <1>1 DEF BookInv, OpenIsQueued
<1>3. /\ request[n].done # {} /\ request[n].done \subseteq request[n].items
      /\ request[n].todo = {} /\ request[n].done \in SUBSET Item
      /\ request[n].op # "bulk" => Single(request[n].items)
  BY <1>0, RequestType DEF BookInv, RequestOK, RequestShape
<1>4. request[n].op # "bulk" => request[n].done = request[n].items
  BY <1>3 DEF Single
<1>5. \A m \in Job : Open(m)' <=> Open(m) /\ m # n
  BY <1>0, <1>1 DEF Open
<1>6. \A m \in Job : Open(m) /\ m # n => m \in Nat /\ m > n /\ request[m].at = "queued"
  BY <1>0, <1>1 DEF Open, JournalTypeOK
<1>7. Settled' = n
  BY <1>0 DEF Settled
<1>8. \A i : (Sure(i)' <=> Sure(i)) /\ (Unsure(i)' <=> Unsure(i)) /\ Projected(i)' = Projected(i)
  BY <1>0 DEF Sure, Unsure, Projected
<1>9. \A i : Behind(i)' <=> i \in request[n].items
  BY <1>0, <1>2, <1>7 DEF Behind
<1>10. ASSUME NEW m \in DOMAIN journal, m < n
       PROVE  journal[m].status # "queued"
  <2>1. m \in Job /\ RecordPlace(m, journal[m])
    BY <1>0, JournalType DEF BookInv, RecordOK
  <2>2. ~Open(m)
    BY <1>6, <1>10, <2>1, <1>1 DEF Job
  <2> QED
    BY <2>1, <2>2 DEF RecordPlace
<1> QED
  BY <1>0, <1>1, <1>2, <1>3, <1>4, <1>5, <1>6, <1>7, <1>8, <1>9, <1>10

LEMMA SucceedUndo ==
    ASSUME BookInv, NEW n \in Job, Confirms(n)
    PROVE  /\ request[n].op = "bulk" => lastUndo' = {}
           /\ request[n].op = "undo" =>
                 /\ lastUndo' \subseteq lastUndo
                 /\ \A u \in lastUndo : (u[1] \in request[n].items /\ u[2] = request[n].revs[u[1]])
                                           => u \notin lastUndo'
           /\ request[n].op = "answer" =>
                 \A u \in lastUndo' : /\ u[1] \in request[n].done /\ u[2] = request[n].revs[u[1]]
                                      /\ u = <<u[1], u[2]>>
           /\ UndosOK' /\ lastUndo' \subseteq Item \X Nat
<1>0. JournalTypeOK /\ lastUndo' = UndoAfter(request[n]) /\ row' = row
  BY DEF BookInv, Confirms
<1>1. /\ request[n].op \in {"answer", "bulk", "undo"}
      /\ request[n].done \subseteq request[n].items /\ request[n].done \in SUBSET Item
      /\ request[n].revs \in [Item -> Nat]
  BY <1>0, ConfirmsFacts, RequestType DEF Operation
<1>2. request[n].op = "bulk" => lastUndo' = {}
  BY <1>0 DEF UndoAfter
<1>3. ASSUME request[n].op = "undo"
      PROVE  /\ lastUndo' \subseteq lastUndo
             /\ \A u \in lastUndo : (u[1] \in request[n].items /\ u[2] = request[n].revs[u[1]])
                                           => u \notin lastUndo'
  <2>1. lastUndo' = lastUndo \ {<<i, request[n].revs[i]>> : i \in request[n].done}
    BY <1>0, <1>3 DEF UndoAfter
  <2>2. request[n].done = request[n].items
    BY <1>3, ConfirmsFacts
  <2>3. \A u \in lastUndo : u = <<u[1], u[2]>>
    BY <1>0, JournalType
  <2> QED
    BY <2>1, <2>2, <2>3
<1>4. ASSUME request[n].op = "answer"
      PROVE  /\ lastUndo' = {<<i, request[n].revs[i]>> : i \in request[n].done}
             /\ \A u \in lastUndo' : /\ u[1] \in request[n].done /\ u[2] = request[n].revs[u[1]]
                                      /\ u = <<u[1], u[2]>>
             /\ \A u, v \in lastUndo' : u = v
  <2>1. lastUndo' = {<<i, request[n].revs[i]>> : i \in request[n].done}
    BY <1>0, <1>4 DEF UndoAfter
  <2>2. \A u \in lastUndo' : /\ u[1] \in request[n].done /\ u[2] = request[n].revs[u[1]]
                             /\ u = <<u[1], u[2]>>
    BY <2>1
  <2>3. Single(request[n].items)
    BY <1>4 DEF BookInv, RequestOK, RequestShape, Confirms
  <2>4. \A i, j \in request[n].done : i = j
    BY <2>3, <1>1 DEF Single
  <2> QED
    BY <2>1, <2>2, <2>4
<1>5. lastUndo' \subseteq Item \X Nat
  <2>1. lastUndo \subseteq Item \X Nat
    BY <1>0 DEF JournalTypeOK
  <2> QED
    BY <2>1, <1>1, <1>2, <1>3, <1>4
<1>6. ASSUME NEW u \in lastUndo'
      PROVE  u[2] <= row[u[1]].rev /\ Passed(row[u[1]], u[2])
  <2>1. CASE request[n].op = "answer"
    <3>1. u[1] \in request[n].done /\ u[2] = request[n].revs[u[1]] /\ u[1] \in request[n].items
      BY <1>1, <1>4, <2>1
    <3>2. RequestDated(request[n], row) /\ request[n].at # "none"
      BY DEF BookInv, RequestOK, Confirms
    <3> QED
      BY <3>1, <3>2 DEF RequestDated
  <2>2. CASE request[n].op = "undo"
    BY <2>2, <1>3 DEF BookInv, UndosOK
  <2> QED
    BY <1>1, <1>2, <2>1, <2>2
<1>7. \A u, v \in lastUndo' : u = v
  BY <1>1, <1>2, <1>3, <1>4 DEF BookInv, UndosOK
<1>8. UndosOK'
  BY <1>0, <1>6, <1>7 DEF UndosOK
<1> QED
  BY <1>2, <1>3, <1>4, <1>5, <1>8

LEMMA SucceedBook ==
    ASSUME BookInv, OrderInv, NEW n \in Job, Confirms(n), Retires(n, request[n].done),
           \A m \in DOMAIN journal' : journal'[m] \in Record,
           request' \in [Job -> Request], told' \in [Item -> Nat],
           page' \in [at : {"idle", "asked", "read"}, rows : [Item -> Nat], again : BOOLEAN]
    PROVE  BookInv'
<1>0. /\ n = started /\ awaited /\ shown = journal /\ request[n].at = "served"
      /\ awaited' = FALSE /\ UNCHANGED <<row, submitted, started, shown, rows, doubt, elsewhere>>
      /\ request'[n] = NoRequest /\ \A m \in Job : m # n => request'[m] = request[m]
      /\ page'.at # "idle" /\ page'.rows = page.rows /\ (page'.at = "read" <=> page.at = "read")
  BY DEF Confirms
<1> DEFINE done == request[n].done
<1>1. /\ JournalTypeOK /\ n \in Nat /\ Open(n)
      /\ n \in DOMAIN journal /\ journal[n].status = "queued"
      /\ journal[n].op = request[n].op /\ journal[n].items = request[n].items
      /\ journal[n].revs = request[n].revs
      /\ done # {} /\ done \subseteq request[n].items /\ done \in SUBSET Item
      /\ request[n].op # "bulk" => done = request[n].items
      /\ \A m \in Job : Open(m)' <=> Open(m) /\ m # n
      /\ \A m \in Job : Open(m) /\ m # n => m \in Nat /\ m > n /\ request[m].at = "queued"
      /\ Settled' = n
      /\ \A m \in DOMAIN journal : m < n => journal[m].status # "queued"
      /\ \A i : Unsure(i)' <=> Unsure(i)
  BY ConfirmsFacts
<1>2. /\ n \in DOMAIN journal'
      /\ \A m : m \in DOMAIN journal' <=>
                 m \in DOMAIN journal /\ (m < n => journal[m].items \ done # {})
      /\ journal'[n].op = journal[n].op /\ journal'[n].items = journal[n].items
      /\ journal'[n].revs = journal[n].revs /\ journal'[n].status = "succeeded"
      /\ journal'[n].due = "waiting" /\ Items(journal'[n]) = done
      /\ \A m \in DOMAIN journal' : m < n =>
          /\ journal'[m].op = journal[m].op /\ journal'[m].revs = journal[m].revs
          /\ journal'[m].status = journal[m].status /\ journal'[m].due = journal[m].due
          /\ journal'[m].items = journal[m].items \ done
          /\ Items(journal'[m]) = Items(journal[m]) \ done
      /\ \A m \in DOMAIN journal' : m > n => journal'[m] = journal[m]
  BY DEF Retires
<1>3. \A m \in DOMAIN journal' : m \in Job /\ m \in Nat /\ m \in 1 .. submitted /\ m \in DOMAIN journal
  <2>1. \A m \in DOMAIN journal : m \in Job /\ m \in 1 .. submitted
    BY <1>1, JournalType DEF JournalTypeOK
  <2>2. \A m \in DOMAIN journal' : m \in DOMAIN journal
    BY <1>2
  <2> QED
    BY <2>1, <2>2 DEF Job
<1>4. ASSUME NEW m \in DOMAIN journal'
      PROVE  Items(journal'[m]) # {}
  <2>1. Items(journal[m]) # {}
    BY <1>1, <1>3, JournalType
  <2>2. CASE m < n /\ journal[m].op = "bulk" /\ journal[m].status = "succeeded"
    <3>1. \A i \in Items(journal[m]) : i \in request[n].items => i \notin done
      BY <1>1, <1>3, <2>2 DEF OrderInv, BulkStays
    <3>2. \A i \in Items(journal[m]) : i \notin done
      BY <1>1, <3>1
    <3>3. Items(journal'[m]) = Items(journal[m]) \ done
      BY <1>2, <2>2
    <3> QED
      BY <2>1, <3>2, <3>3
  <2>3. CASE m < n /\ ~(journal[m].op = "bulk" /\ journal[m].status = "succeeded")
    <3>1. Items(journal[m]) = journal[m].items
      BY <2>3 DEF Items
    <3> QED
      BY <1>2, <2>3, <3>1
  <2>4. CASE m = n
    BY <1>1, <1>2, <2>4
  <2>5. CASE m > n
    BY <1>2, <2>1, <2>5
  <2> QED
    BY <1>1, <1>3, <2>2, <2>3, <2>4, <2>5
<1>5. UndosOK' /\ lastUndo' \subseteq Item \X Nat /\ Cardinality(lastUndo') <= 1
  <2>1. UndosOK' /\ lastUndo' \subseteq Item \X Nat
    BY SucceedUndo
  <2>2. \A u, v \in lastUndo' : u = v
    BY <2>1 DEF UndosOK
  <2> QED
    BY <2>1, <2>2, AtMostOne
<1>6. JournalTypeOK'
  <2>1. \A m \in Job : (request'[m].at = "queued") <=> (m \in started' + 1 .. submitted')
    <3>1. \A m \in Job : (request[m].at = "queued") <=> (m \in started + 1 .. submitted)
      BY <1>1 DEF JournalTypeOK
    <3> QED
      BY <1>0, <1>1, <3>1, NoRequestType
  <2>2. DOMAIN journal' \subseteq 1 .. submitted'
    BY <1>0, <1>3
  <2> QED
    BY <1>0, <1>1, <1>4, <1>5, <2>1, <2>2 DEF JournalTypeOK
<1>7. ASSUME NEW m \in Job
      PROVE  RequestOK(m)' /\ OpenIsQueued(m)'
  <2>1. RequestOK(m) /\ OpenIsQueued(m)
    BY DEF BookInv
  <2>2. CASE m = n
    <3>1. RequestShape(NoRequest) /\ RequestDated(NoRequest, row') /\ RequestUndos(n, NoRequest)'
      BY NoRequestType DEF RequestShape, RequestDated, RequestUndos
    <3>2. RequestPlace(n, NoRequest)' /\ ~Open(n)'
      BY <1>1, NoRequestType DEF RequestPlace
    <3> QED
      BY <1>0, <2>2, <3>1, <3>2 DEF RequestOK, OpenIsQueued
  <2>3. CASE m # n
    <3>1. request'[m] = request[m]
      BY <1>0, <2>3
    <3>2. RequestUndos(m, request[m])'
      <4>1. \A u \in request[m].undos : u \in DOMAIN journal' =>
               u \in DOMAIN journal /\ journal'[u].op = journal[u].op /\ journal'[u].items \subseteq journal[u].items
        BY <1>1, <1>2, <1>3
      <4> QED
        BY <1>0, <2>1, <3>1, <4>1 DEF RequestOK, RequestUndos
    <3>3. RequestPlace(m, request[m])'
      BY <1>1, <2>1, <2>3, <3>1 DEF RequestOK, RequestPlace
    <3>4. OpenIsQueued(m)'
      <4> SUFFICES ASSUME Open(m)' PROVE OpenIsQueued(m)'
        BY DEF OpenIsQueued
      <4>1. Open(m) /\ m > n /\ m \in Nat /\ m \in DOMAIN journal
        BY <1>1, <2>1, <2>3 DEF OpenIsQueued
      <4>2. m \in DOMAIN journal'
        BY <1>1, <1>2, <4>1
      <4>3. journal'[m] = journal[m]
        BY <1>2, <4>1, <4>2
      <4> QED
        BY <2>1, <3>1, <4>1, <4>2, <4>3 DEF OpenIsQueued
    <3> QED
      BY <1>0, <2>1, <3>1, <3>2, <3>3, <3>4 DEF RequestOK
  <2> QED
    BY <2>2, <2>3
<1>8. ASSUME NEW m \in DOMAIN journal'
      PROVE  RecordOK(m)'
  <2>1. RecordOK(m) /\ m \in Job /\ m \in Nat /\ journal[m].items \in SUBSET Item
    BY <1>1, <1>3, JournalType DEF BookInv
  <2>2. CASE m = n
    <3>1. RequestDated(request[n], row) /\ request[n].at # "none"
      BY <1>0 DEF BookInv, RequestOK
    <3>2. RecordDated(journal[n], row)'
      BY <1>0, <1>1, <1>2, <3>1 DEF RequestDated, RecordDated
    <3>3. RecordPlace(n, journal[n])'
      BY <1>0, <1>1, <1>2, <2>1, <2>2 DEF RecordOK, RecordPlace
    <3>4. RecordDoubt(journal[n])'
      BY <1>2 DEF RecordDoubt
    <3> QED
      BY <2>2, <3>2, <3>3, <3>4 DEF RecordOK
  <2>3. CASE m < n
    <3>1. /\ journal'[m].op = journal[m].op /\ journal'[m].revs = journal[m].revs
          /\ journal'[m].status = journal[m].status /\ journal'[m].due = journal[m].due
          /\ journal'[m].items = journal[m].items \ done
          /\ Items(journal'[m]) = Items(journal[m]) \ done
      BY <1>2, <2>3
    <3>2. RecordDated(journal[m], row)'
      BY <1>0, <2>1, <3>1 DEF RecordOK, RecordDated
    <3>3. RecordPlace(m, journal[m])'
      <4>1. journal[m].items \ done # {}
        BY <1>2, <2>3
      <4>2. Single(journal[m].items) => Single(journal'[m].items)
        BY <3>1, <4>1 DEF Single
      <4> QED
        BY <1>0, <1>1, <1>3, <2>1, <2>3, <3>1, <4>2 DEF RecordOK, RecordPlace
    <3>4. RecordDoubt(journal[m])'
      BY <1>0, <2>1, <3>1 DEF RecordOK, RecordDoubt
    <3> QED
      BY <3>2, <3>3, <3>4 DEF RecordOK
  <2>4. CASE m > n
    <3>1. journal'[m] = journal[m] /\ m # n
      BY <1>1, <1>2, <2>1, <2>4
    <3>2. RecordPlace(m, journal[m])'
      BY <1>0, <1>1, <2>1, <3>1 DEF RecordOK, RecordPlace
    <3> QED
      BY <1>0, <2>1, <3>1, <3>2 DEF RecordOK, RecordDoubt
  <2> QED
    BY <1>1, <2>1, <2>2, <2>3, <2>4
<1>9. ASSUME NEW m \in DOMAIN shown'
      PROVE  ShownOK(m)'
  <2>1. ShownOK(m) /\ m \in Job /\ m \in DOMAIN journal /\ RecordOK(m) /\ m \in DOMAIN shown
    BY <1>0, <1>1, JournalType DEF BookInv
  <2>2. shown'[m] = shown[m]
    BY <1>0
  <2>3. shown[m].status = "queued" => Open(m)
    BY <1>0, <2>1 DEF RecordOK, RecordPlace
  <2>4. ShownPlace(m, shown[m])'
    BY <1>0, <1>1, <2>1, <2>2, <2>3 DEF ShownOK, ShownPlace
  <2>5. m \in DOMAIN journal' => journal'[m].op = journal[m].op
    BY <1>1, <1>2, <1>3
  <2> QED
    BY <1>0, <2>1, <2>2, <2>4, <2>5 DEF ShownOK
<1>10. RowsOK'
  BY <1>0 DEF BookInv, RowsOK
<1> QED
  BY <1>0, <1>5, <1>6, <1>7, <1>8, <1>9, <1>10 DEF BookInv

LEMMA SucceedOrder ==
    ASSUME BookInv, OrderInv, NEW n \in Job, Confirms(n), Retires(n, request[n].done)
    PROVE  OrderInv'
<1>0. /\ n = started /\ shown = journal
      /\ UNCHANGED <<row, submitted, started, shown, rows, doubt, elsewhere>>
      /\ \A m \in Job : m # n => request'[m] = request[m]
  BY DEF Confirms
<1> DEFINE done == request[n].done
<1>1. /\ JournalTypeOK /\ n \in Nat /\ Open(n)
      /\ n \in DOMAIN journal /\ journal[n].status = "queued"
      /\ journal[n].op = request[n].op /\ journal[n].items = request[n].items
      /\ journal[n].revs = request[n].revs
      /\ done \subseteq request[n].items
      /\ \A m \in Job : Open(m)' <=> Open(m) /\ m # n
      /\ \A m \in Job : Open(m) /\ m # n => m \in Nat /\ m > n /\ request[m].at = "queued"
      /\ \A i : (Sure(i)' <=> Sure(i)) /\ Projected(i)' = Projected(i)
      /\ \A i : Behind(i)' <=> i \in request[n].items
  BY ConfirmsFacts
<1>2. /\ n \in DOMAIN journal'
      /\ \A m : m \in DOMAIN journal' <=>
                 m \in DOMAIN journal /\ (m < n => journal[m].items \ done # {})
      /\ journal'[n].op = journal[n].op /\ journal'[n].items = journal[n].items
      /\ journal'[n].revs = journal[n].revs /\ journal'[n].status = "succeeded"
      /\ journal'[n].due = "waiting" /\ Items(journal'[n]) = done
      /\ \A m \in DOMAIN journal' : m < n =>
          /\ journal'[m].op = journal[m].op /\ journal'[m].revs = journal[m].revs
          /\ journal'[m].status = journal[m].status /\ journal'[m].due = journal[m].due
          /\ journal'[m].items = journal[m].items \ done
          /\ Items(journal'[m]) = Items(journal[m]) \ done
      /\ \A m \in DOMAIN journal' : m > n => journal'[m] = journal[m]
  BY DEF Retires
<1>3. \A m \in DOMAIN journal : m \in Job /\ m \in Nat
  BY <1>1, JournalType DEF Job
<1>4. ASSUME NEW m \in DOMAIN journal'
      PROVE  /\ m \in DOMAIN journal /\ m \in Job /\ m \in Nat
             /\ journal'[m].items \subseteq journal[m].items
             /\ Items(journal'[m]) \subseteq Items(journal[m])
             /\ journal'[m].op = journal[m].op /\ journal'[m].revs = journal[m].revs
             /\ m # n => journal'[m].status = journal[m].status
             /\ m < n => journal'[m].items = journal[m].items \ done
  <2>1. m \in DOMAIN journal /\ m \in Job /\ m \in Nat
    BY <1>2, <1>3
  <2>2. Items(journal[n]) = journal[n].items
    BY <1>1 DEF Items
  <2> QED
    BY <1>1, <1>2, <2>1, <2>2
<1>5. SettledIsShown'
  <2> SUFFICES ASSUME NEW m \in DOMAIN journal', journal'[m].status # "queued"
               PROVE  m \in DOMAIN shown /\ Items(journal'[m]) \subseteq Items(shown[m])
    BY <1>0 DEF SettledIsShown
  <2> QED
    BY <1>0, <1>4
<1>6. ShownIsCurrent'
  <2> SUFFICES ASSUME NEW m \in DOMAIN shown, NEW i \in Items(shown[m]), Sure(i), i \notin request[n].items
               PROVE  /\ m \in DOMAIN journal' /\ i \in Items(journal'[m])
                      /\ journal'[m].status = shown[m].status /\ journal'[m].revs = shown[m].revs
    BY <1>0, <1>1 DEF ShownIsCurrent
  <2>1. m \in DOMAIN journal /\ m \in Nat /\ i \in Items(journal[m]) /\ i \in journal[m].items /\ i \notin done
    BY <1>0, <1>1, <1>3, ItemsWithin
  <2>2. m # n /\ m \in DOMAIN journal'
    BY <1>1, <1>2, <2>1
  <2> QED
    BY <1>0, <1>1, <1>2, <2>1, <2>2
<1>7. Supersedes(shown)'
  BY <1>0, <1>4 DEF OrderInv, Supersedes
<1>8. Supersedes(journal)'
  <2> SUFFICES ASSUME NEW m \in DOMAIN journal', NEW k \in DOMAIN journal', k < m,
                      journal'[m].status = "succeeded"
               PROVE  Items(journal'[m]) \cap journal'[k].items = {}
    BY DEF Supersedes
  <2>1. CASE m = n
    BY <1>2, <1>4, <2>1
  <2>2. CASE m # n
    <3>1. journal[m].status = "succeeded"
      BY <1>4, <2>2
    <3>2. Items(journal[m]) \cap journal[k].items = {}
      BY <1>4, <3>1 DEF OrderInv, Supersedes
    <3> QED
      BY <1>4, <3>2
  <2> QED
    BY <2>1, <2>2
<1>9. FirstCome' /\ SameView'
  BY <1>0, <1>1 DEF OrderInv, FirstCome, SameView
<1>10. Unshown'
  BY <1>0, <1>1 DEF OrderInv, Unshown
<1>11. BulkStays'
  <2> SUFFICES ASSUME NEW m \in DOMAIN journal', journal'[m].op = "bulk", journal'[m].status = "succeeded",
                      NEW i \in Items(journal'[m])
               PROVE  /\ \A k \in Job : (Open(k)' /\ i \in request'[k].items) =>
                            /\ request'[k].op = "bulk" /\ request'[k].revs[i] = journal'[m].revs[i]
                            /\ i \notin request'[k].done
                      /\ \A u \in lastUndo' : u[1] # i
    BY DEF BulkStays
  <2>1. m \in DOMAIN journal /\ m \in Job /\ journal[m].op = "bulk" /\ i \in Items(journal[m])
        /\ journal'[m].revs = journal[m].revs
    BY <1>4
  <2>2. CASE m # n
    <3>1. journal[m].status = "succeeded"
      BY <1>4, <2>2
    <3>2. /\ \A k \in Job : (Open(k) /\ i \in request[k].items) =>
                  /\ request[k].op = "bulk" /\ request[k].revs[i] = journal[m].revs[i]
                  /\ i \notin request[k].done
          /\ \A u \in lastUndo : u[1] # i
      BY <2>1, <3>1 DEF OrderInv, BulkStays
    <3>3. i \notin done
      BY <1>1, <3>2
    <3>4. \A u \in lastUndo' : u[1] # i
      BY <3>2, <3>3, <1>1, SucceedUndo, RequestType DEF Operation
    <3> QED
      BY <1>0, <1>1, <2>1, <3>2, <3>4
  <2>3. CASE m = n
    <3>1. request[n].op = "bulk" /\ i \in request[n].items /\ journal'[m].revs = request[n].revs
      BY <1>1, <1>2, <2>1, <2>3
    <3>2. lastUndo' = {}
      BY <3>1, SucceedUndo
    <3>3. ASSUME NEW k \in Job, Open(k)', i \in request'[k].items
          PROVE  /\ request'[k].op = "bulk" /\ request'[k].revs[i] = request[n].revs[i]
                 /\ i \notin request'[k].done
      <4>1. Open(k) /\ k # n /\ request'[k] = request[k] /\ k > n /\ k \in Nat
            /\ request[k].at = "queued"
        BY <1>0, <1>1, <3>3
      <4>2. request[k].op = "bulk"
        <5>1. request[k].op # "bulk" => k < n
          BY <1>1, <3>1, <3>3, <4>1 DEF OrderInv, FirstCome
        <5> QED
          BY <1>1, <4>1, <5>1
      <4>3. request[k].revs[i] = request[n].revs[i]
        BY <1>1, <3>1, <3>3, <4>1, <4>2 DEF OrderInv, SameView
      <4>4. request[k].done = {}
        BY <4>1 DEF BookInv, RequestOK, RequestShape
      <4> QED
        BY <4>1, <4>2, <4>3, <4>4
    <3> QED
      BY <3>1, <3>2, <3>3
  <2> QED
    BY <2>2, <2>3
<1> QED
  BY <1>5, <1>6, <1>7, <1>8, <1>9, <1>10, <1>11 DEF OrderInv

LEMMA SucceedSure ==
    ASSUME BookInv, SureInv, NEW n \in Job, Confirms(n), Retires(n, request[n].done)
    PROVE  SureInv'
<1>0. /\ n = started /\ awaited /\ awaited' = FALSE
      /\ UNCHANGED <<row, submitted, started, shown, rows, doubt, elsewhere>>
      /\ \A m \in Job : m # n => request'[m] = request[m]
      /\ page'.rows = page.rows /\ (page'.at = "read" <=> page.at = "read")
      /\ told' = [i \in Item |-> IF i \in request[n].done /\ request[n].op # "undo"
                                 THEN request[n].revs[i] ELSE told[i]]
  BY DEF Confirms
<1> DEFINE done == request[n].done
<1>1. /\ JournalTypeOK /\ n \in Nat /\ n \in DOMAIN journal /\ journal[n].status = "queued"
      /\ journal[n].op = request[n].op /\ journal[n].revs = request[n].revs
      /\ done \subseteq request[n].items
      /\ \A m \in Job : Open(m)' <=> Open(m) /\ m # n
      /\ \A i : Sure(i)' <=> Sure(i)
      /\ request[n].op \in {"answer", "bulk", "undo"}
  BY ConfirmsFacts, RequestType DEF Operation
<1>2. /\ n \in DOMAIN journal'
      /\ \A m : m \in DOMAIN journal' <=>
                 m \in DOMAIN journal /\ (m < n => journal[m].items \ done # {})
      /\ journal'[n].op = journal[n].op /\ journal'[n].revs = journal[n].revs
      /\ journal'[n].status = "succeeded"
      /\ journal'[n].due = "waiting" /\ Items(journal'[n]) = done
      /\ \A m \in DOMAIN journal' : m < n =>
          /\ journal'[m].op = journal[m].op /\ journal'[m].revs = journal[m].revs
          /\ journal'[m].status = journal[m].status /\ journal'[m].due = journal[m].due
          /\ Items(journal'[m]) = Items(journal[m]) \ done
      /\ \A m \in DOMAIN journal' : m > n => journal'[m] = journal[m]
  BY DEF Retires
<1>3. \A m \in DOMAIN journal : /\ m \in Job /\ m \in Nat /\ (journal[m].status = "succeeded" => m <= n)
                                /\ Items(journal[m]) \subseteq journal[m].items
  BY <1>0, <1>1, JournalType DEF BookInv, RecordOK, RecordPlace, Job
<1> SUFFICES ASSUME NEW j \in Item, Sure(j)'
             PROVE  SureOK(j)'
  BY DEF SureInv
<1>4. Sure(j) /\ SureOK(j)
  BY <1>1 DEF SureInv
<1>5. ~Served(j)' /\ (Served(j) <=> j \in done) /\ Pending' = Pending
  BY <1>0 DEF Served, Pending
<1>6. Known(j)' = Pending[j]
  BY <1>5 DEF Known
<1>7. row[j].rev \in Nat /\ told[j] \in Nat /\ request[n].revs[j] \in Nat
  BY <1>1, JournalType, RequestType
<1>8. \A m \in Job : (Open(m)' /\ request'[m].op # "bulk" /\ j \in request'[m].todo) =>
          /\ row'[j].status = IF request'[m].op = "undo" THEN "answered" ELSE "pending"
          /\ row'[j].rev = request'[m].revs[j]
  BY <1>0, <1>1, <1>4 DEF SureOK
<1>9. CASE j \in done
  <2>1. /\ row[j].status = IF request[n].op = "undo" THEN "pending" ELSE "answered"
        /\ row[j].rev = request[n].revs[j] + (IF request[n].op = "undo" THEN 1 ELSE 0)
    BY <1>0, <1>4, <1>5, <1>9 DEF SureOK
  <2>2. Pending[j] = IF request[n].op = "undo" THEN request[n].revs[j] + 1 ELSE 0
    BY <2>1 DEF Pending
  <2>3. ASSUME NEW m \in Job, Changed(m, j)'
        PROVE  m = n
    <3>1. m \in DOMAIN journal' /\ j \in Items(journal'[m]) /\ journal'[m].status = "succeeded"
          /\ m \in Nat /\ m \in DOMAIN journal
      BY <2>3, <1>2, <1>3 DEF Changed
    <3>2. ~(m < n)
      BY <1>2, <1>9, <3>1
    <3>3. ~(m > n)
      BY <1>1, <1>2, <1>3, <3>1
    <3> QED
      BY <1>1, <3>1, <3>2, <3>3
  <2>4. Changed(n, j)' /\ journal'[n].due # "due"
    BY <1>2, <1>9 DEF Changed
  <2>5. \A m \in Job : Changed(m, j)' =>
          Known(j)' = IF journal'[m].op = "undo" THEN journal'[m].revs[j] + 1 ELSE 0
    BY <1>1, <1>2, <1>6, <2>2, <2>3
  <2>6. ASSUME NEW u \in lastUndo', u[1] = j
        PROVE  row[j].status = "answered" /\ row[j].rev = u[2]
    <3>1. CASE request[n].op = "answer"
      BY <1>7, <2>1, <2>6, <3>1, SucceedUndo
    <3>2. CASE request[n].op = "undo"
      <4>1. u \in lastUndo
        BY <2>6, <3>2, SucceedUndo
      <4>2. request[n].revs[j] = u[2]
        BY <1>0, <1>4, <1>5, <1>9, <2>6, <4>1 DEF SureOK
      <4> QED
        BY <1>1, <1>9, <2>6, <3>2, <4>1, <4>2, SucceedUndo
    <3>3. CASE request[n].op = "bulk"
      BY <2>6, <3>3, SucceedUndo
    <3> QED
      BY <1>1, <3>1, <3>2, <3>3
  <2>7. told'[j] <= row[j].rev /\ (Pending[j] > 0 => told'[j] < Pending[j])
    <3>1. told[j] <= row[j].rev /\ (Pending[j] > 0 => told[j] < Pending[j])
      BY <1>4 DEF SureOK
    <3>2. told'[j] = IF request[n].op # "undo" THEN request[n].revs[j] ELSE told[j]
      BY <1>0, <1>9
    <3> QED
      BY <1>7, <2>1, <2>2, <3>1, <3>2
  <2> QED
    BY <1>0, <1>4, <1>5, <1>6, <1>8, <2>4, <2>5, <2>6, <2>7 DEF SureOK
<1>10. CASE j \notin done
  <2>1. Known(j)' = Known(j) /\ told'[j] = told[j]
    BY <1>0, <1>5, <1>6, <1>10 DEF Known
  <2>2. ASSUME NEW m \in Job
        PROVE  /\ Changed(m, j)' <=> Changed(m, j)
               /\ Changed(m, j) => /\ journal'[m].op = journal[m].op /\ journal'[m].revs = journal[m].revs
                                   /\ journal'[m].due = journal[m].due
    <3>1. CASE m = n
      BY <1>1, <1>2, <1>10, <3>1 DEF Changed
    <3>2. CASE m # n
      <4>1. ASSUME m \in DOMAIN journal, j \in Items(journal[m])
            PROVE  m \in DOMAIN journal'
        BY <1>2, <1>3, <1>10, <4>1
      <4>2. m \in DOMAIN journal' =>
               /\ m \in DOMAIN journal /\ (j \in Items(journal'[m]) <=> j \in Items(journal[m]))
               /\ journal'[m].status = journal[m].status
               /\ journal'[m].op = journal[m].op /\ journal'[m].revs = journal[m].revs
               /\ journal'[m].due = journal[m].due
        <5> SUFFICES ASSUME m \in DOMAIN journal'
                     PROVE  /\ m \in DOMAIN journal /\ (j \in Items(journal'[m]) <=> j \in Items(journal[m]))
                            /\ journal'[m].status = journal[m].status
                            /\ journal'[m].op = journal[m].op /\ journal'[m].revs = journal[m].revs
                            /\ journal'[m].due = journal[m].due
          OBVIOUS
        <5>1. m \in DOMAIN journal /\ m \in Nat
          BY <1>2, <1>3
        <5>2. m < n \/ m > n
          BY <1>1, <3>2, <5>1
        <5> QED
          BY <1>2, <1>10, <5>1, <5>2
      <4> QED
        BY <4>1, <4>2 DEF Changed
    <3> QED
      BY <3>1, <3>2
  <2>3. ASSUME NEW u \in lastUndo', u[1] = j
        PROVE  row[j].status = "answered" /\ row[j].rev = u[2]
    <3>1. u \in lastUndo
      BY <1>1, <1>10, <2>3, SucceedUndo
    <3> QED
      BY <1>4, <1>5, <1>10, <2>3, <3>1 DEF SureOK
  <2> QED
    BY <1>0, <1>4, <1>5, <1>8, <2>1, <2>2, <2>3 DEF SureOK
<1> QED
  BY <1>9, <1>10

LEMMA SucceedPlain ==
    ASSUME BookInv, PlainInv, NEW n \in Job, Confirms(n), Retires(n, request[n].done)
    PROVE  PlainInv'
<1>0. /\ n = started
      /\ UNCHANGED <<row, submitted, started, shown, rows, doubt, elsewhere>>
      /\ request'[n] = NoRequest /\ \A m \in Job : m # n => request'[m] = request[m]
  BY DEF Confirms
<1> DEFINE done == request[n].done
<1>1. /\ JournalTypeOK /\ n \in Nat /\ Open(n)
      /\ n \in DOMAIN journal /\ journal[n].status = "queued"
      /\ journal[n].op = request[n].op /\ journal[n].items = request[n].items
      /\ done \subseteq request[n].items
      /\ request[n].op # "bulk" => done = request[n].items
      /\ \A m \in Job : Open(m)' <=> Open(m) /\ m # n
      /\ \A m \in Job : Open(m) /\ m # n => m \in Nat /\ m > n /\ request[m].at = "queued"
      /\ request[n].op \in {"answer", "bulk", "undo"}
  BY ConfirmsFacts, RequestType DEF Operation
<1>2. /\ n \in DOMAIN journal'
      /\ \A m : m \in DOMAIN journal' <=>
                 m \in DOMAIN journal /\ (m < n => journal[m].items \ done # {})
      /\ journal'[n].op = journal[n].op /\ journal'[n].items = journal[n].items
      /\ journal'[n].revs = journal[n].revs
      /\ \A m \in DOMAIN journal' : m < n =>
          /\ journal'[m].op = journal[m].op /\ journal'[m].revs = journal[m].revs
          /\ journal'[m].status = journal[m].status
          /\ journal'[m].items = journal[m].items \ done
      /\ \A m \in DOMAIN journal' : m > n => journal'[m] = journal[m]
  BY DEF Retires
<1>3. \A m \in DOMAIN journal : /\ m \in Job /\ m \in Nat /\ (journal[m].status # "queued" => m <= n)
  BY <1>0, <1>1, JournalType DEF BookInv, RecordOK, RecordPlace, Job
<1> SUFFICES ASSUME NEW j \in Item, NEW m \in Job, Plain(j)', Undone(m, j)'
             PROVE  UndoneOK(m, j)'
  BY DEF PlainInv
<1>4. /\ m \in DOMAIN journal' /\ journal'[m].op = "undo" /\ j \in journal'[m].items
      /\ journal'[m].status = "succeeded" \/ (Open(m)' /\ j \in request'[m].done)
      /\ m \in DOMAIN journal /\ m \in Nat
  BY <1>2, <1>3 DEF Undone
<1>5. ~(m > n)
  <2> SUFFICES ASSUME m > n PROVE FALSE
    OBVIOUS
  <2>1. journal[m].status # "succeeded"
    BY <1>1, <1>3, <1>4
  <2>2. Open(m) /\ j \in request[m].done /\ request[m].at = "queued"
    BY <1>0, <1>1, <1>2, <1>4, <2>1
  <2>3. request[m].done = {}
    BY <2>2 DEF BookInv, RequestOK, RequestShape
  <2> QED
    BY <2>2, <2>3
<1>6. m < n \/ m = n
  BY <1>1, <1>4, <1>5
<1>7. m < n => j \notin done
  BY <1>2, <1>4
<1>8. Undone(m, j) /\ journal'[m].revs = journal[m].revs
  <2>1. CASE m = n
    BY <1>1, <1>2, <1>4, <2>1 DEF Undone
  <2>2. CASE m < n
    BY <1>0, <1>1, <1>2, <1>4, <2>2 DEF Undone
  <2> QED
    BY <1>6, <2>1, <2>2
<1>9. UndoneOK(m, j)
  BY <1>0, <1>8 DEF Plain, PlainInv
<1>10. ASSUME NEW k \in Job, k # n, Overtakes(k, m, j), Open(k) \/ InDoubt(k)
       PROVE  /\ Overtakes(k, m, j)' /\ (Open(k)' \/ InDoubt(k)')
              /\ Open(k) => Open(k)' /\ request'[k] = request[k]
              /\ InDoubt(k) => InDoubt(k)'
  <2>1. k > m /\ k \in DOMAIN journal /\ j \in journal[k].items /\ journal[k].op # "undo" /\ k \in Nat
    BY <1>3, <1>10 DEF Overtakes
  <2>2. CASE k > n
    <3>1. k \in DOMAIN journal' /\ journal'[k] = journal[k]
      BY <1>1, <1>2, <2>1, <2>2
    <3> QED
      BY <1>0, <1>1, <1>10, <2>1, <3>1 DEF Overtakes, InDoubt
  <2>3. CASE k < n
    <3>1. j \notin done
      BY <1>1, <1>4, <1>6, <1>7, <2>1, <2>3
    <3>2. k \in DOMAIN journal'
      BY <1>2, <2>1, <3>1
    <3>3. /\ journal'[k].op = journal[k].op /\ journal'[k].status = journal[k].status
          /\ j \in journal'[k].items
      BY <1>2, <2>1, <2>3, <3>1, <3>2
    <3>4. ~Open(k)
      BY <1>1, <2>1, <2>3
    <3> QED
      BY <1>10, <2>1, <3>2, <3>3, <3>4 DEF Overtakes, InDoubt
  <2> QED
    BY <1>1, <1>10, <2>1, <2>2, <2>3
<1>11. \/ row'[j].status = "pending" /\ row'[j].rev > journal'[m].revs[j]
       \/ \E k \in Job : Overtakes(k, m, j)' /\ ((Open(k)' /\ j \in request'[k].done) \/ InDoubt(k)')
  <2>1. CASE row[j].status = "pending" /\ row[j].rev > journal[m].revs[j]
    BY <1>0, <1>8, <2>1
  <2>2. CASE \E k \in Job : Overtakes(k, m, j) /\ ((Open(k) /\ j \in request[k].done) \/ InDoubt(k))
    <3>1. PICK k \in Job : Overtakes(k, m, j) /\ ((Open(k) /\ j \in request[k].done) \/ InDoubt(k))
      BY <2>2
    <3>2. k # n
      <4> SUFFICES ASSUME k = n PROVE FALSE
        OBVIOUS
      <4>1. m < n /\ ~InDoubt(n)
        BY <1>1, <3>1 DEF Overtakes, InDoubt
      <4> QED
        BY <1>7, <3>1, <4>1
    <3> QED
      BY <1>10, <3>1, <3>2
  <2> QED
    BY <1>9, <2>1, <2>2 DEF UndoneOK
<1>12. ASSUME NEW k \in Job, request'[k].at # "none", j \in request'[k].items,
              request'[k].revs[j] > journal'[m].revs[j]
       PROVE  Overtakes(k, m, j)' /\ request'[k].op # "undo" /\ (Open(k)' \/ InDoubt(k)')
  <2>1. k # n /\ request'[k] = request[k]
    BY <1>0, <1>12, NoRequestType
  <2>2. Overtakes(k, m, j) /\ request[k].op # "undo" /\ (Open(k) \/ InDoubt(k))
    BY <1>8, <1>9, <1>12, <2>1 DEF UndoneOK
  <2> QED
    BY <1>10, <2>1, <2>2
<1>13. ASSUME NEW u \in lastUndo', u[1] = j
       PROVE  u[2] <= journal'[m].revs[j]
  <2>1. CASE request[n].op = "answer"
    <3>1. j \in done
      BY <1>13, <2>1, SucceedUndo
    <3>2. m = n
      BY <1>6, <1>7, <3>1
    <3> QED
      BY <1>1, <1>2, <1>4, <2>1, <3>2
  <2>2. CASE request[n].op = "undo"
    BY <1>8, <1>9, <1>13, <2>2, SucceedUndo DEF UndoneOK
  <2>3. CASE request[n].op = "bulk"
    BY <1>13, <2>3, SucceedUndo
  <2> QED
    BY <1>1, <2>1, <2>2, <2>3
<1> QED
  BY <1>11, <1>12, <1>13 DEF UndoneOK

LEMMA SucceedStep ==
    ASSUME JournalInv, Succeed
    PROVE  JournalInv'
<1>0. BookInv /\ OrderInv /\ SureInv /\ PlainInv /\ NoSelfConflict
  BY DEF JournalInv
<1> PICK n \in Job : n = started
  BY <1>0, SucceedFacts
<1>1. /\ Confirms(n) /\ request' \in [Job -> Request] /\ told' \in [Item -> Nat]
      /\ page' \in [at : {"idle", "asked", "read"}, rows : [Item -> Nat], again : BOOLEAN]
  BY <1>0, SucceedFacts
<1>2. /\ n \in DOMAIN journal /\ request[n].done \in SUBSET Item
      /\ journal[n].op = request[n].op /\ journal[n].items = request[n].items
      /\ request[n].done \subseteq request[n].items
      /\ request[n].op # "bulk" => request[n].done = request[n].items
      /\ \A i : Unsure(i)' <=> Unsure(i)
  BY <1>0, <1>1, ConfirmsFacts
<1>3. journal' = [Superseded(journal, n, request[n].done) EXCEPT
                    ![n].status = "succeeded", ![n].answered = request[n].done, ![n].due = "waiting"]
  BY <1>2 DEF Succeed
<1>4. Retires(n, request[n].done) /\ \A m \in DOMAIN journal' : journal'[m] \in Record
  BY <1>0, <1>2, <1>3, RetireFacts
<1>5. NoSelfConflict'
  <2>1. request'[n] = NoRequest /\ \A m \in Job : m # n => request'[m] = request[m]
    BY <1>1 DEF Confirms
  <2> QED
    BY <1>0, <1>2, <2>1, NoRequestType DEF NoSelfConflict
<1> QED
  BY <1>0, <1>1, <1>4, <1>5, SucceedBook, SucceedOrder, SucceedSure, SucceedPlain DEF JournalInv

---------------------------------------------------------------------------
(* Refusals and requests that are given up                                 *)

\* The last submission that was sent is settled without a confirmation.
Gives(n) ==
    /\ n = started /\ awaited /\ shown = journal /\ awaited' = FALSE
    /\ UNCHANGED <<row, submitted, started, shown, rows, told, elsewhere>>
    /\ \A m \in Job : m # n => request'[m] = request[m]
    /\ request'[n] = NoRequest \/ (request[n].at = "sent" /\ request'[n] = request[n])
    /\ lastUndo' \subseteq lastUndo
    /\ page'.rows = page.rows /\ (page'.at = "read" <=> page.at = "read")
    /\ page.at # "idle" => page'.at # "idle"
    /\ doubt \subseteq doubt'

\* Its record goes, and a conflict takes the restorations of its item with it.
Refuses(n) ==
    /\ DOMAIN journal' \subseteq DOMAIN journal \ {n}
    /\ \A m \in DOMAIN journal' : journal'[m] = journal[m]
    /\ \A m \in DOMAIN journal : (m # n /\ m \notin DOMAIN journal') =>
          /\ m < n /\ journal[m].op = "undo" /\ journal[m].items \subseteq request[n].items
          /\ \A i \in request[n].items : Unsure(i)
    /\ \/ request'[n] = NoRequest /\ request[n].done = {}
       \/ \A i \in request[n].items : <<"broken", i>> \in doubt'

\* Its outcome is indeterminate.
Expires(n) ==
    /\ DOMAIN journal' = DOMAIN journal
    /\ \A m \in DOMAIN journal : m # n => journal'[m] = journal[m]
    /\ journal'[n].op = journal[n].op /\ journal'[n].items = journal[n].items
    /\ journal'[n].revs = journal[n].revs /\ journal'[n].status = "indeterminate"
    /\ journal'[n].due = "waiting" /\ page'.at # "idle"
    /\ \A i \in request[n].items :
          <<IF request[n].op = "bulk" THEN "bulk" ELSE "late", i>> \in doubt'

Types ==
    /\ request' \in [Job -> Request]
    /\ page' \in [at : {"idle", "asked", "read"}, rows : [Item -> Nat], again : BOOLEAN]
    /\ doubt' \subseteq {"late", "bulk", "broken"} \X Item
    /\ \A m \in DOMAIN journal' : journal'[m] \in Record

\* What is known of a reply that is awaited.
LEMMA Waiting ==
    ASSUME BookInv, Awaited
    PROVE  /\ JournalTypeOK /\ started \in Job /\ started \in Nat /\ Open(started)
           /\ awaited /\ shown = journal
           /\ request \in [Job -> Request]
           /\ started \in DOMAIN journal /\ journal[started].status = "queued"
           /\ journal[started].op = request[started].op
           /\ journal[started].items = request[started].items
           /\ journal[started].revs = request[started].revs
           /\ request[started].items # {} /\ request[started].done \subseteq request[started].items
           /\ request[started].op # "bulk" => Single(request[started].items)
           /\ request[started].at \in {"sent", "served"}
           /\ \A m \in DOMAIN journal : journal[m] \in Record
           /\ page \in [at : {"idle", "asked", "read"}, rows : [Item -> Nat], again : BOOLEAN]
<1>1. JournalTypeOK /\ awaited /\ shown = journal
  BY DEF BookInv, Awaited
<1>2. started \in Job /\ started \in Nat /\ Open(started)
  BY <1>1, AwaitedJob
<1>3. /\ started \in DOMAIN journal /\ journal[started].status = "queued"
      /\ journal[started].op = request[started].op
      /\ journal[started].items = request[started].items
      /\ journal[started].revs = request[started].revs
  BY <1>2 DEF BookInv, OpenIsQueued
<1>4. request[started].at # "none"
  BY <1>2 DEF BookInv, RequestOK, RequestPlace
<1>5. started \notin started + 1 .. submitted /\ (request[started].at = "queued" <=> started \in started + 1 .. submitted)
  BY <1>1, <1>2 DEF JournalTypeOK
<1>6. request[started].at \in {"sent", "served"}
  BY <1>1, <1>2, <1>4, <1>5, RequestType
<1>7. /\ request[started].items # {} /\ request[started].done \subseteq request[started].items
      /\ request[started].op # "bulk" => Single(request[started].items)
  BY <1>2, <1>4 DEF BookInv, RequestOK, RequestShape
<1>8. /\ request \in [Job -> Request] /\ \A m \in DOMAIN journal : journal[m] \in Record
      /\ page \in [at : {"idle", "asked", "read"}, rows : [Item -> Nat], again : BOOLEAN]
  BY <1>1 DEF JournalTypeOK
<1> QED
  BY <1>1, <1>2, <1>3, <1>6, <1>7, <1>8

LEMMA RefreshedFacts ==
    ASSUME NEW p \in [at : {"idle", "asked", "read"}, rows : [Item -> Nat], again : BOOLEAN]
    PROVE  /\ Refreshed(p) \in [at : {"idle", "asked", "read"}, rows : [Item -> Nat], again : BOOLEAN]
           /\ Refreshed(p).at # "idle" /\ Refreshed(p).rows = p.rows
           /\ (Refreshed(p).at = "read" <=> p.at = "read")
BY DEF Refreshed

LEMMA WithoutFacts ==
    ASSUME NEW j, NEW N
    PROVE  /\ DOMAIN Without(j, N) = DOMAIN j \ N
           /\ \A m \in DOMAIN j \ N : Without(j, N)[m] = j[m]
BY DEF Without

LEMMA RefuseFacts ==
    ASSUME BookInv, Awaited, NEW code, Refuse(code)
    PROVE  /\ awaited' = FALSE
           /\ UNCHANGED <<row, submitted, started, shown, rows, told, elsewhere>>
           /\ lastUndo' \subseteq lastUndo
           /\ page' \in [at : {"idle", "asked", "read"}, rows : [Item -> Nat], again : BOOLEAN]
           /\ page'.rows = page.rows /\ (page'.at = "read" <=> page.at = "read")
           /\ page.at # "idle" => page'.at # "idle"
           /\ DOMAIN journal' = DOMAIN journal \ ({started} \cup (IF code = "conflict" THEN request[started].undos ELSE {}))
           /\ \A m \in DOMAIN journal' : journal'[m] = journal[m]
<1>1. page \in [at : {"idle", "asked", "read"}, rows : [Item -> Nat], again : BOOLEAN]
  BY Waiting
<1>2. page' = IF code = "conflict" THEN Refreshed(page) ELSE page
  BY DEF Refuse
<1>3. /\ page' \in [at : {"idle", "asked", "read"}, rows : [Item -> Nat], again : BOOLEAN]
      /\ page'.rows = page.rows /\ (page'.at = "read" <=> page.at = "read")
      /\ page.at # "idle" => page'.at # "idle"
  BY <1>1, <1>2, RefreshedFacts
<1>4. lastUndo' \subseteq lastUndo
  BY DEF Refuse
<1>5. /\ DOMAIN journal' = DOMAIN journal \ ({started} \cup (IF code = "conflict" THEN request[started].undos ELSE {}))
      /\ \A m \in DOMAIN journal' : journal'[m] = journal[m]
  <2> DEFINE N == {started} \cup (IF code = "conflict" THEN request[started].undos ELSE {})
  <2>1. journal' = Without(journal, N)
    BY DEF Refuse
  <2> HIDE DEF N
  <2>a. /\ DOMAIN Without(journal, N) = DOMAIN journal \ N
        /\ \A m \in DOMAIN journal \ N : Without(journal, N)[m] = journal[m]
    BY WithoutFacts
  <2>2. DOMAIN journal' = DOMAIN journal \ N /\ \A m \in DOMAIN journal' : journal'[m] = journal[m]
    BY <2>1, <2>a
  <2> QED
    BY <2>2 DEF N
<1> QED
  BY <1>3, <1>4, <1>5 DEF Refuse

LEMMA FailFacts ==
    ASSUME JournalInv, Fail
    PROVE  Gives(started) /\ Refuses(started) /\ Types
<1>0. BookInv /\ Awaited /\ request[started].at = "served" /\ request[started].code # "ok"
      /\ Refuse(request[started].code) /\ doubt' = doubt
      /\ request' = [request EXCEPT ![started] = NoRequest]
  BY DEF JournalInv, Fail
<1> PICK n \in Job : n = started
  BY <1>0, Waiting
<1>1. /\ JournalTypeOK /\ awaited /\ shown = journal /\ request \in [Job -> Request]
      /\ n \in DOMAIN journal
      /\ \A m \in DOMAIN journal : journal[m] \in Record
      /\ request[n].op # "bulk" => Single(request[n].items)
  BY <1>0, Waiting
<1>2. /\ request' \in [Job -> Request] /\ request'[n] = NoRequest
      /\ \A m \in Job : m # n => request'[m] = request[m]
  BY <1>0, <1>1, NoRequestType
<1>3. /\ awaited' = FALSE
      /\ UNCHANGED <<row, submitted, started, shown, rows, told, elsewhere>>
      /\ lastUndo' \subseteq lastUndo
      /\ page' \in [at : {"idle", "asked", "read"}, rows : [Item -> Nat], again : BOOLEAN]
      /\ page'.rows = page.rows /\ (page'.at = "read" <=> page.at = "read")
      /\ page.at # "idle" => page'.at # "idle"
      /\ DOMAIN journal' = DOMAIN journal \ ({n} \cup (IF request[n].code = "conflict" THEN request[n].undos ELSE {}))
      /\ \A m \in DOMAIN journal' : journal'[m] = journal[m]
  BY <1>0, RefuseFacts
<1>4. /\ request[n].done = {} /\ (request[n].op = "bulk" => request[n].code # "conflict")
  BY <1>0 DEF BookInv, RequestOK, RequestShape
<1>5. ASSUME NEW m \in DOMAIN journal, m # n, m \notin DOMAIN journal'
      PROVE  /\ m < n /\ journal[m].op = "undo" /\ journal[m].items \subseteq request[n].items
             /\ \A i \in request[n].items : Unsure(i)
  <2>1. request[n].code = "conflict" /\ m \in request[n].undos
    BY <1>3, <1>5
  <2>2. m < n /\ journal[m].op = "undo" /\ journal[m].items \subseteq request[n].items
    BY <2>1 DEF JournalInv, BookInv, RequestOK, RequestUndos
  <2>3. \E i \in request[n].items : Unsure(i)
    BY <1>0, <2>1 DEF JournalInv, NoSelfConflict
  <2>4. Single(request[n].items)
    BY <1>1, <1>4, <2>1
  <2> QED
    BY <2>2, <2>3, <2>4 DEF Single
<1>6. Gives(n)
  BY <1>0, <1>1, <1>2, <1>3 DEF Gives
<1>7. Refuses(n)
  BY <1>2, <1>3, <1>4, <1>5 DEF Refuses
<1>8. doubt' \subseteq {"late", "bulk", "broken"} \X Item
  BY <1>0, <1>1 DEF JournalTypeOK
<1> QED
  BY <1>1, <1>2, <1>3, <1>6, <1>7, <1>8 DEF Types

LEMMA GivenUpFacts ==
    ASSUME BookInv, NEW how \in {"late", "bulk", "broken"}, GivenUp(how)
    PROVE  /\ request' \in [Job -> Request]
           /\ \A m \in Job : m # started => request'[m] = request[m]
           /\ \/ request'[started] = NoRequest
              \/ request[started].at = "sent" /\ request'[started] = request[started]
           /\ doubt' \subseteq {"late", "bulk", "broken"} \X Item /\ doubt \subseteq doubt'
           /\ \A i \in request[started].items : <<how, i>> \in doubt'
<1>0. /\ Awaited /\ doubt' = doubt \cup ({how} \X request[started].items)
      /\ request' = [request EXCEPT ![started] = IF @.at = "sent" THEN @ ELSE NoRequest]
  BY DEF GivenUp
<1>1. JournalTypeOK /\ started \in Job /\ request \in [Job -> Request]
  BY <1>0, Waiting
<1>2. request[started].items \in SUBSET Item /\ doubt \subseteq {"late", "bulk", "broken"} \X Item
  BY <1>1, RequestType DEF JournalTypeOK
<1>3. /\ request' \in [Job -> Request]
      /\ \A m \in Job : m # started => request'[m] = request[m]
      /\ \/ request'[started] = NoRequest
         \/ request[started].at = "sent" /\ request'[started] = request[started]
  <2> DEFINE new == IF request[started].at = "sent" THEN request[started] ELSE NoRequest
  <2>1. new \in Request /\ (new = NoRequest \/ (request[started].at = "sent" /\ new = request[started]))
    BY <1>1, NoRequestType
  <2>2. request' = [request EXCEPT ![started] = new]
    BY <1>0
  <2> HIDE DEF new
  <2> QED
    BY <1>1, <2>1, <2>2
<1>4. doubt' \subseteq {"late", "bulk", "broken"} \X Item /\ doubt \subseteq doubt'
      /\ \A i \in request[started].items : <<how, i>> \in doubt'
  BY <1>0, <1>2
<1> QED
  BY <1>3, <1>4

LEMMA BreakFacts ==
    ASSUME JournalInv, Break
    PROVE  Gives(started) /\ Refuses(started) /\ Types
<1>0. BookInv /\ GivenUp("broken") /\ Refuse("failed") /\ Awaited
  BY DEF JournalInv, Break, GivenUp
<1>1. /\ awaited /\ shown = journal /\ \A m \in DOMAIN journal : journal[m] \in Record
  BY <1>0, Waiting
<1>2. /\ request' \in [Job -> Request]
      /\ \A m \in Job : m # started => request'[m] = request[m]
      /\ \/ request'[started] = NoRequest
         \/ request[started].at = "sent" /\ request'[started] = request[started]
      /\ doubt' \subseteq {"late", "bulk", "broken"} \X Item /\ doubt \subseteq doubt'
      /\ \A i \in request[started].items : <<"broken", i>> \in doubt'
  BY <1>0, GivenUpFacts
<1>3. /\ awaited' = FALSE
      /\ UNCHANGED <<row, submitted, started, shown, rows, told, elsewhere>>
      /\ lastUndo' \subseteq lastUndo
      /\ page' \in [at : {"idle", "asked", "read"}, rows : [Item -> Nat], again : BOOLEAN]
      /\ page'.rows = page.rows /\ (page'.at = "read" <=> page.at = "read")
      /\ page.at # "idle" => page'.at # "idle"
      /\ DOMAIN journal' = DOMAIN journal
            \ ({started} \cup (IF "failed" = "conflict" THEN request[started].undos ELSE {}))
      /\ \A m \in DOMAIN journal' : journal'[m] = journal[m]
  BY <1>0, RefuseFacts
<1>4. DOMAIN journal' = DOMAIN journal \ {started}
  BY <1>3
<1> QED
  BY <1>1, <1>2, <1>3, <1>4 DEF Gives, Refuses, Types

LEMMA TimeOutFacts ==
    ASSUME JournalInv, TimeOut
    PROVE  Gives(started) /\ Expires(started) /\ Types
<1> DEFINE how == IF request[started].op = "bulk" THEN "bulk" ELSE "late"
<1>0. BookInv /\ GivenUp(how) /\ Awaited
  BY DEF JournalInv, TimeOut, GivenUp
<1>1. /\ awaited /\ shown = journal /\ started \in DOMAIN journal
      /\ \A m \in DOMAIN journal : journal[m] \in Record
      /\ page \in [at : {"idle", "asked", "read"}, rows : [Item -> Nat], again : BOOLEAN]
  BY <1>0, Waiting
<1>2. /\ request' \in [Job -> Request]
      /\ \A m \in Job : m # started => request'[m] = request[m]
      /\ \/ request'[started] = NoRequest
         \/ request[started].at = "sent" /\ request'[started] = request[started]
      /\ doubt' \subseteq {"late", "bulk", "broken"} \X Item /\ doubt \subseteq doubt'
      /\ \A i \in request[started].items : <<how, i>> \in doubt'
  <2>1. how \in {"late", "bulk", "broken"}
    OBVIOUS
  <2> HIDE DEF how
  <2> QED
    BY <1>0, <2>1, GivenUpFacts
<1>3. /\ page' \in [at : {"idle", "asked", "read"}, rows : [Item -> Nat], again : BOOLEAN]
      /\ page'.rows = page.rows /\ (page'.at = "read" <=> page.at = "read")
      /\ page'.at # "idle"
  BY <1>1, RefreshedFacts DEF TimeOut
<1>4. /\ DOMAIN journal' = DOMAIN journal
      /\ \A m \in DOMAIN journal : m # started => journal'[m] = journal[m]
      /\ journal'[started] \in Record
      /\ journal'[started].op = journal[started].op /\ journal'[started].items = journal[started].items
      /\ journal'[started].revs = journal[started].revs /\ journal'[started].status = "indeterminate"
      /\ journal'[started].due = "waiting"
  <2> DEFINE new == [[journal[started] EXCEPT !.status = "indeterminate"] EXCEPT !.due = "waiting"]
  <2>1. journal' = [journal EXCEPT ![started].status = "indeterminate", ![started].due = "waiting"]
    BY <1>1 DEF TimeOut
  <2>2. DOMAIN journal' = DOMAIN journal /\ \A m \in DOMAIN journal : m # started => journal'[m] = journal[m]
    BY <2>1
  <2>3. journal'[started] = new
    BY <1>1, <2>1
  <2>4. journal[started] \in Record
    BY <1>1
  <2>5. new \in Record
    BY <2>4 DEF Record
  <2>6. /\ new.op = journal[started].op /\ new.items = journal[started].items
        /\ new.revs = journal[started].revs /\ new.status = "indeterminate" /\ new.due = "waiting"
    BY <2>4 DEF Record
  <2> QED
    BY <2>2, <2>3, <2>5, <2>6
<1>5. Types
  BY <1>1, <1>2, <1>3, <1>4 DEF Types
<1>6. Gives(started)
  BY <1>1, <1>2, <1>3 DEF Gives, TimeOut
<1> QED
  BY <1>2, <1>3, <1>4, <1>5, <1>6 DEF Expires

\* Both.
Ends(n) ==
    /\ DOMAIN journal' \subseteq DOMAIN journal
    /\ \A m \in DOMAIN journal' :
          /\ m # n => journal'[m] = journal[m]
          /\ journal'[m].op = journal[m].op /\ journal'[m].items = journal[m].items
          /\ journal'[m].revs = journal[m].revs
    /\ \A m \in DOMAIN journal : (m # n /\ m \notin DOMAIN journal') =>
          /\ m < n /\ journal[m].op = "undo" /\ journal[m].items \subseteq request[n].items
          /\ \A i \in request[n].items : Unsure(i)
    /\ n \in DOMAIN journal' =>
          /\ journal'[n].status = "indeterminate" /\ journal'[n].due = "waiting" /\ page'.at # "idle"
          /\ \A i \in request[n].items :
                <<IF request[n].op = "bulk" THEN "bulk" ELSE "late", i>> \in doubt'
    /\ \/ request'[n] = NoRequest /\ request[n].done = {}
       \/ \A i \in request[n].items : Unsure(i)'

LEMMA EndsFacts ==
    ASSUME NEW n \in DOMAIN journal, Refuses(n) \/ Expires(n)
    PROVE  Ends(n)
<1>1. ASSUME NEW i, NEW how, <<how, i>> \in doubt'
      PROVE  Unsure(i)'
  <2>1. <<how, i>>[2] = i
    OBVIOUS
  <2> QED
    BY <1>1, <2>1 DEF Unsure
<1>2. CASE Refuses(n)
  BY <1>1, <1>2 DEF Refuses, Ends
<1>3. CASE Expires(n)
  BY <1>1, <1>3 DEF Expires, Ends
<1> QED
  BY <1>2, <1>3

LEMMA GivesFacts ==
    ASSUME BookInv, NEW n \in Job, Gives(n)
    PROVE  /\ JournalTypeOK /\ n \in Nat /\ Open(n)
           /\ n \in DOMAIN journal /\ journal[n].status = "queued"
           /\ journal[n].op = request[n].op /\ journal[n].items = request[n].items
           /\ journal[n].revs = request[n].revs
           /\ request[n].items # {} /\ request[n].done \subseteq request[n].items
           /\ request[n].op # "bulk" => Single(request[n].items)
           /\ \A m \in Job : Open(m)' <=> Open(m) /\ m # n
           /\ Settled' = n
           /\ \A i : (Unsure(i) => Unsure(i)') /\ (Sure(i)' => Sure(i)) /\ Projected(i)' = Projected(i)
           /\ \A i : Behind(i)' <=> i \in request[n].items
<1>0. /\ n = started /\ awaited /\ shown = journal /\ awaited' = FALSE
      /\ UNCHANGED <<submitted, started, shown, rows, elsewhere>> /\ doubt \subseteq doubt'
  BY DEF Gives
<1>1. Awaited
  BY <1>0 DEF Awaited
<1>2. /\ JournalTypeOK /\ n \in Nat /\ Open(n)
      /\ n \in DOMAIN journal /\ journal[n].status = "queued"
      /\ journal[n].op = request[n].op /\ journal[n].items = request[n].items
      /\ journal[n].revs = request[n].revs
      /\ request[n].items # {} /\ request[n].done \subseteq request[n].items
      /\ request[n].op # "bulk" => Single(request[n].items)
  BY <1>0, <1>1, Waiting
<1>3. \A m \in Job : Open(m)' <=> Open(m) /\ m # n
  BY <1>0, <1>2, JournalType DEF Open
<1>4. Settled' = n
  BY <1>0 DEF Settled
<1>5. \A i : (Unsure(i) => Unsure(i)') /\ (Sure(i)' => Sure(i)) /\ Projected(i)' = Projected(i)
  BY <1>0 DEF Sure, Unsure, Projected
<1>6. \A i : Behind(i)' <=> i \in request[n].items
  BY <1>0, <1>2, <1>4 DEF Behind
<1> QED
  BY <1>2, <1>3, <1>4, <1>5, <1>6

LEMMA EndBook ==
    ASSUME BookInv, NEW n \in Job, Gives(n), Ends(n), Types
    PROVE  BookInv'
<1>0. /\ n = started /\ awaited /\ shown = journal /\ awaited' = FALSE
      /\ UNCHANGED <<row, submitted, started, shown, rows, told, elsewhere>>
      /\ \A m \in Job : m # n => request'[m] = request[m]
      /\ request'[n] = NoRequest \/ (request[n].at = "sent" /\ request'[n] = request[n])
      /\ lastUndo' \subseteq lastUndo
      /\ page'.rows = page.rows /\ (page'.at = "read" <=> page.at = "read")
      /\ page.at # "idle" => page'.at # "idle"
      /\ doubt \subseteq doubt'
  BY DEF Gives
<1>1. /\ JournalTypeOK /\ n \in Nat /\ Open(n)
      /\ n \in DOMAIN journal /\ journal[n].status = "queued"
      /\ journal[n].op = request[n].op /\ journal[n].items = request[n].items
      /\ journal[n].revs = request[n].revs
      /\ request[n].items # {} /\ request[n].done \subseteq request[n].items
      /\ request[n].op # "bulk" => Single(request[n].items)
      /\ \A m \in Job : Open(m)' <=> Open(m) /\ m # n
      /\ Settled' = n
      /\ \A i : Unsure(i) => Unsure(i)'
  BY GivesFacts
<1>2. /\ DOMAIN journal' \subseteq DOMAIN journal
      /\ \A m \in DOMAIN journal' :
          /\ m # n => journal'[m] = journal[m]
          /\ journal'[m].op = journal[m].op /\ journal'[m].items = journal[m].items
          /\ journal'[m].revs = journal[m].revs
      /\ \A m \in DOMAIN journal : (m # n /\ m \notin DOMAIN journal') =>
          /\ m < n /\ journal[m].op = "undo" /\ journal[m].items \subseteq request[n].items
      /\ n \in DOMAIN journal' =>
          /\ journal'[n].status = "indeterminate" /\ journal'[n].due = "waiting" /\ page'.at # "idle"
          /\ \A i \in request[n].items :
                <<IF request[n].op = "bulk" THEN "bulk" ELSE "late", i>> \in doubt'
      /\ \/ request'[n] = NoRequest /\ request[n].done = {}
         \/ \A i \in request[n].items : Unsure(i)'
  BY DEF Ends
<1>3. \A m \in DOMAIN journal : m \in Job /\ m \in Nat /\ m \in 1 .. submitted
  <2>1. \A m \in DOMAIN journal : m \in Job /\ m \in 1 .. submitted
    BY <1>1, JournalType DEF JournalTypeOK
  <2> QED
    BY <2>1 DEF Job
<1>4. UndosOK' /\ lastUndo' \subseteq Item \X Nat /\ Cardinality(lastUndo') <= 1
  <2>1. UndosOK'
    BY <1>0 DEF BookInv, UndosOK
  <2>2. \A u, v \in lastUndo' : u = v
    BY <2>1 DEF UndosOK
  <2> QED
    BY <1>0, <1>1, <2>1, <2>2, AtMostOne DEF JournalTypeOK
<1>5. JournalTypeOK'
  <2>1. \A m \in Job : (request'[m].at = "queued") <=> (m \in started' + 1 .. submitted')
    <3>1. \A m \in Job : (request[m].at = "queued") <=> (m \in started + 1 .. submitted)
      BY <1>1 DEF JournalTypeOK
    <3>2. request'[n].at # "queued" /\ n \notin started' + 1 .. submitted'
      BY <1>0, <1>1, NoRequestType
    <3> QED
      BY <1>0, <3>1, <3>2
  <2>2. DOMAIN journal' \subseteq 1 .. submitted'
    BY <1>0, <1>2, <1>3
  <2>3. \A m \in DOMAIN journal' : Items(journal'[m]) # {}
    <3>1. n \in DOMAIN journal' => Items(journal'[n]) # {}
      BY <1>1, <1>2 DEF Items
    <3>2. \A m \in DOMAIN journal : Items(journal[m]) # {}
      BY <1>1, JournalType
    <3> QED
      BY <1>2, <3>1, <3>2
  <2> QED
    BY <1>0, <1>1, <1>4, <2>1, <2>2, <2>3 DEF JournalTypeOK, Types
<1>6. ASSUME NEW m \in Job
      PROVE  RequestOK(m)' /\ OpenIsQueued(m)'
  <2>1. RequestOK(m) /\ OpenIsQueued(m)
    BY DEF BookInv
  <2>2. RequestUndos(m, request[m])'
    <3>1. CASE request'[m] = NoRequest
      BY <3>1, NoRequestType DEF RequestUndos
    <3>2. CASE request'[m] = request[m]
      BY <1>0, <1>2, <2>1, <3>2 DEF RequestOK, RequestUndos
    <3> QED
      BY <1>0, <3>1, <3>2
  <2>3. CASE m = n
    <3>1. ~Open(n)'
      BY <1>1
    <3>2. CASE request'[n] = NoRequest
      BY <2>2, <2>3, <3>1, <3>2, NoRequestType
         DEF RequestOK, OpenIsQueued, RequestShape, RequestDated, RequestPlace
    <3>3. CASE request'[n] # NoRequest
      <4>1. request'[n] = request[n] /\ request[n].at = "sent" /\ \A i \in request[n].items : Unsure(i)'
        BY <1>0, <1>2, <3>3
      <4>2. RequestPlace(n, request[n])'
        BY <3>1, <4>1 DEF RequestPlace
      <4> QED
        BY <1>0, <2>1, <2>2, <2>3, <3>1, <4>1, <4>2 DEF RequestOK, OpenIsQueued
    <3> QED
      BY <3>2, <3>3
  <2>4. CASE m # n
    <3>1. request'[m] = request[m]
      BY <1>0, <2>4
    <3>2. RequestPlace(m, request[m])'
      BY <1>1, <2>1, <2>4, <3>1 DEF RequestOK, RequestPlace
    <3>3. OpenIsQueued(m)'
      <4> SUFFICES ASSUME Open(m)' PROVE OpenIsQueued(m)'
        BY DEF OpenIsQueued
      <4>1. Open(m) /\ m \in DOMAIN journal /\ journal[m].status = "queued"
        BY <1>1, <2>1 DEF OpenIsQueued
      <4>2. m > n
        BY <1>0, <1>1, <1>3, <2>4, <4>1, JournalType DEF Open
      <4>3. m \in DOMAIN journal'
        <5> SUFFICES ASSUME m \notin DOMAIN journal' PROVE FALSE
          OBVIOUS
        <5>1. m < n
          BY <1>2, <2>4, <4>1
        <5> QED
          BY <1>1, <1>3, <4>1, <4>2, <5>1
      <4> QED
        BY <1>2, <2>1, <2>4, <3>1, <4>1, <4>3 DEF OpenIsQueued
    <3> QED
      BY <1>0, <2>1, <2>2, <3>1, <3>2, <3>3 DEF RequestOK
  <2> QED
    BY <2>3, <2>4
<1>7. ASSUME NEW m \in DOMAIN journal'
      PROVE  RecordOK(m)'
  <2>1. m \in DOMAIN journal /\ RecordOK(m) /\ m \in Job
    BY <1>2, <1>3 DEF BookInv
  <2>2. CASE m = n
    <3>1. RecordDated(journal[n], row)'
      BY <1>0, <1>2, <2>1, <2>2 DEF RecordOK, RecordDated
    <3>2. RecordPlace(n, journal[n])'
      BY <1>0, <1>1, <1>2, <2>1, <2>2 DEF RecordOK, RecordPlace
    <3>3. RecordDoubt(journal[n])'
      BY <1>1, <1>2, <2>2 DEF RecordDoubt
    <3> QED
      BY <2>2, <3>1, <3>2, <3>3 DEF RecordOK
  <2>3. CASE m # n
    <3>1. journal'[m] = journal[m]
      BY <1>2, <2>3
    <3>2. RecordPlace(m, journal[m])'
      BY <1>0, <1>1, <2>1, <2>3, <3>1 DEF RecordOK, RecordPlace
    <3>3. RecordDoubt(journal[m])'
      BY <1>0, <2>1, <3>1 DEF RecordOK, RecordDoubt
    <3> QED
      BY <1>0, <2>1, <3>1, <3>2, <3>3 DEF RecordOK
  <2> QED
    BY <2>2, <2>3
<1>8. ASSUME NEW m \in DOMAIN shown'
      PROVE  ShownOK(m)'
  <2>1. ShownOK(m) /\ m \in Job /\ m \in DOMAIN journal /\ RecordOK(m) /\ m \in DOMAIN shown
    BY <1>0, <1>1, JournalType DEF BookInv
  <2>2. shown'[m] = shown[m]
    BY <1>0
  <2>3. shown[m].status = "queued" => Open(m)
    BY <1>0, <2>1 DEF RecordOK, RecordPlace
  <2>4. ShownPlace(m, shown[m])'
    BY <1>0, <1>1, <2>1, <2>2, <2>3 DEF ShownOK, ShownPlace
  <2>5. m \in DOMAIN journal' => journal'[m].op = journal[m].op
    BY <1>2
  <2> QED
    BY <1>0, <2>1, <2>2, <2>4, <2>5 DEF ShownOK
<1>9. RowsOK'
  BY <1>0 DEF BookInv, RowsOK
<1> QED
  BY <1>0, <1>4, <1>5, <1>6, <1>7, <1>8, <1>9 DEF BookInv

LEMMA EndOrder ==
    ASSUME BookInv, OrderInv, NEW n \in Job, Gives(n), Ends(n)
    PROVE  OrderInv'
<1>0. /\ shown = journal /\ UNCHANGED <<submitted, started, shown, rows>>
      /\ \A m \in Job : m # n => request'[m] = request[m]
      /\ lastUndo' \subseteq lastUndo
  BY DEF Gives
<1>1. /\ JournalTypeOK /\ Open(n)
      /\ n \in DOMAIN journal /\ journal[n].status = "queued"
      /\ journal[n].items = request[n].items
      /\ \A m \in Job : Open(m)' <=> Open(m) /\ m # n
      /\ \A i : (Sure(i)' => Sure(i)) /\ Projected(i)' = Projected(i) /\ (Unsure(i) => Unsure(i)')
      /\ \A i : Behind(i)' <=> i \in request[n].items
  BY GivesFacts
<1>2. /\ DOMAIN journal' \subseteq DOMAIN journal
      /\ \A m \in DOMAIN journal' :
          /\ m # n => journal'[m] = journal[m]
          /\ journal'[m].op = journal[m].op /\ journal'[m].items = journal[m].items
          /\ journal'[m].revs = journal[m].revs
      /\ \A m \in DOMAIN journal : (m # n /\ m \notin DOMAIN journal') =>
          journal[m].items \subseteq request[n].items
      /\ n \in DOMAIN journal' => journal'[n].status = "indeterminate"
  BY DEF Ends
<1>3. \A m : Items(journal[m]) \subseteq journal[m].items
  BY ItemsWithin
<1>4. n \in DOMAIN journal' => Items(journal'[n]) = Items(journal[n])
  BY <1>1, <1>2 DEF Items
<1>5. SettledIsShown'
  BY <1>0, <1>2, <1>4 DEF SettledIsShown
<1>6. ShownIsCurrent'
  <2> SUFFICES ASSUME NEW m \in DOMAIN shown, NEW i \in Items(shown[m]), i \notin request[n].items
               PROVE  /\ m \in DOMAIN journal' /\ i \in Items(journal'[m])
                      /\ journal'[m].status = shown[m].status /\ journal'[m].revs = shown[m].revs
    BY <1>0, <1>1 DEF ShownIsCurrent
  <2>1. m \in DOMAIN journal /\ i \in journal[m].items
    BY <1>0, <1>3
  <2>2. m # n /\ m \in DOMAIN journal'
    BY <1>1, <1>2, <2>1
  <2> QED
    BY <1>0, <1>2, <2>2
<1>7. Supersedes(shown)'
  BY <1>0, <1>2 DEF OrderInv, Supersedes
<1>8. Supersedes(journal)'
  BY <1>2 DEF OrderInv, Supersedes
<1>9. FirstCome' /\ SameView'
  BY <1>0, <1>1 DEF OrderInv, FirstCome, SameView
<1>10. Unshown'
  BY <1>0, <1>1 DEF OrderInv, Unshown
<1>11. BulkStays'
  BY <1>0, <1>1, <1>2 DEF OrderInv, BulkStays
<1> QED
  BY <1>5, <1>6, <1>7, <1>8, <1>9, <1>10, <1>11 DEF OrderInv

LEMMA EndSure ==
    ASSUME BookInv, SureInv, NEW n \in Job, Gives(n), Ends(n)
    PROVE  SureInv'
<1>0. /\ n = started /\ awaited' = FALSE
      /\ UNCHANGED <<row, submitted, started, shown, rows, told, elsewhere>>
      /\ \A m \in Job : m # n => request'[m] = request[m]
      /\ lastUndo' \subseteq lastUndo
      /\ page'.rows = page.rows /\ (page'.at = "read" <=> page.at = "read")
  BY DEF Gives
<1>1. /\ n \in DOMAIN journal /\ journal[n].status = "queued"
      /\ request[n].done \subseteq request[n].items
      /\ \A m \in Job : Open(m)' <=> Open(m) /\ m # n
      /\ \A i : (Sure(i)' => Sure(i)) /\ (Unsure(i) => Unsure(i)')
  BY GivesFacts
<1>2. /\ DOMAIN journal' \subseteq DOMAIN journal
      /\ \A m \in DOMAIN journal' : m # n => journal'[m] = journal[m]
      /\ \A m \in DOMAIN journal : (m # n /\ m \notin DOMAIN journal') =>
          journal[m].items \subseteq request[n].items /\ \A i \in request[n].items : Unsure(i)
      /\ n \in DOMAIN journal' => journal'[n].status = "indeterminate"
      /\ request[n].done = {} \/ \A i \in request[n].items : Unsure(i)'
  BY DEF Ends
<1> SUFFICES ASSUME NEW j \in Item, Sure(j)'
             PROVE  SureOK(j)'
  BY DEF SureInv
<1>3. Sure(j) /\ SureOK(j)
  BY <1>1 DEF SureInv
<1>4. ~Served(j)' /\ ~Served(j) /\ Pending' = Pending
  BY <1>0, <1>1, <1>2 DEF Served, Pending, Sure
<1>5. Known(j)' = Known(j)
  BY <1>4 DEF Known
<1>6. ASSUME NEW m \in Job
      PROVE  /\ Changed(m, j)' <=> Changed(m, j)
             /\ Changed(m, j) => journal'[m] = journal[m]
  <2>1. CASE m = n
    BY <1>1, <1>2, <2>1 DEF Changed
  <2>2. CASE m # n
    <3>1. (m \in DOMAIN journal /\ j \in Items(journal[m])) => m \in DOMAIN journal'
      <4>1. Items(journal[m]) \subseteq journal[m].items
        BY ItemsWithin
      <4> QED
        BY <1>2, <1>3, <2>2, <4>1 DEF Sure
    <3> QED
      BY <1>2, <2>2, <3>1 DEF Changed
  <2> QED
    BY <2>1, <2>2
<1> QED
  BY <1>0, <1>1, <1>3, <1>4, <1>5, <1>6 DEF SureOK

LEMMA EndPlain ==
    ASSUME BookInv, PlainInv, NEW n \in Job, Gives(n), Refuses(n) \/ Expires(n)
    PROVE  PlainInv'
<1>0. /\ n = started /\ doubt \subseteq doubt'
      /\ UNCHANGED <<row, submitted, started, shown, rows, told, elsewhere>>
      /\ \A m \in Job : m # n => request'[m] = request[m]
      /\ request'[n] = NoRequest \/ (request[n].at = "sent" /\ request'[n] = request[n])
      /\ lastUndo' \subseteq lastUndo
  BY DEF Gives
<1>1. /\ JournalTypeOK /\ Open(n) /\ n \in DOMAIN journal /\ journal[n].status = "queued"
      /\ journal[n].op = request[n].op /\ journal[n].items = request[n].items
      /\ request[n].done \subseteq request[n].items
      /\ \A m \in Job : Open(m)' <=> Open(m) /\ m # n
      /\ request[n].op \in {"answer", "bulk", "undo"}
  BY GivesFacts, RequestType DEF Operation
<1>2. Ends(n)
  BY <1>1, EndsFacts
<1>3. /\ DOMAIN journal' \subseteq DOMAIN journal
      /\ \A m \in DOMAIN journal' :
          /\ m # n => journal'[m] = journal[m]
          /\ journal'[m].op = journal[m].op /\ journal'[m].items = journal[m].items
          /\ journal'[m].revs = journal[m].revs
      /\ \A m \in DOMAIN journal : (m # n /\ m \notin DOMAIN journal') => journal[m].op = "undo"
      /\ n \in DOMAIN journal' => journal'[n].status = "indeterminate"
  BY <1>2 DEF Ends
<1> SUFFICES ASSUME NEW j \in Item, NEW m \in Job, Plain(j)', Undone(m, j)'
             PROVE  UndoneOK(m, j)'
  BY DEF PlainInv
<1>4. m # n /\ m \in DOMAIN journal' /\ Undone(m, j) /\ Plain(j)
  BY <1>0, <1>1, <1>3 DEF Undone, Plain
<1>5. UndoneOK(m, j) /\ journal'[m] = journal[m]
  BY <1>3, <1>4 DEF PlainInv
\* A request that ends for a plain item is not carried out, or its record stays in doubt.
<1>6. ASSUME j \in request[n].items
      PROVE  \/ request'[n] = NoRequest /\ request[n].done = {}
             \/ /\ n \in DOMAIN journal' /\ request[n].op # "bulk"
                /\ request[n].op = "answer" => InDoubt(n)'
  <2>1. \A how \in {"bulk", "broken"} : <<how, j>> \notin doubt'
    BY DEF Plain
  <2>2. CASE Refuses(n)
    BY <1>6, <2>1, <2>2 DEF Refuses
  <2>3. CASE Expires(n)
    <3>1. n \in DOMAIN journal' /\ journal'[n].op = request[n].op /\ journal'[n].status = "indeterminate"
          /\ <<IF request[n].op = "bulk" THEN "bulk" ELSE "late", j>> \in doubt'
      BY <1>1, <1>6, <2>3 DEF Expires
    <3>2. request[n].op # "bulk"
      BY <2>1, <3>1
    <3> QED
      BY <3>1, <3>2 DEF InDoubt
  <2> QED
    BY <2>2, <2>3
<1>7. ASSUME NEW k \in Job, k # n, Overtakes(k, m, j)
      PROVE  /\ Overtakes(k, m, j)' /\ (Open(k) => Open(k)') /\ request'[k] = request[k]
             /\ InDoubt(k) => InDoubt(k)'
  <2>1. k > m /\ k \in DOMAIN journal /\ j \in journal[k].items /\ journal[k].op # "undo"
    BY <1>7 DEF Overtakes
  <2>2. k \in DOMAIN journal' /\ journal'[k] = journal[k]
    BY <1>3, <1>7, <2>1
  <2> QED
    BY <1>0, <1>1, <1>7, <2>1, <2>2 DEF Overtakes, InDoubt
<1>8. ASSUME Overtakes(n, m, j), ~(request'[n] = NoRequest /\ request[n].done = {})
      PROVE  Overtakes(n, m, j)' /\ InDoubt(n)'
  <2>1. n > m /\ j \in request[n].items /\ request[n].op # "undo"
    BY <1>1, <1>8 DEF Overtakes
  <2>2. n \in DOMAIN journal' /\ InDoubt(n)'
    BY <1>1, <1>6, <1>8, <2>1
  <2> QED
    BY <1>1, <1>3, <2>1, <2>2 DEF Overtakes
<1>9. \/ row'[j].status = "pending" /\ row'[j].rev > journal'[m].revs[j]
      \/ \E k \in Job : Overtakes(k, m, j)' /\ ((Open(k)' /\ j \in request'[k].done) \/ InDoubt(k)')
  <2>1. CASE row[j].status = "pending" /\ row[j].rev > journal[m].revs[j]
    BY <1>0, <1>5, <2>1
  <2>2. CASE \E k \in Job : Overtakes(k, m, j) /\ ((Open(k) /\ j \in request[k].done) \/ InDoubt(k))
    <3>1. PICK k \in Job : Overtakes(k, m, j) /\ ((Open(k) /\ j \in request[k].done) \/ InDoubt(k))
      BY <2>2
    <3>2. CASE k # n
      BY <1>7, <3>1, <3>2
    <3>3. CASE k = n
      <4>1. j \in request[n].done
        BY <1>1, <3>1, <3>3 DEF InDoubt
      <4> QED
        BY <1>8, <3>1, <3>3, <4>1
    <3> QED
      BY <3>2, <3>3
  <2> QED
    BY <1>5, <2>1, <2>2 DEF UndoneOK
<1>10. ASSUME NEW k \in Job, request'[k].at # "none", j \in request'[k].items,
              request'[k].revs[j] > journal'[m].revs[j]
       PROVE  Overtakes(k, m, j)' /\ request'[k].op # "undo" /\ (Open(k)' \/ InDoubt(k)')
  <2>1. request'[k] = request[k]
    BY <1>0, <1>10, NoRequestType
  <2>2. Overtakes(k, m, j) /\ request[k].op # "undo" /\ (Open(k) \/ InDoubt(k))
    BY <1>5, <1>10, <2>1 DEF UndoneOK
  <2>3. CASE k # n
    BY <1>7, <2>1, <2>2, <2>3
  <2>4. CASE k = n
    <3>1. request'[n] # NoRequest
      BY <1>10, <2>4, NoRequestType
    <3> QED
      BY <1>8, <2>1, <2>2, <2>4, <3>1
  <2> QED
    BY <2>3, <2>4
<1>11. \A u \in lastUndo' : u[1] = j => u[2] <= journal'[m].revs[j]
  BY <1>0, <1>5 DEF UndoneOK
<1> QED
  BY <1>9, <1>10, <1>11 DEF UndoneOK

LEMMA EndStep ==
    ASSUME JournalInv, Fail \/ Break \/ TimeOut
    PROVE  JournalInv'
<1>0. BookInv /\ OrderInv /\ SureInv /\ PlainInv /\ NoSelfConflict
  BY DEF JournalInv
<1>1. Gives(started) /\ (Refuses(started) \/ Expires(started)) /\ Types
  BY FailFacts, BreakFacts, TimeOutFacts
<1>2. Awaited
  BY <1>1 DEF Gives, Awaited
<1> PICK n \in Job : n = started
  BY <1>0, <1>2, Waiting
<1>3. Gives(n) /\ (Refuses(n) \/ Expires(n)) /\ Types
  BY <1>1
<1>4. n \in DOMAIN journal /\ \A i : Unsure(i) => Unsure(i)'
  BY <1>0, <1>3, GivesFacts
<1>5. Ends(n)
  BY <1>3, <1>4, EndsFacts
<1>6. NoSelfConflict'
  <2> SUFFICES ASSUME NEW m \in Job, request'[m].at = "served", request'[m].code = "conflict"
               PROVE  \E i \in request'[m].items : Unsure(i)'
    BY DEF NoSelfConflict
  <2>1. request'[m] = request[m]
    BY <1>3, NoRequestType DEF Gives
  <2> QED
    BY <1>0, <1>4, <2>1 DEF NoSelfConflict
<1> QED
  BY <1>0, <1>3, <1>5, <1>6, EndBook, EndOrder, EndSure, EndPlain DEF JournalInv

---------------------------------------------------------------------------
(* Renders                                                                 *)

Pages == [at : {"idle", "asked", "read"}, rows : [Item -> Nat], again : BOOLEAN]

\* The records that are left of j when the rows are now.
Leaves(j, now) ==
    /\ DOMAIN journal' \subseteq DOMAIN j
    /\ \A m \in DOMAIN journal' :
          /\ journal'[m] \in Record
          /\ journal'[m].op = j[m].op /\ journal'[m].items = j[m].items
          /\ journal'[m].revs = j[m].revs /\ journal'[m].status = j[m].status
          /\ journal'[m].due = j[m].due /\ Items(journal'[m]) = Items(j[m])
          /\ journal'[m].due = "due" => ~Reflected(journal'[m], now)
    /\ \A m \in DOMAIN j : m \notin DOMAIN journal' =>
          \/ j[m].due = "due" /\ Reflected(j[m], now)
          \/ j[m].op = "undo" /\ \E n \in DOMAIN j :
                m < n /\ j[n].op = "answer" /\ j[n].status = "indeterminate"
                /\ j[m].items \subseteq j[n].items
    /\ \A m, n \in DOMAIN j :
          (/\ n \notin DOMAIN journal' /\ j[n].op = "answer" /\ j[n].status = "indeterminate"
           /\ m < n /\ j[m].op = "undo" /\ j[m].items \subseteq j[n].items) => m \notin DOMAIN journal'

LEMMA RenderFacts ==
    ASSUME NEW j, \A m \in DOMAIN j : j[m] \in Record, NEW now, NEW next \in Pages,
           Render(j, now, next)
    PROVE  /\ rows' = now /\ shown' = journal' /\ Leaves(j, now)
           /\ UNCHANGED <<row, submitted, started, awaited, request, lastUndo, told, doubt, elsewhere>>
           /\ page' \in Pages /\ page'.rows = next.rows /\ (page'.at = "read" <=> next.at = "read")
           /\ next.at # "idle" => page'.at # "idle"
<1> DEFINE ready     == {n \in DOMAIN j : Due(j[n])}
           reflected == {n \in ready : Reflected(j[n], now)}
           late      == {n \in ready \ reflected : ~j[n].retried}
           mark(n)   == [j[n] EXCEPT !.retried = @ \/ n \in late]
           marked    == [n \in DOMAIN j |-> mark(n)]
           gone      == reflected \cup OlderUndos(j, reflected)
<1>1. /\ rows' = now /\ journal' = Without(marked, gone) /\ shown' = journal'
      /\ page' = IF late = {} THEN next ELSE Refreshed(next)
      /\ UNCHANGED <<row, submitted, started, awaited, request, lastUndo, told, doubt, elsewhere>>
  BY DEF Render, history
<1>2. ASSUME NEW n \in DOMAIN j
      PROVE  /\ mark(n) \in Record /\ mark(n).op = j[n].op /\ mark(n).items = j[n].items
             /\ mark(n).revs = j[n].revs /\ mark(n).status = j[n].status /\ mark(n).due = j[n].due
             /\ mark(n).answered = j[n].answered
  <2>1. j[n] \in Record
    OBVIOUS
  <2>2. (j[n].retried \/ n \in late) \in BOOLEAN
    OBVIOUS
  <2> HIDE DEF late
  <2> QED
    BY <2>1, <2>2 DEF Record
<1>3. /\ DOMAIN journal' = DOMAIN j \ gone
      /\ \A m \in DOMAIN j \ gone : journal'[m] = mark(m)
  <2> HIDE DEF gone, mark
  <2>1. DOMAIN marked = DOMAIN j /\ \A m \in DOMAIN j : marked[m] = mark(m)
    OBVIOUS
  <2> HIDE DEF marked
  <2>2. DOMAIN Without(marked, gone) = DOMAIN marked \ gone
        /\ \A m \in DOMAIN marked \ gone : Without(marked, gone)[m] = marked[m]
    BY WithoutFacts
  <2> QED
    BY <1>1, <2>1, <2>2
<1>4. \A m : m \in reflected <=> m \in DOMAIN j /\ j[m].due = "due" /\ Reflected(j[m], now)
  BY DEF Due
<1>5. \A m : m \in OlderUndos(j, reflected) <=>
         /\ m \in DOMAIN j /\ j[m].op = "undo"
         /\ \E n \in reflected : /\ m < n /\ j[n].op = "answer" /\ j[n].status = "indeterminate"
                                 /\ j[m].items \subseteq j[n].items
  BY DEF OlderUndos
<1>6. \A m : m \in gone <=> m \in reflected \/ m \in OlderUndos(j, reflected)
  OBVIOUS
<1>7. page' \in Pages /\ page'.rows = next.rows /\ (page'.at = "read" <=> next.at = "read")
      /\ (next.at # "idle" => page'.at # "idle")
  <2> HIDE DEF late
  <2> QED
    BY <1>1, RefreshedFacts DEF Pages
<1> HIDE DEF ready, reflected, late, mark, marked, gone
<1>8. ASSUME NEW m \in DOMAIN journal'
      PROVE  /\ m \in DOMAIN j /\ journal'[m] \in Record
             /\ journal'[m].op = j[m].op /\ journal'[m].items = j[m].items
             /\ journal'[m].revs = j[m].revs /\ journal'[m].status = j[m].status
             /\ journal'[m].due = j[m].due /\ Items(journal'[m]) = Items(j[m])
             /\ journal'[m].due = "due" => ~Reflected(journal'[m], now)
  <2>1. m \in DOMAIN j /\ m \notin gone /\ journal'[m] = mark(m)
    BY <1>3
  <2>2. /\ mark(m) \in Record /\ mark(m).op = j[m].op /\ mark(m).items = j[m].items
        /\ mark(m).revs = j[m].revs /\ mark(m).status = j[m].status /\ mark(m).due = j[m].due
        /\ mark(m).answered = j[m].answered
    BY <1>2, <2>1
  <2>3. Items(mark(m)) = Items(j[m])
    BY <2>2 DEF Items
  <2>4. Reflected(mark(m), now) <=> Reflected(j[m], now)
    BY <2>2, <2>3 DEF Reflected, Snapshot
  <2>5. j[m].due = "due" => ~Reflected(j[m], now)
    BY <1>4, <1>6, <2>1
  <2> QED
    BY <2>1, <2>2, <2>3, <2>4, <2>5
<1>9. ASSUME NEW m \in DOMAIN j, m \notin DOMAIN journal'
      PROVE  \/ j[m].due = "due" /\ Reflected(j[m], now)
             \/ j[m].op = "undo" /\ \E n \in DOMAIN j :
                   m < n /\ j[n].op = "answer" /\ j[n].status = "indeterminate"
                   /\ j[m].items \subseteq j[n].items
  BY <1>3, <1>4, <1>5, <1>6, <1>9
<1>10. ASSUME NEW m \in DOMAIN j, NEW n \in DOMAIN j,
              n \notin DOMAIN journal', j[n].op = "answer", j[n].status = "indeterminate",
              m < n, j[m].op = "undo", j[m].items \subseteq j[n].items
       PROVE  m \notin DOMAIN journal'
  <2>1. n \in gone /\ n \notin OlderUndos(j, reflected)
    BY <1>3, <1>5, <1>10
  <2>2. n \in reflected
    BY <1>6, <2>1
  <2>3. m \in OlderUndos(j, reflected)
    BY <1>5, <1>10, <2>2
  <2> QED
    BY <1>3, <1>6, <2>3
<1> QED
  BY <1>1, <1>7, <1>8, <1>9, <1>10 DEF Leaves

\* What the following lemmas use of a render: only an arriving page has new
\* rows, and makes the waiting records due.
Renders ==
    /\ UNCHANGED <<row, submitted, started, awaited, request, lastUndo, told, doubt, elsewhere>>
    /\ shown' = journal' /\ page' \in Pages
    /\ DOMAIN journal' \subseteq DOMAIN journal
    /\ \A m \in DOMAIN journal' :
          /\ journal'[m] \in Record
          /\ journal'[m].op = journal[m].op /\ journal'[m].items = journal[m].items
          /\ journal'[m].revs = journal[m].revs /\ journal'[m].status = journal[m].status
          /\ Items(journal'[m]) = Items(journal[m])
          /\ journal'[m].due = "no" <=> journal[m].due = "no"
          /\ journal'[m].due = "due" => ~Reflected(journal'[m], rows')
    /\ \A m \in DOMAIN journal : m \notin DOMAIN journal' =>
          \/ journal[m].due # "no" /\ Reflected(journal[m], rows')
          \/ journal[m].op = "undo" /\ \E n \in DOMAIN journal :
                m < n /\ journal[n].op = "answer" /\ journal[n].status = "indeterminate"
                /\ journal[m].items \subseteq journal[n].items
    /\ \A m, n \in DOMAIN journal :
          (/\ n \notin DOMAIN journal' /\ journal[n].op = "answer" /\ journal[n].status = "indeterminate"
           /\ m < n /\ journal[m].op = "undo" /\ journal[m].items \subseteq journal[n].items)
          => m \notin DOMAIN journal'
    /\ \/ /\ rows' = rows /\ page'.rows = page.rows /\ (page'.at = "read" <=> page.at = "read")
          /\ page.at # "idle" => page'.at # "idle"
          /\ \A m \in DOMAIN journal' : journal'[m].due = journal[m].due
          /\ \A m \in DOMAIN journal : (m \notin DOMAIN journal' /\ journal[m].due = "waiting") =>
                journal[m].op = "undo" /\ \E n \in DOMAIN journal :
                   m < n /\ journal[n].op = "answer" /\ journal[n].status = "indeterminate"
                   /\ journal[m].items \subseteq journal[n].items
       \/ /\ page.at = "read" /\ rows' = page.rows /\ page'.at # "read"
          /\ \A m \in DOMAIN journal' : journal'[m].due # "waiting"

LEMMA PaintRenders ==
    ASSUME BookInv, Paint
    PROVE  Renders
<1>1. /\ \A m \in DOMAIN journal : journal[m] \in Record
      /\ page \in Pages
  BY DEF BookInv, JournalTypeOK, Pages
<1>2. Render(journal, rows, page)
  BY DEF Paint
<1>3. /\ rows' = rows /\ shown' = journal' /\ Leaves(journal, rows)
      /\ UNCHANGED <<row, submitted, started, awaited, request, lastUndo, told, doubt, elsewhere>>
      /\ page' \in Pages /\ page'.rows = page.rows /\ (page'.at = "read" <=> page.at = "read")
      /\ page.at # "idle" => page'.at # "idle"
  BY <1>1, <1>2, RenderFacts
<1> QED
  BY <1>3 DEF Leaves, Renders

LEMMA ArriveRenders ==
    ASSUME BookInv, Arrive
    PROVE  Renders
<1> DEFINE r(m) == IF journal[m].due = "waiting" THEN [journal[m] EXCEPT !.due = "due"] ELSE journal[m]
           j == [m \in DOMAIN journal |-> r(m)]
           next == [Idle EXCEPT !.at = IF page.again THEN "asked" ELSE "idle"]
<1>1. page.at = "read" /\ Render(j, page.rows, next)
  BY DEF Arrive
<1>2. ASSUME NEW m \in DOMAIN journal
      PROVE  /\ r(m) \in Record
             /\ r(m).op = journal[m].op /\ r(m).items = journal[m].items
             /\ r(m).revs = journal[m].revs /\ r(m).status = journal[m].status
             /\ r(m).answered = journal[m].answered
             /\ r(m).due = IF journal[m].due = "waiting" THEN "due" ELSE journal[m].due
  <2>1. journal[m] \in Record
    BY DEF BookInv, JournalTypeOK
  <2> QED
    BY <2>1 DEF Record
<1>3. DOMAIN j = DOMAIN journal /\ \A m \in DOMAIN journal : j[m] = r(m)
  OBVIOUS
<1>4. next \in Pages /\ next.at # "read"
  <2>1. Nothing \in [Item -> Nat]
    BY DEF Nothing
  <2> HIDE DEF Nothing
  <2> QED
    BY <2>1 DEF Idle, Pages
<1> HIDE DEF j, next, r
<1>5. \A m \in DOMAIN j : j[m] \in Record
  BY <1>2, <1>3
<1>6. /\ rows' = page.rows /\ shown' = journal' /\ Leaves(j, page.rows)
      /\ UNCHANGED <<row, submitted, started, awaited, request, lastUndo, told, doubt, elsewhere>>
      /\ page' \in Pages /\ (page'.at = "read" <=> next.at = "read")
  BY <1>1, <1>4, <1>5, RenderFacts
<1>7. \A m \in DOMAIN journal :
         /\ j[m].op = journal[m].op /\ j[m].items = journal[m].items
         /\ j[m].revs = journal[m].revs /\ j[m].status = journal[m].status
         /\ j[m].due = IF journal[m].due = "waiting" THEN "due" ELSE journal[m].due
         /\ Items(j[m]) = Items(journal[m])
  BY <1>2, <1>3 DEF Items
<1>8. \A m \in DOMAIN journal : Reflected(j[m], page.rows) <=> Reflected(journal[m], page.rows)
  BY <1>7 DEF Reflected, Snapshot
<1>9. ASSUME NEW m \in DOMAIN journal'
      PROVE  /\ m \in DOMAIN journal /\ journal'[m] \in Record
             /\ journal'[m].op = journal[m].op /\ journal'[m].items = journal[m].items
             /\ journal'[m].revs = journal[m].revs /\ journal'[m].status = journal[m].status
             /\ Items(journal'[m]) = Items(journal[m])
             /\ journal'[m].due = "no" <=> journal[m].due = "no"
             /\ journal'[m].due = "due" => ~Reflected(journal'[m], page.rows)
             /\ journal'[m].due # "waiting"
  <2>1. m \in DOMAIN journal
    BY <1>3, <1>6 DEF Leaves
  <2>2. /\ journal'[m] \in Record
        /\ journal'[m].op = j[m].op /\ journal'[m].items = j[m].items
        /\ journal'[m].revs = j[m].revs /\ journal'[m].status = j[m].status
        /\ journal'[m].due = j[m].due /\ Items(journal'[m]) = Items(j[m])
        /\ journal'[m].due = "due" => ~Reflected(journal'[m], page.rows)
    BY <1>6 DEF Leaves
  <2> QED
    BY <1>7, <2>1, <2>2
<1>10. ASSUME NEW m \in DOMAIN journal, m \notin DOMAIN journal'
       PROVE  \/ journal[m].due # "no" /\ Reflected(journal[m], page.rows)
              \/ journal[m].op = "undo" /\ \E n \in DOMAIN journal :
                    m < n /\ journal[n].op = "answer" /\ journal[n].status = "indeterminate"
                    /\ journal[m].items \subseteq journal[n].items
  <2>1. \/ j[m].due = "due" /\ Reflected(j[m], page.rows)
        \/ j[m].op = "undo" /\ \E n \in DOMAIN j :
              m < n /\ j[n].op = "answer" /\ j[n].status = "indeterminate"
              /\ j[m].items \subseteq j[n].items
    BY <1>3, <1>6, <1>10 DEF Leaves
  <2> QED
    BY <1>3, <1>7, <1>8, <2>1
<1>11. ASSUME NEW m \in DOMAIN journal, NEW n \in DOMAIN journal,
              n \notin DOMAIN journal', journal[n].op = "answer", journal[n].status = "indeterminate",
              m < n, journal[m].op = "undo", journal[m].items \subseteq journal[n].items
       PROVE  m \notin DOMAIN journal'
  <2>1. j[n].op = "answer" /\ j[n].status = "indeterminate" /\ j[m].op = "undo"
        /\ j[m].items \subseteq j[n].items
    BY <1>7, <1>11
  <2> QED
    BY <1>3, <1>6, <1>11, <2>1 DEF Leaves
<1> QED
  BY <1>1, <1>4, <1>6, <1>9, <1>10, <1>11 DEF Renders

\* A submission that is not settled keeps its record.
LEMMA RenderKeepsOpen ==
    ASSUME BookInv, Renders, NEW m \in DOMAIN journal, Open(m)
    PROVE  m \in DOMAIN journal' /\ journal[m].due = "no"
<1>1. JournalTypeOK /\ m \in Job /\ m \in Nat /\ m >= started /\ started \in Nat
  BY OpenType, JournalType DEF BookInv, Job
<1>2. RecordPlace(m, journal[m])
  BY DEF BookInv, RecordOK
<1>3. journal[m].status = "queued" /\ journal[m].due = "no"
  BY <1>2 DEF RecordPlace
<1> SUFFICES ASSUME m \notin DOMAIN journal' PROVE FALSE
  BY <1>3
<1>4. PICK n \in DOMAIN journal : m < n /\ journal[n].status = "indeterminate"
  BY <1>3 DEF Renders
<1>5. n <= started /\ n \in Nat
  BY <1>1, <1>4, JournalType DEF BookInv, RecordOK, RecordPlace, Job
<1> QED
  BY <1>1, <1>4, <1>5

LEMMA RenderBook ==
    ASSUME BookInv, Renders
    PROVE  BookInv'
<1>0. /\ UNCHANGED <<row, submitted, started, awaited, request, lastUndo, told, doubt, elsewhere>>
      /\ shown' = journal' /\ page' \in Pages
      /\ DOMAIN journal' \subseteq DOMAIN journal
      /\ \A m \in DOMAIN journal' :
          /\ journal'[m] \in Record
          /\ journal'[m].op = journal[m].op /\ journal'[m].items = journal[m].items
          /\ journal'[m].revs = journal[m].revs /\ journal'[m].status = journal[m].status
          /\ Items(journal'[m]) = Items(journal[m])
          /\ journal'[m].due = "no" <=> journal[m].due = "no"
          /\ journal'[m].due = "due" => ~Reflected(journal'[m], rows')
      /\ \/ /\ rows' = rows /\ page'.rows = page.rows /\ (page'.at = "read" <=> page.at = "read")
            /\ page.at # "idle" => page'.at # "idle"
            /\ \A m \in DOMAIN journal' : journal'[m].due = journal[m].due
         \/ /\ page.at = "read" /\ rows' = page.rows /\ page'.at # "read"
            /\ \A m \in DOMAIN journal' : journal'[m].due # "waiting"
  BY DEF Renders
<1>1. JournalTypeOK
  BY DEF BookInv
<1>2. \A m : (Open(m)' <=> Open(m)) /\ (Unsure(m)' <=> Unsure(m))
  BY <1>0 DEF Open, Unsure
<1>3. JournalTypeOK'
  <2>1. rows' \in [Item -> Nat]
    BY <1>0, <1>1 DEF JournalTypeOK
  <2>2. \A m \in DOMAIN journal' : Items(journal'[m]) # {}
    BY <1>0, <1>1, JournalType
  <2>3. DOMAIN journal' \subseteq 1 .. submitted'
    BY <1>0, <1>1 DEF JournalTypeOK
  <2> QED
    BY <1>0, <1>1, <2>1, <2>2, <2>3 DEF JournalTypeOK, Pages
<1>4. ASSUME NEW m \in Job
      PROVE  RequestOK(m)' /\ OpenIsQueued(m)'
  <2>1. RequestOK(m) /\ OpenIsQueued(m)
    BY DEF BookInv
  <2>2. RequestUndos(m, request[m])'
    BY <1>0, <2>1 DEF RequestOK, RequestUndos
  <2>3. RequestPlace(m, request[m])'
    BY <1>0, <1>2, <2>1 DEF RequestOK, RequestPlace
  <2>4. OpenIsQueued(m)'
    BY <1>0, <1>2, <2>1, RenderKeepsOpen DEF OpenIsQueued
  <2> QED
    BY <1>0, <2>1, <2>2, <2>3, <2>4 DEF RequestOK
<1>5. ASSUME NEW m \in DOMAIN journal'
      PROVE  RecordOK(m)' /\ ShownOK(m)'
  <2>1. m \in DOMAIN journal /\ RecordOK(m) /\ m \in Job /\ journal'[m] \in Record
    BY <1>0, <1>1, JournalType DEF BookInv
  <2>2. RecordDated(journal[m], row)'
    BY <1>0, <2>1 DEF RecordOK, RecordDated
  <2>3. RecordPlace(m, journal[m])'
    <3>1. journal'[m].due = "waiting" => page'.at # "idle"
      BY <1>0, <2>1 DEF RecordOK, RecordPlace
    <3> QED
      BY <1>0, <1>2, <2>1, <3>1 DEF RecordOK, RecordPlace
  <2>4. RecordDoubt(journal[m])'
    BY <1>0, <2>1 DEF RecordOK, RecordDoubt
  <2>5. ShownPlace(m, shown[m])'
    <3>1. OpenIsQueued(m)'
      BY <1>4, <2>1
    <3> QED
      BY <1>0, <2>3, <3>1 DEF RecordPlace, ShownPlace, OpenIsQueued
  <2>6. ShownDated(shown[m], row)'
    BY <1>0, <2>2 DEF RecordDated, ShownDated
  <2> QED
    BY <1>0, <2>2, <2>3, <2>4, <2>5, <2>6 DEF RecordOK, ShownOK
<1>6. UndosOK' /\ (awaited' => started' > 0)
  BY <1>0 DEF BookInv, UndosOK
<1>7. RowsOK'
  BY <1>0 DEF BookInv, RowsOK
<1> QED
  BY <1>0, <1>3, <1>4, <1>5, <1>6, <1>7 DEF BookInv

LEMMA RenderOrder ==
    ASSUME BookInv, OrderInv, Renders
    PROVE  OrderInv'
<1>0. /\ UNCHANGED <<submitted, started, awaited, request, lastUndo>>
      /\ shown' = journal' /\ DOMAIN journal' \subseteq DOMAIN journal
      /\ \A m \in DOMAIN journal' :
          /\ journal'[m].op = journal[m].op /\ journal'[m].items = journal[m].items
          /\ journal'[m].revs = journal[m].revs /\ journal'[m].status = journal[m].status
          /\ Items(journal'[m]) = Items(journal[m])
  BY DEF Renders
<1>1. \A m : Open(m)' <=> Open(m)
  BY <1>0 DEF Open
<1>2. SettledIsShown' /\ ShownIsCurrent'
  BY <1>0 DEF SettledIsShown, ShownIsCurrent
<1>3. Supersedes(shown)' /\ Supersedes(journal)'
  BY <1>0 DEF OrderInv, Supersedes
<1>4. FirstCome' /\ SameView'
  BY <1>0, <1>1 DEF OrderInv, FirstCome, SameView
<1>5. Unshown'
  <2>1. \A m \in Job : Open(m) => m \in DOMAIN journal'
    BY RenderKeepsOpen DEF BookInv, OpenIsQueued
  <2> QED
    BY <1>0, <1>1, <2>1 DEF Unshown
<1>6. BulkStays'
  BY <1>0, <1>1 DEF OrderInv, BulkStays
<1> QED
  BY <1>2, <1>3, <1>4, <1>5, <1>6 DEF OrderInv

\* The server is not ahead of what the page knows of a restored item.
LEMMA KnownIsLast ==
    ASSUME BookInv, NEW i \in Item, SureOK(i), Known(i) # 0
    PROVE  row[i].rev = Known(i) /\ Known(i) \in Nat
<1>0. JournalTypeOK /\ row[i].rev \in Nat /\ Pending[i] \in Nat
  BY JournalType DEF BookInv
<1>1. CASE Served(i)
  <2>1. request[started].op # "undo" /\ Known(i) = request[started].revs[i]
    BY <1>1 DEF Known
  <2>2. started \in Job
    BY <1>1, AwaitedJob DEF Served
  <2>3. request[started].revs[i] \in Nat
    BY <1>0, <2>2, RequestType
  <2>4. row[i].rev = request[started].revs[i] + 0
    BY <1>1, <2>1 DEF SureOK
  <2> QED
    BY <2>1, <2>3, <2>4
<1>2. CASE ~Served(i)
  <2>1. Known(i) = Pending[i]
    BY <1>2 DEF Known
  <2> QED
    BY <1>0, <2>1 DEF Pending
<1> QED
  BY <1>1, <1>2

LEMMA RenderSure ==
    ASSUME BookInv, SureInv, Renders
    PROVE  SureInv'
<1>0. /\ UNCHANGED <<row, submitted, started, awaited, request, lastUndo, told, doubt, elsewhere>>
      /\ DOMAIN journal' \subseteq DOMAIN journal
      /\ \A m \in DOMAIN journal' :
          /\ journal'[m].op = journal[m].op /\ journal'[m].revs = journal[m].revs
          /\ journal'[m].status = journal[m].status /\ Items(journal'[m]) = Items(journal[m])
      /\ \A m \in DOMAIN journal : m \notin DOMAIN journal' =>
          \/ journal[m].due # "no" /\ Reflected(journal[m], rows')
          \/ journal[m].op = "undo" /\ \E n \in DOMAIN journal :
                m < n /\ journal[n].op = "answer" /\ journal[n].status = "indeterminate"
                /\ journal[m].items \subseteq journal[n].items
      /\ \/ /\ rows' = rows /\ page'.rows = page.rows /\ (page'.at = "read" <=> page.at = "read")
            /\ \A m \in DOMAIN journal' : journal'[m].due = journal[m].due
            /\ \A m \in DOMAIN journal : (m \notin DOMAIN journal' /\ journal[m].due = "waiting") =>
                journal[m].op = "undo" /\ \E n \in DOMAIN journal :
                   m < n /\ journal[n].op = "answer" /\ journal[n].status = "indeterminate"
                   /\ journal[m].items \subseteq journal[n].items
         \/ page.at = "read" /\ rows' = page.rows /\ page'.at # "read"
  BY DEF Renders
<1>1. JournalTypeOK
  BY DEF BookInv
<1>2. /\ \A m : Open(m)' <=> Open(m)
      /\ \A j : (Sure(j)' <=> Sure(j)) /\ (Served(j)' <=> Served(j))
      /\ Pending' = Pending
  BY <1>0 DEF Open, Sure, Unsure, Served, Pending
<1> SUFFICES ASSUME NEW j \in Item, Sure(j)'
             PROVE  SureOK(j)'
  BY DEF SureInv
<1>3. Sure(j) /\ SureOK(j)
  BY <1>2 DEF SureInv
<1>4. Known(j)' = Known(j)
  BY <1>0, <1>2 DEF Known, Served
<1>5. \A m : Changed(m, j)' => Changed(m, j)
  BY <1>0 DEF Changed
\* No older restoration of a sure item goes with an answer in doubt.
<1>6. ASSUME NEW m \in DOMAIN journal, j \in Items(journal[m])
      PROVE  \A n \in DOMAIN journal :
                ~(/\ journal[n].op = "answer" /\ journal[n].status = "indeterminate"
                  /\ journal[m].items \subseteq journal[n].items)
  <2> SUFFICES ASSUME NEW n \in DOMAIN journal,
                      journal[n].op = "answer", journal[n].status = "indeterminate",
                      journal[m].items \subseteq journal[n].items
               PROVE  FALSE
    OBVIOUS
  <2>1. j \in journal[n].items
    BY <1>6, ItemsWithin
  <2>2. <<"late", j>> \in doubt
    BY <2>1 DEF BookInv, RecordOK, RecordDoubt
  <2>3. <<"late", j>>[2] = j
    OBVIOUS
  <2> QED
    BY <1>3, <2>2, <2>3 DEF Sure, Unsure
<1>7. rows'[j] \in Nat /\ rows'[j] <= row[j].rev
  BY <1>0, <1>1, JournalType DEF BookInv, RowsOK
<1>8. ASSUME NEW m \in Job, Changed(m, j), m \notin DOMAIN journal'
      PROVE  rows'[j] = Known(j) /\ journal[m].due # "no"
  <2>1. /\ m \in DOMAIN journal /\ j \in Items(journal[m]) /\ journal[m].status = "succeeded"
        /\ journal[m].revs[j] \in Nat
    BY <1>1, <1>8, JournalType DEF Changed
  <2>2. journal[m].due # "no" /\ Reflected(journal[m], rows')
    BY <1>0, <1>6, <1>8, <2>1
  <2>3. Known(j) = IF journal[m].op = "undo" THEN journal[m].revs[j] + 1 ELSE 0
    BY <1>3, <1>8 DEF SureOK
  <2>4. CASE journal[m].op = "undo"
    <3>1. rows'[j] >= journal[m].revs[j] + 1
      BY <2>1, <2>2, <2>4 DEF Reflected, Snapshot
    <3>2. row[j].rev = Known(j)
      BY <1>3, <2>1, <2>3, <2>4, KnownIsLast
    <3> QED
      BY <1>7, <2>1, <2>2, <2>3, <2>4, <3>1, <3>2
  <2>5. CASE journal[m].op # "undo"
    BY <2>1, <2>2, <2>3, <2>5 DEF Reflected
  <2> QED
    BY <2>2, <2>4, <2>5
<1>9. (\A m \in Job : ~Changed(m, j)') => rows'[j] \in {Known(j), Pending[j]}
  <2> SUFFICES ASSUME \A m \in Job : ~Changed(m, j)'
               PROVE  rows'[j] \in {Known(j), Pending[j]}
    OBVIOUS
  <2>1. CASE \E m \in Job : Changed(m, j)
    <3>1. PICK m \in Job : Changed(m, j)
      BY <2>1
    <3>2. m \notin DOMAIN journal'
      BY <1>0, <3>1 DEF Changed
    <3> QED
      BY <1>8, <3>1, <3>2
  <2>2. CASE \A m \in Job : ~Changed(m, j)
    BY <1>0, <1>3, <2>2 DEF SureOK
  <2> QED
    BY <2>1, <2>2
<1>10. (page'.at = "read" /\ \A m \in Job : Changed(m, j)' => journal'[m].due = "due")
          => page'.rows[j] \in {Known(j), Pending[j]}
  <2> SUFFICES ASSUME page'.at = "read", \A m \in Job : Changed(m, j)' => journal'[m].due = "due"
               PROVE  page'.rows[j] \in {Known(j), Pending[j]}
    OBVIOUS
  <2>1. /\ page'.rows = page.rows /\ page.at = "read"
        /\ \A m \in DOMAIN journal' : journal'[m].due = journal[m].due
        /\ \A m \in DOMAIN journal : (m \notin DOMAIN journal' /\ journal[m].due = "waiting") =>
                journal[m].op = "undo" /\ \E n \in DOMAIN journal :
                   m < n /\ journal[n].op = "answer" /\ journal[n].status = "indeterminate"
                   /\ journal[m].items \subseteq journal[n].items
    BY <1>0
  <2>2. ASSUME NEW m \in Job, Changed(m, j)
        PROVE  journal[m].due = "due"
    <3>1. m \in DOMAIN journal /\ j \in Items(journal[m]) /\ journal[m].status = "succeeded"
          /\ journal[m].due \in {"no", "waiting", "due"}
      BY <1>1, <2>2, JournalType, RecordType DEF Changed
    <3>2. CASE m \in DOMAIN journal'
      BY <1>0, <2>1, <3>1, <3>2 DEF Changed
    <3>3. CASE m \notin DOMAIN journal'
      BY <1>6, <1>8, <2>1, <2>2, <3>1, <3>3
    <3> QED
      BY <3>2, <3>3
  <2> QED
    BY <1>3, <2>1, <2>2 DEF SureOK
<1>11. \A m \in Job : Changed(m, j)' =>
          Known(j) = IF journal'[m].op = "undo" THEN journal'[m].revs[j] + 1 ELSE 0
  <2> SUFFICES ASSUME NEW m \in Job, Changed(m, j)'
               PROVE  Known(j) = IF journal'[m].op = "undo" THEN journal'[m].revs[j] + 1 ELSE 0
    OBVIOUS
  <2>1. m \in DOMAIN journal' /\ Changed(m, j)
    BY <1>5 DEF Changed
  <2> QED
    BY <1>0, <1>3, <2>1 DEF SureOK
<1> QED
  BY <1>0, <1>2, <1>3, <1>4, <1>9, <1>10, <1>11 DEF SureOK

LEMMA RenderPlain ==
    ASSUME BookInv, PlainInv, Renders
    PROVE  PlainInv'
<1>0. /\ UNCHANGED <<row, submitted, started, awaited, request, lastUndo, told, doubt, elsewhere>>
      /\ DOMAIN journal' \subseteq DOMAIN journal
      /\ \A m \in DOMAIN journal' :
          /\ journal'[m].op = journal[m].op /\ journal'[m].items = journal[m].items
          /\ journal'[m].revs = journal[m].revs /\ journal'[m].status = journal[m].status
      /\ \A m, n \in DOMAIN journal :
          (/\ n \notin DOMAIN journal' /\ journal[n].op = "answer" /\ journal[n].status = "indeterminate"
           /\ m < n /\ journal[m].op = "undo" /\ journal[m].items \subseteq journal[n].items)
          => m \notin DOMAIN journal'
  BY DEF Renders
<1>1. \A m : Open(m)' <=> Open(m)
  BY <1>0 DEF Open
<1> SUFFICES ASSUME NEW j \in Item, NEW m \in Job, Plain(j)', Undone(m, j)'
             PROVE  UndoneOK(m, j)'
  BY DEF PlainInv
<1>2. /\ m \in DOMAIN journal' /\ m \in DOMAIN journal /\ journal[m].op = "undo"
      /\ j \in journal[m].items /\ Undone(m, j) /\ Plain(j)
  BY <1>0, <1>1 DEF Undone, Plain
<1>3. UndoneOK(m, j)
  BY <1>2 DEF PlainInv
<1>4. journal[m].items = {j}
  BY <1>2 DEF BookInv, RecordOK, RecordPlace, Single
<1>5. ASSUME NEW k \in Job, Overtakes(k, m, j), Open(k) \/ InDoubt(k)
      PROVE  Overtakes(k, m, j)' /\ (InDoubt(k) => InDoubt(k)')
  <2>1. k > m /\ k \in DOMAIN journal /\ j \in journal[k].items /\ journal[k].op # "undo"
    BY <1>5 DEF Overtakes
  <2>2. k \in DOMAIN journal'
    <3>1. CASE Open(k)
      BY <2>1, <3>1, RenderKeepsOpen
    <3>2. CASE InDoubt(k)
      <4>1. journal[k].op = "answer" /\ journal[k].status = "indeterminate"
            /\ journal[m].items \subseteq journal[k].items /\ m < k
        BY <1>4, <2>1, <3>2 DEF InDoubt
      <4> QED
        BY <1>0, <1>2, <2>1, <4>1
    <3> QED
      BY <1>5, <3>1, <3>2
  <2> QED
    BY <1>0, <2>1, <2>2 DEF Overtakes, InDoubt
<1>6. \/ row'[j].status = "pending" /\ row'[j].rev > journal'[m].revs[j]
      \/ \E k \in Job : Overtakes(k, m, j)' /\ ((Open(k)' /\ j \in request'[k].done) \/ InDoubt(k)')
  BY <1>0, <1>1, <1>2, <1>3, <1>5 DEF UndoneOK
<1>7. ASSUME NEW k \in Job, request'[k].at # "none", j \in request'[k].items,
              request'[k].revs[j] > journal'[m].revs[j]
      PROVE  Overtakes(k, m, j)' /\ request'[k].op # "undo" /\ (Open(k)' \/ InDoubt(k)')
  <2>1. Overtakes(k, m, j) /\ request[k].op # "undo" /\ (Open(k) \/ InDoubt(k))
    BY <1>0, <1>2, <1>3, <1>7 DEF UndoneOK
  <2> QED
    BY <1>0, <1>1, <1>5, <2>1
<1>8. \A u \in lastUndo' : u[1] = j => u[2] <= journal'[m].revs[j]
  BY <1>0, <1>2, <1>3 DEF UndoneOK
<1> QED
  BY <1>6, <1>7, <1>8 DEF UndoneOK

LEMMA RenderStep ==
    ASSUME JournalInv, Paint \/ Arrive
    PROVE  JournalInv'
<1>0. BookInv /\ OrderInv /\ SureInv /\ PlainInv /\ NoSelfConflict
  BY DEF JournalInv
<1>1. Renders
  BY <1>0, PaintRenders, ArriveRenders
<1>2. NoSelfConflict'
  BY <1>0, <1>1 DEF Renders, NoSelfConflict, Unsure
<1> QED
  BY <1>0, <1>1, <1>2, RenderBook, RenderOrder, RenderSure, RenderPlain DEF JournalInv

---------------------------------------------------------------------------
(* The inductive invariant                                                 *)

LEMMA InitInv ==
    ASSUME JournalInit
    PROVE  JournalInv
<1>1. /\ \A i \in Item : row[i] = [status |-> "pending", rev |-> 1]
      /\ submitted = 0 /\ started = 0 /\ awaited = FALSE
      /\ \A n \in Job : request[n] = NoRequest
      /\ DOMAIN journal = {} /\ DOMAIN shown = {}
      /\ rows = Pending /\ page = Idle /\ lastUndo = {}
      /\ told = Nothing /\ doubt = {} /\ elsewhere = {}
  BY DEF JournalInit
<1>2. \A i \in Item : row[i].status = "pending" /\ row[i].rev = 1 /\ Pending[i] = 1
  BY <1>1 DEF Pending
<1>3. \A n : ~Open(n)
  BY <1>1 DEF Open
<1>4. Nothing \in [Item -> Nat] /\ \A i \in Item : Nothing[i] = 0
  BY DEF Nothing
<1>5. JournalTypeOK
  <2>1. row \in [Item -> [status : {"pending", "answered", "read", "gone"}, rev : Nat]]
    BY DEF JournalInit
  <2>2. request \in [Job -> Request]
    BY NoRequestType DEF JournalInit
  <2>3. \A n \in Job : request[n].at = "queued" <=> n \in started + 1 .. submitted
    BY <1>1, NoRequestType
  <2>4. rows \in [Item -> Nat]
    BY <1>1, <1>2 DEF Pending
  <2>5. page \in [at : {"idle", "asked", "read"}, rows : [Item -> Nat], again : BOOLEAN]
    <3> HIDE DEF Nothing
    <3> QED
      BY <1>1, <1>4 DEF Idle
  <2>6. Cardinality(lastUndo) <= 1
    BY <1>1, FS_EmptySet
  <2>7. submitted \in 0 .. MaxJobs /\ started \in 0 .. submitted
    BY <1>1, JournalAssumption
  <2> QED
    BY <1>1, <1>4, <2>1, <2>2, <2>3, <2>4, <2>5, <2>6, <2>7 DEF JournalTypeOK
<1>6. \A n \in Job : RequestOK(n) /\ OpenIsQueued(n)
  BY <1>1, <1>3, NoRequestType
     DEF RequestOK, RequestShape, RequestDated, RequestUndos, RequestPlace, OpenIsQueued
<1>7. UndosOK /\ RowsOK
  BY <1>1, <1>2 DEF UndosOK, RowsOK, Idle
<1>8. BookInv
  BY <1>1, <1>5, <1>6, <1>7 DEF BookInv
<1>9. OrderInv
  BY <1>1, <1>3 DEF OrderInv, SettledIsShown, ShownIsCurrent, Supersedes, FirstCome, SameView,
                    Unshown, BulkStays
<1>10. SureInv
  <2> SUFFICES ASSUME NEW i \in Item PROVE SureOK(i)
    BY DEF SureInv
  <2>1. ~Served(i) /\ Known(i) = 1 /\ \A n : ~Changed(n, i)
    BY <1>1, <1>2 DEF Served, Known, Changed
  <2> QED
    BY <1>1, <1>2, <1>3, <1>4, <2>1 DEF SureOK, Idle
<1>11. PlainInv /\ NoSelfConflict
  BY <1>1, NoRequestType DEF PlainInv, Undone, NoSelfConflict
<1> QED
  BY <1>8, <1>9, <1>10, <1>11 DEF JournalInv

LEMMA StutterStep ==
    ASSUME JournalInv, UNCHANGED vars
    PROVE  JournalInv'
<1>0. UNCHANGED <<row, submitted, started, awaited, request, journal, shown, rows, page, lastUndo,
                  told, doubt, elsewhere>>
  BY DEF vars, history
<1>1. /\ \A n : Open(n)' <=> Open(n)
      /\ \A i : /\ Unsure(i)' <=> Unsure(i)
                /\ Sure(i)' <=> Sure(i)
                /\ Plain(i)' <=> Plain(i)
                /\ Served(i)' <=> Served(i)
                /\ Projected(i)' = Projected(i)
      /\ Pending' = Pending /\ Settled' = Settled
  BY <1>0 DEF Open, Unsure, Sure, Plain, Served, Projected, Pending, Settled
<1>2. /\ \A i : (Behind(i)' <=> Behind(i)) /\ Known(i)' = Known(i)
      /\ \A n, i : (Changed(n, i)' <=> Changed(n, i)) /\ (Undone(n, i)' <=> Undone(n, i))
      /\ \A m, n, i : Overtakes(m, n, i)' <=> Overtakes(m, n, i)
      /\ \A m : InDoubt(m)' <=> InDoubt(m)
  BY <1>0, <1>1 DEF Behind, Known, Changed, Undone, Overtakes, InDoubt
<1>3. BookInv'
  <2>1. JournalTypeOK'
    BY <1>0 DEF JournalInv, BookInv, JournalTypeOK
  <2>2. \A n \in Job : RequestOK(n)' /\ OpenIsQueued(n)'
    BY <1>0, <1>1 DEF JournalInv, BookInv, RequestOK, RequestUndos, RequestPlace, OpenIsQueued
  <2>3. \A n \in DOMAIN journal' : RecordOK(n)'
    BY <1>0, <1>1 DEF JournalInv, BookInv, RecordOK, RecordPlace, RecordDoubt
  <2>4. \A n \in DOMAIN shown' : ShownOK(n)'
    BY <1>0, <1>1 DEF JournalInv, BookInv, ShownOK, ShownPlace
  <2>5. UndosOK' /\ RowsOK' /\ (awaited' => started' > 0)
    BY <1>0 DEF JournalInv, BookInv, UndosOK, RowsOK
  <2> QED
    BY <2>1, <2>2, <2>3, <2>4, <2>5 DEF BookInv
<1>4. OrderInv'
  BY <1>0, <1>1, <1>2 DEF JournalInv, OrderInv, SettledIsShown, ShownIsCurrent, Supersedes,
                          FirstCome, SameView, Unshown, BulkStays
<1>5. SureInv'
  BY <1>0, <1>1, <1>2 DEF JournalInv, SureInv, SureOK
<1>6. PlainInv'
  BY <1>0, <1>1, <1>2 DEF JournalInv, PlainInv, UndoneOK
<1>7. NoSelfConflict'
  BY <1>0, <1>1 DEF JournalInv, NoSelfConflict
<1> QED
  BY <1>3, <1>4, <1>5, <1>6, <1>7 DEF JournalInv

\* The inductive invariant holds: one lemma per action.
THEOREM Journal ==
    JournalSpec => []JournalInv
<1>1. JournalInit => JournalInv
  BY InitInv
<1>2. JournalInv /\ [JournalNext]_vars => JournalInv'
  <2> SUFFICES ASSUME JournalInv, [JournalNext]_vars
               PROVE  JournalInv'
    OBVIOUS
  <2>1. ASSUME NEW i \in Item, Answer(i) PROVE JournalInv'
    BY <2>1, EnqueueStep
  <2>2. ASSUME NEW i \in Item, Elsewhere(i) PROVE JournalInv'
    BY <2>2, ElsewhereStep
  <2>3. ASSUME NEW S \in SUBSET Item, BulkAnswer(S) PROVE JournalInv'
    BY <2>3, EnqueueStep
  <2>4. CASE Undo
    BY <2>4, EnqueueStep
  <2>5. CASE Send
    BY <2>5, SendStep
  <2>6. ASSUME NEW n \in Job, Serve(n) PROVE JournalInv'
    BY <2>6, ServeStep
  <2>7. CASE Succeed
    BY <2>7, SucceedStep
  <2>8. CASE Fail \/ Break \/ TimeOut
    BY <2>8, EndStep
  <2>9. CASE Paint \/ Arrive
    BY <2>9, RenderStep
  <2>10. CASE Load
    BY <2>10, LoadStep
  <2>11. CASE UNCHANGED vars
    BY <2>11, StutterStep
  <2> QED
    BY <2>1, <2>2, <2>3, <2>4, <2>5, <2>6, <2>7, <2>8, <2>9, <2>10, <2>11 DEF JournalNext
<1> QED
  BY <1>1, <1>2, PTL DEF JournalSpec

\* Every variable keeps its type, and every record stands for some item: an
\* earlier record goes when a confirmation takes its last item (ReviewWorkspace,
\* AppActionProvider).
THEOREM JournalTypes ==
    JournalSpec => []JournalTypeOK
<1>1. JournalInv => JournalTypeOK
  BY DEF JournalInv, BookInv
<1> QED
  BY <1>1, Journal, PTL

\* An item the page offers is a revision the server has, and one that the page
\* has not been told is answered.
THEOREM Offered ==
    JournalSpec => []OffersAreOpen
<1>1. ASSUME JournalInv
      PROVE  OffersAreOpen
  <2> USE <1>1
  <2> SUFFICES ASSUME NEW i \in Item, Offers(i)
               PROVE  Projected(i) <= row[i].rev /\ (told[i] < Projected(i) \/ Unsure(i))
    BY DEF OffersAreOpen
  <2>1. Projected(i) \in Nat /\ Projected(i) > 0 /\ Projected(i) <= row[i].rev
    BY OfferDated DEF JournalInv
  <2>2. ASSUME Sure(i)
        PROVE  told[i] < Projected(i)
    <3>1. SureOK(i)
      BY <2>2 DEF JournalInv, SureInv
    <3>2. Projected(i) \in {Known(i), Pending[i]}
      BY <2>2, <3>1, SureOffer DEF JournalInv
    <3> QED
      BY <2>1, <3>1, <3>2 DEF SureOK
  <2> QED
    BY <2>1, <2>2 DEF Sure
<1> QED
  BY <1>1, Journal, PTL

\* The answers and undos of the page are refused only when somebody else has
\* changed the item or an earlier request of it is in doubt.
THEOREM SelfConsistent ==
    JournalSpec => []NoSelfConflict
<1>1. JournalInv => NoSelfConflict
  BY DEF JournalInv
<1> QED
  BY <1>1, Journal, PTL

\* What is rendered once nothing is under way.
LEMMA Resting ==
    ASSUME JournalInv, AtRest, NEW n \in DOMAIN shown
    PROVE  /\ n \in DOMAIN journal /\ journal[n] = shown[n] /\ n \in Job /\ ~Open(n)
           /\ RecordOK(n) /\ shown[n].status \in {"succeeded", "indeterminate"}
           /\ shown[n].due = "due" /\ ~Reflected(shown[n], rows)
<1>0. JournalTypeOK /\ shown = journal /\ ~awaited /\ started = submitted /\ page.at = "idle"
  BY DEF JournalInv, BookInv, AtRest
<1>1. n \in DOMAIN journal /\ journal[n] = shown[n] /\ n \in Job /\ journal[n] \in Record
      /\ submitted \in Nat
  BY <1>0, JournalType
<1>2. ~Open(n)
  BY <1>0, <1>1 DEF Open
<1>3. RecordOK(n) /\ ShownOK(n)
  BY <1>1 DEF JournalInv, BookInv
<1>4. journal[n].status \in {"queued", "succeeded", "indeterminate"}
      /\ journal[n].due \in {"no", "waiting", "due"}
  BY <1>1, RecordType
<1>5. journal[n].status # "queued" /\ journal[n].due = "due"
  BY <1>0, <1>2, <1>3, <1>4 DEF RecordOK, RecordPlace
<1> QED
  BY <1>1, <1>2, <1>3, <1>4, <1>5 DEF ShownOK

\* What stays hidden at rest is an answer that timed out, or one of an earlier
\* revision that somebody else has undone.
THEOREM Hidden ==
    JournalSpec => []HiddenForAReason
<1>1. ASSUME JournalInv
      PROVE  HiddenForAReason
  <2> USE <1>1
  <2> SUFFICES ASSUME AtRest, NEW i \in Item, rows[i] > 0, ~Offers(i)
               PROVE  LET n == Latest(shown, i) IN
                      /\ n > 0 /\ shown[n].op # "undo"
                      /\ \/ shown[n].status = "indeterminate" /\ shown[n].op = "answer"
                         \/ shown[n].status = "succeeded" /\ shown[n].revs[i] < rows[i]
    BY DEF HiddenForAReason
  <2>0. JournalTypeOK /\ rows = Pending /\ rows[i] \in Nat /\ row[i].rev \in Nat
    BY JournalType DEF JournalInv, BookInv, AtRest
  <2>1. row[i].status = "pending" /\ row[i].rev = rows[i]
    BY <2>0 DEF Pending
  <2>2. \E n \in DOMAIN shown : i \in Items(shown[n])
    BY <2>0, OfferCases DEF Offers
  <2>3. PICK k \in DOMAIN shown :
              i \in Items(shown[k]) /\ \A n \in DOMAIN shown : i \in Items(shown[n]) => n <= k
    BY <2>0, <2>2, OfferCases
  <2>4. /\ Latest(shown, i) = k
        /\ shown[k].op = "undo" =>
              /\ Projected(i) = IF rows[i] < shown[k].revs[i] + 1 THEN shown[k].revs[i] + 1 ELSE rows[i]
              /\ Locked(i) <=> shown[k].status # "succeeded"
    BY <2>0, <2>3, OfferCases
  <2>5. /\ journal[k] = shown[k] /\ k \in Job /\ RecordOK(k)
        /\ shown[k].status \in {"succeeded", "indeterminate"} /\ ~Reflected(shown[k], rows)
    BY Resting
  <2>6. /\ shown[k].revs[i] \in Nat /\ i \in shown[k].items
        /\ shown[k].op \in {"answer", "bulk", "undo"} /\ k > 0
    BY <2>0, <2>3, <2>5, JournalType DEF Operation, Job
  <2>7. shown[k].op # "undo"
    <3> SUFFICES ASSUME shown[k].op = "undo" PROVE FALSE
      OBVIOUS
    <3>1. Passed(row[i], shown[k].revs[i])
      BY <2>5, <2>6 DEF RecordOK, RecordDated
    <3>2. rows[i] >= shown[k].revs[i] + 1
      BY <2>0, <2>1, <2>6, <3>1 DEF Passed
    <3>3. Single(shown[k].items) /\ Items(shown[k]) = shown[k].items
      BY <2>5 DEF RecordOK, RecordPlace, Items
    <3>4. shown[k].items = {i}
      BY <2>6, <3>3 DEF Single
    <3> QED
      BY <2>5, <3>2, <3>3, <3>4 DEF Reflected, Snapshot
  <2>8. shown[k].status = "succeeded" => shown[k].revs[i] < rows[i]
    <3> SUFFICES ASSUME shown[k].status = "succeeded" PROVE shown[k].revs[i] < rows[i]
      OBVIOUS
    <3>1. Passed(row[i], shown[k].revs[i])
      BY <2>3, <2>5 DEF RecordOK, RecordDated
    <3> QED
      BY <2>1, <3>1 DEF Passed
  <2>9. shown[k].status = "indeterminate" => shown[k].op = "answer"
    BY <2>5, <2>6, <2>7 DEF Reflected
  <2> QED
    BY <2>4, <2>5, <2>6, <2>7, <2>8, <2>9
<1> QED
  BY <1>1, Journal, PTL

\* What is offered at rest is pending, but for what somebody else, a bulk
\* answer that timed out or a broken connection has overtaken.
THEOREM NothingOvertaken ==
    JournalSpec => []OffersArePending
<1>1. ASSUME JournalInv
      PROVE  OffersArePending
  <2> USE <1>1
  <2> SUFFICES ASSUME AtRest, NEW i \in Item, Offers(i), Plain(i)
               PROVE  Projected(i) = rows[i]
    BY DEF OffersArePending, Plain
  <2>0. JournalTypeOK /\ BookInv /\ rows = Pending /\ rows[i] \in Nat /\ row[i].rev \in Nat
        /\ shown = journal
    BY JournalType DEF JournalInv, BookInv, AtRest
  <2>1. CASE \A n \in DOMAIN shown : i \notin Items(shown[n])
    BY <2>0, <2>1, OfferCases
  <2>2. CASE \E m \in DOMAIN shown : i \in Items(shown[m])
    <3>1. PICK k \in DOMAIN shown :
              /\ i \in Items(shown[k]) /\ \A n \in DOMAIN shown : i \in Items(shown[n]) => n <= k
              /\ shown[k].op = "undo" /\ shown[k].status = "succeeded"
              /\ Projected(i) = IF rows[i] < shown[k].revs[i] + 1 THEN shown[k].revs[i] + 1 ELSE rows[i]
      BY <2>0, <2>2, OfferHasUndo
    <3>2. k \in Job /\ k \in Nat /\ journal[k] = shown[k] /\ i \in journal[k].items
          /\ shown[k].revs[i] \in Nat
      BY <2>0, <3>1, JournalType DEF Job
    <3>3. Undone(k, i)
      BY <2>0, <3>1, <3>2 DEF Undone
    <3>4. UndoneOK(k, i)
      BY <3>2, <3>3 DEF JournalInv, PlainInv
    <3>5. ASSUME NEW m \in Job, Overtakes(m, k, i), (Open(m) /\ i \in request[m].done) \/ InDoubt(m)
          PROVE  FALSE
      <4>1. m > k /\ m \in DOMAIN shown /\ i \in journal[m].items
        BY <2>0, <3>5 DEF Overtakes
      <4>2. ~Open(m) /\ m \in Nat
        BY <4>1, Resting DEF Job
      <4>3. i \in Items(shown[m])
        BY <2>0, <3>5, <4>1, <4>2 DEF InDoubt, Items
      <4>4. m <= k
        BY <3>1, <4>1, <4>3
      <4> QED
        BY <3>2, <4>1, <4>2, <4>4
    <3>6. row[i].status = "pending" /\ row[i].rev > shown[k].revs[i]
      BY <3>2, <3>4, <3>5 DEF UndoneOK
    <3>7. rows[i] = row[i].rev
      BY <2>0, <3>6 DEF Pending
    <3> QED
      BY <2>0, <3>1, <3>2, <3>6, <3>7
  <2> QED
    BY <2>1, <2>2
<1> QED
  BY <1>1, Journal, PTL

=============================================================================
