---------------------------- MODULE ReviewJournal ----------------------------
(***************************************************************************)
(* The mutation journal of the human review page: answers, bulk answers    *)
(* and undos are projected into the queue at once, sent one after another, *)
(* and retired when a refresh of the page shows what became of them.       *)
(*                                                                         *)
(* One open page with the complete pending view; other pages and the       *)
(* callers change items too.  A request that times out may still be        *)
(* carried out later, and a refresh shows the server as it was when it was *)
(* read.  A submission is known by its place in the order of submissions.  *)
(***************************************************************************)
EXTENDS Naturals, FiniteSets

CONSTANTS
    Item,           \* input items
    MaxJobs,        \* bound: submissions of the page
    MaxElsewhere,   \* bound: items changed by somebody else, once each
    MaxDoubt        \* bound: while fewer items are in doubt, a request can be given up

ASSUME JournalAssumption == MaxJobs \in Nat /\ MaxElsewhere \in Nat /\ MaxDoubt \in Nat

VARIABLES
    row,        \* the server's items
    submitted,  \* how many submissions there were
    started,    \* how many of them were sent
    awaited,    \* the last one sent is not settled
    request,    \* what was submitted and is not over, with its reply
    journal,    \* the records of AppActionProvider, by submission
    shown,      \* the records of the last render
    rows,       \* the rows of the last render: revision of each pending item
    page,       \* the refresh under way
    lastUndo,   \* the answer the undo control is for
    told,       \* history: the last revision of each item known to be answered
    doubt,      \* history: items of answers and undos that timed out, of bulk answers
                \* that did, and of requests whose connection broke
    elsewhere   \* history: items changed by somebody else

history == <<told, doubt, elsewhere>>
vars    == <<row, submitted, started, awaited, request, journal, shown, rows, page, lastUndo, history>>

Job == 1 .. MaxJobs

Operation == {"answer", "bulk", "undo"}
Code      == {"ok", "conflict", "read", "failed"}

---------------------------------------------------------------------------
(* The projection of the journal into the queue                            *)

\* Mutant: a bulk answer stands for every item it was submitted with.
AllItems(r) == r.items

\* The items a record stands for: a confirmed bulk answer for those answered.
Items(r) == IF r.op = "bulk" /\ r.status = "succeeded" THEN r.items \cap r.answered ELSE r.items

\* The latest record of an item, or 0.
Latest(j, i) ==
    LET own == {n \in DOMAIN j : i \in Items(j[n])} IN
    IF own = {} THEN 0 ELSE CHOOSE n \in own : \A o \in own : o <= n

\* Undo restores a row one revision later than the one that was answered.
Snapshot(r, i) == r.revs[i] + 1

\* The revision of the item that the page shows, or 0.
Projected(i) ==
    LET n == Latest(shown, i) IN
    CASE n = 0                         -> rows[i]
      [] n > 0 /\ shown[n].op # "undo" -> 0
      [] n > 0 /\ shown[n].op = "undo" ->
             IF rows[i] < Snapshot(shown[n], i) THEN Snapshot(shown[n], i) ELSE rows[i]

\* Mutant: a restored row can be answered at once.
NeverLocked(i) == FALSE

Locked(i) ==
    LET n == Latest(shown, i) IN
    n > 0 /\ shown[n].op = "undo" /\ shown[n].status # "succeeded"

Offers(i) == Projected(i) > 0 /\ ~Locked(i)

---------------------------------------------------------------------------
(* Types and the initial state                                             *)

Pending == [i \in Item |-> IF row[i].status = "pending" THEN row[i].rev ELSE 0]

Nothing == [i \in Item |-> 0]

NoRequest == [op |-> "answer", items |-> {}, revs |-> Nothing, undos |-> {},
              at |-> "none", todo |-> {}, done |-> {}, code |-> "failed"]

Request ==
    [op : Operation, items : SUBSET Item, revs : [Item -> Nat], undos : SUBSET Job,
     at : {"none", "queued", "sent", "served"}, todo : SUBSET Item, done : SUBSET Item, code : Code]

Record ==
    [op : Operation, items : SUBSET Item, revs : [Item -> Nat],
     status : {"queued", "succeeded", "indeterminate"}, answered : SUBSET Item,
     due : {"no", "waiting", "due"}, retried : BOOLEAN]

Idle == [at |-> "idle", rows |-> Nothing, again |-> FALSE]

JournalTypeOK ==
    /\ row \in [Item -> [status : {"pending", "answered", "read", "gone"}, rev : Nat]]
    /\ submitted \in 0 .. MaxJobs /\ started \in 0 .. submitted /\ awaited \in BOOLEAN
    /\ request \in [Job -> Request]
    /\ \A n \in Job : request[n].at = "queued" <=> n \in started + 1 .. submitted
    /\ DOMAIN journal \subseteq 1 .. submitted
    /\ \A n \in DOMAIN journal : journal[n] \in Record /\ Items(journal[n]) # {}
    /\ DOMAIN shown \subseteq 1 .. submitted /\ \A n \in DOMAIN shown : shown[n] \in Record
    /\ rows \in [Item -> Nat]
    /\ page \in [at : {"idle", "asked", "read"}, rows : [Item -> Nat], again : BOOLEAN]
    /\ lastUndo \subseteq Item \X Nat /\ Cardinality(lastUndo) <= 1
    /\ told \in [Item -> Nat] /\ doubt \subseteq {"late", "bulk", "broken"} \X Item
    /\ elsewhere \subseteq Item

JournalInit ==
    /\ row = [i \in Item |-> [status |-> "pending", rev |-> 1]]
    /\ submitted = 0 /\ started = 0 /\ awaited = FALSE
    /\ request = [n \in Job |-> NoRequest]
    /\ journal = [n \in {} |-> NoRequest] /\ shown = journal
    /\ rows = Pending /\ page = Idle
    /\ lastUndo = {}
    /\ told = Nothing /\ doubt = {} /\ elsewhere = {}

Without(j, N) == [n \in DOMAIN j \ N |-> j[n]]

\* router.refresh(): one refresh after another.
Refreshed(p) == [p EXCEPT !.again = (p.at # "idle"),
                          !.at = IF @ = "idle" THEN "asked" ELSE @]

---------------------------------------------------------------------------
(* Submissions                                                             *)

\* Mutant: a repeated submission is sent again.
NeverUnsettled(S) == FALSE

\* Every item has a write that is still queued or syncing.
Unsettled(S) ==
    \A i \in S : \E n \in DOMAIN journal : journal[n].status = "queued" /\ i \in journal[n].items

Enqueue(op, S, revs) ==
    LET n  == submitted + 1
        of == [i \in Item |-> IF i \in S THEN revs[i] ELSE 0]
    IN
    /\ n \in Job /\ S # {} /\ ~Unsettled(S)
    /\ submitted' = n
    /\ request' = [request EXCEPT ![n] =
            [NoRequest EXCEPT !.op = op, !.items = S, !.todo = S, !.revs = of, !.at = "queued",
                !.undos = {u \in DOMAIN shown : shown[u].op = "undo" /\ shown[u].items \cap S # {}}]]
    /\ journal' = [m \in DOMAIN journal \cup {n} |->
            IF m # n THEN journal[m]
            ELSE [op |-> op, items |-> S, revs |-> of, status |-> "queued",
                  answered |-> {}, due |-> "no", retried |-> FALSE]]
    /\ UNCHANGED <<row, started, awaited, shown, rows, page, lastUndo, history>>

View == [i \in Item |-> Projected(i)]

Answer(i) == Offers(i) /\ Enqueue("answer", {i}, View)

BulkAnswer(S) == (\A i \in S : Offers(i)) /\ Enqueue("bulk", S, View)

Undo ==
    \E u \in lastUndo :
        /\ ~Locked(u[1])
        /\ Enqueue("undo", {u[1]}, [i \in Item |-> u[2]])

---------------------------------------------------------------------------
(* Requests                                                                *)

\* Submissions are sent in order, each when the one before it has settled.
Send ==
    /\ ~awaited /\ started < submitted
    /\ started' = started + 1 /\ awaited' = TRUE
    /\ request' = [request EXCEPT ![started + 1].at = "sent"]
    /\ UNCHANGED <<row, submitted, journal, shown, rows, page, lastUndo, history>>

\* The item is done with; the last one is followed by the reply, which nobody
\* waits for if the request was given up.
Tried(n, i, done, code) ==
    LET q == [request[n] EXCEPT !.todo = @ \ {i}, !.done = @ \cup done] IN
    request' = [request EXCEPT ![n] =
        CASE q.todo # {}                               -> q
          [] q.todo = {} /\ ~(n = started /\ awaited)  -> NoRequest
          [] q.todo = {} /\ n = started /\ awaited     ->
                 [q EXCEPT !.at = "served", !.code = IF q.done # {} THEN "ok" ELSE code]]

Current(n, i) == row[i].rev = request[n].revs[i]

\* createHumanAnswer, for one item or for one item of a bulk answer after the other.
ServeAnswer(n, i) ==
    /\ request[n].op # "undo"
    /\ IF row[i].status = "pending" /\ Current(n, i)
       THEN \/ /\ row' = [row EXCEPT ![i].status = "answered"]
               /\ Tried(n, i, {i}, "ok")
            \/ UNCHANGED row /\ Tried(n, i, {}, "failed")
       ELSE /\ UNCHANGED row
            /\ Tried(n, i, {}, IF request[n].op = "bulk" THEN "failed" ELSE "conflict")

\* undoHumanAnswerBeforeReadInTransaction; the revision that was answered
\* stands for the output result.
ServeUndo(n, i) ==
    /\ request[n].op = "undo"
    /\ IF row[i].status = "answered" /\ Current(n, i)
       THEN \/ /\ row' = [row EXCEPT ![i] = [status |-> "pending", rev |-> @.rev + 1]]
               /\ Tried(n, i, {i}, "ok")
            \/ UNCHANGED row /\ Tried(n, i, {}, "failed")
       ELSE /\ UNCHANGED row
            /\ Tried(n, i, {}, IF row[i].status = "read" /\ Current(n, i) THEN "read"
                               ELSE "conflict")

Serve(n) ==
    /\ request[n].at = "sent"
    /\ \E i \in request[n].todo : ServeAnswer(n, i) \/ ServeUndo(n, i)
    /\ UNCHANGED <<submitted, started, awaited, journal, shown, rows, page, lastUndo, history>>

\* Somebody else answers, undoes, replaces, reads, acknowledges or deletes.
Elsewhere(i) ==
    /\ i \notin elsewhere /\ Cardinality(elsewhere) < MaxElsewhere
    /\ elsewhere' = elsewhere \cup {i}
    /\ \/ /\ row[i].status = "pending"
          /\ \/ row' = [row EXCEPT ![i].status = "answered"]
             \/ row' = [row EXCEPT ![i].rev = @ + 1]
       \/ /\ row[i].status = "answered"
          /\ \/ row' = [row EXCEPT ![i].status = "read"]
             \/ row' = [row EXCEPT ![i] = [status |-> "pending", rev |-> @.rev + 1]]
       \/ row[i].status # "gone" /\ row' = [row EXCEPT ![i].status = "gone"]
    /\ UNCHANGED <<submitted, started, awaited, request, journal, shown, rows, page, lastUndo,
                    told, doubt>>

---------------------------------------------------------------------------
(* Replies                                                                 *)

\* Mutant: an earlier record stays when none of its items is left.
KeepEmpty(j, n, done) ==
    [m \in DOMAIN j |-> IF m < n THEN [j[m] EXCEPT !.items = @ \ done] ELSE j[m]]

\* A confirmed write supersedes the earlier records of the items it changed.
Superseded(j, n, done) ==
    LET left(m) == IF m < n THEN j[m].items \ done ELSE j[m].items IN
    [m \in {k \in DOMAIN j : left(k) # {}} |-> [j[m] EXCEPT !.items = left(m)]]

\* A reply is handled once the last change of the journal is rendered.
Awaited == awaited /\ shown = journal

\* The undo control follows the last answer.
UndoAfter(q) ==
    CASE q.op = "answer" -> {<<i, q.revs[i]>> : i \in q.done}
      [] q.op = "bulk"   -> {}
      [] q.op = "undo"   -> lastUndo \ {<<i, q.revs[i]>> : i \in q.done}

Succeed ==
    LET n == started
        q == request[n]
    IN
    /\ Awaited /\ q.at = "served" /\ q.code = "ok"
    /\ awaited' = FALSE
    /\ request' = [request EXCEPT ![n] = NoRequest]
    /\ journal' =
          IF n \notin DOMAIN journal THEN journal
          ELSE [Superseded(journal, n, q.done) EXCEPT
                    ![n].status = "succeeded", ![n].answered = q.done, ![n].due = "waiting"]
    /\ lastUndo' = UndoAfter(q)
    /\ told' = [i \in Item |-> IF i \in q.done /\ q.op # "undo" THEN q.revs[i] ELSE told[i]]
    /\ page' = Refreshed(page)
    /\ UNCHANGED <<row, submitted, started, shown, rows, doubt, elsewhere>>

\* A refusal removes its own projection, and the undo copies of an item that
\* the server has declared obsolete.
Refuse(code) ==
    LET q == request[started] IN
    /\ awaited' = FALSE
    /\ journal' = Without(journal, {started} \cup (IF code = "conflict" THEN q.undos ELSE {}))
    /\ lastUndo' = IF q.op = "undo" /\ code \in {"conflict", "read"}
                   THEN lastUndo \ {<<i, q.revs[i]>> : i \in q.items} ELSE lastUndo
    /\ page' = IF code = "conflict" THEN Refreshed(page) ELSE page
    /\ UNCHANGED <<row, submitted, started, shown, rows, told, elsewhere>>

Fail ==
    /\ Awaited /\ request[started].at = "served" /\ request[started].code # "ok"
    /\ Refuse(request[started].code)
    /\ request' = [request EXCEPT ![started] = NoRequest]
    /\ UNCHANGED doubt

\* Nobody waits any longer; a request under way may still be carried out.
GivenUp(how) ==
    LET q == request[started] IN
    /\ Awaited /\ Cardinality(doubt) < MaxDoubt
    /\ request' = [request EXCEPT ![started] = IF @.at = "sent" THEN @ ELSE NoRequest]
    /\ doubt' = doubt \cup ({how} \X q.items)

\* The connection breaks, which the page takes for a refusal.
Break == GivenUp("broken") /\ Refuse("failed")

\* After HUMAN_MUTATION_TIMEOUT_MS the outcome is indeterminate.
TimeOut ==
    /\ GivenUp(IF request[started].op = "bulk" THEN "bulk" ELSE "late")
    /\ awaited' = FALSE
    /\ journal' = IF started \notin DOMAIN journal THEN journal
                  ELSE [journal EXCEPT ![started].status = "indeterminate",
                                       ![started].due = "waiting"]
    /\ page' = Refreshed(page)
    /\ UNCHANGED <<row, submitted, started, shown, rows, lastUndo, told, elsewhere>>

---------------------------------------------------------------------------
(* Renders                                                                 *)

\* The rows show what became of the record; a bulk answer in doubt is released.
Reflected(r, now) ==
    \/ r.op = "undo" /\ \A i \in Items(r) : now[i] >= Snapshot(r, i)
    \/ r.op # "undo" /\ \A i \in Items(r) : now[i] = 0
    \/ r.op = "bulk" /\ r.status = "indeterminate"

Due(r) == r.due = "due"

\* Mutant: only the answer itself is retired.
NoUndos(j, N) == {}

\* The restorations that came before an answer in doubt which is reflected.
OlderUndos(j, N) ==
    {u \in DOMAIN j : j[u].op = "undo" /\
        \E n \in N : /\ u < n /\ j[n].op = "answer" /\ j[n].status = "indeterminate"
                     /\ j[u].items \subseteq j[n].items}

\* The effects of a render retire what the rows reflect, and ask once more for
\* the rest.
Render(j, now, next) ==
    LET ready     == {n \in DOMAIN j : Due(j[n])}
        reflected == {n \in ready : Reflected(j[n], now)}
        late      == {n \in ready \ reflected : ~j[n].retried}
        marked    == [n \in DOMAIN j |-> [j[n] EXCEPT !.retried = @ \/ n \in late]]
        left      == Without(marked, reflected \cup OlderUndos(j, reflected))
    IN
    /\ rows' = now /\ journal' = left /\ shown' = left
    /\ page' = IF late = {} THEN next ELSE Refreshed(next)
    /\ UNCHANGED <<row, submitted, started, awaited, request, lastUndo, history>>

Paint == journal # shown /\ Render(journal, rows, page)

\* The refresh reads the server, and its rows arrive.
Load ==
    /\ page.at = "asked"
    /\ page' = [page EXCEPT !.at = "read", !.rows = Pending]
    /\ UNCHANGED <<row, submitted, started, awaited, request, journal, shown, rows, lastUndo,
                    history>>

Arrive ==
    /\ page.at = "read"
    /\ Render([n \in DOMAIN journal |->
                  IF journal[n].due = "waiting" THEN [journal[n] EXCEPT !.due = "due"] ELSE journal[n]],
              page.rows,
              [Idle EXCEPT !.at = IF page.again THEN "asked" ELSE "idle"])

JournalNext ==
    \/ \E i \in Item : Answer(i) \/ Elsewhere(i)
    \/ \E S \in SUBSET Item : BulkAnswer(S)
    \/ Undo
    \/ Send
    \/ \E n \in Job : Serve(n)
    \/ Succeed \/ Fail \/ Break \/ TimeOut
    \/ Paint \/ Load \/ Arrive

JournalSpec == JournalInit /\ [][JournalNext]_vars

---------------------------------------------------------------------------
(* Properties                                                              *)

\* The page or somebody else may have changed the item without the page's knowing.
Unsure(i) == i \in elsewhere \/ \E d \in doubt : d[2] = i

\* An item the page offers is a revision the server has, and one that the page
\* has not been told is answered: a restoration is offered only once the undo
\* is accepted, and never outlives a later answer (ReviewWorkspace itemMutations,
\* lockedIds).
OffersAreOpen ==
    \A i \in Item : Offers(i) =>
        /\ Projected(i) <= row[i].rev
        /\ told[i] < Projected(i) \/ Unsure(i)

\* The page never conflicts with itself: its answers and undos are refused only
\* when somebody else has changed the item or an earlier request is in doubt
\* (FIFO order, enqueueHumanMutation).
NoSelfConflict ==
    \A n \in Job : request[n].at = "served" /\ request[n].code = "conflict" =>
        \E i \in request[n].items : Unsure(i)

\* Nothing is under way and the page shows the server as it is.
AtRest ==
    /\ ~awaited /\ started = submitted /\ \A n \in Job : request[n].at # "sent"
    /\ page.at = "idle" /\ shown = journal /\ rows = Pending

\* What stays hidden has a reason: an answer that timed out and may still
\* commit, or an answer of an earlier revision that somebody else has undone
\* (ReviewWorkspace, the effect that retires records).
HiddenForAReason ==
    AtRest => \A i \in Item : rows[i] > 0 /\ ~Offers(i) =>
        LET n == Latest(shown, i) IN
        /\ n > 0 /\ shown[n].op # "undo"
        /\ \/ shown[n].status = "indeterminate" /\ shown[n].op = "answer"
           \/ shown[n].status = "succeeded" /\ shown[n].revs[i] < rows[i]

\* What is offered is pending, except for a restoration that somebody else, a
\* bulk answer that timed out or a broken connection has overtaken: an answer
\* in doubt takes the older restorations with it (ReviewWorkspace, same effect).
OffersArePending ==
    AtRest => \A i \in Item : Offers(i) =>
        Projected(i) = rows[i] \/ i \in elsewhere \/ doubt \cap ({"bulk", "broken"} \X {i}) # {}

\* What the comment in that effect says of an answer that timed out, for every
\* kind of answer: the older restoration goes with it, or it would resurrect the
\* answered item.
NoResurrection ==
    AtRest => \A i \in Item : Offers(i) =>
        Projected(i) = rows[i] \/ i \in elsewhere \/ <<"broken", i>> \in doubt
=============================================================================
