------------------------------ MODULE Delivery ------------------------------
(***************************************************************************)
(* What the two queues promise to the callers and the person of an account,*)
(* with no row, revision, form, ledger, limit, tier or clock in sight: a   *)
(* person decides on the submission that is offered at that moment, a      *)
(* decision is taken back only before a caller has read it, a caller reads *)
(* its own results as they were decided, and an acknowledgement that once  *)
(* succeeded succeeds again.                                               *)
(***************************************************************************)
CONSTANTS
    Caller,     \* callers of the account
    Place,      \* where a caller has a submission: its caller and the item
    Content,    \* submissions
    Response,   \* decisions on a submission
    Result      \* names of results

VARIABLES
    at,         \* what is at each place: nothing, a submission or a result
    drawn,      \* the names of results that were ever used
    received,   \* results handed to callers
    acked,      \* results that their callers have acknowledged
    replies     \* replies to acknowledgements

deliveryVars == <<at, drawn, received, acked, replies>>

Nothing == [is |-> "nothing"]
Offered(content) == [is |-> "offered", content |-> content]
Decided(content, response, result, read) ==
    [is |-> "decided", content |-> content, response |-> response, result |-> result, read |-> read]

Init ==
    /\ at = [k \in Place |-> Nothing]
    /\ drawn = {} /\ received = {} /\ acked = {} /\ replies = {}

Results(c) == {k \in Place : k[1] = c /\ at[k].is = "decided"}

\* A caller submits, or replaces what nobody has decided on.
Offer(k, c) ==
    /\ at[k].is # "decided"
    /\ at' = [at EXCEPT ![k] = Offered(c)]
    /\ UNCHANGED <<drawn, received, acked, replies>>

Decide(k, r, o) ==
    /\ at[k].is = "offered"
    /\ o \notin drawn
    /\ at' = [at EXCEPT ![k] = Decided(at[k].content, r, o, FALSE)]
    /\ drawn' = drawn \cup {o}
    /\ UNCHANGED <<received, acked, replies>>

TakeBack(k) ==
    /\ at[k].is = "decided"
    /\ ~at[k].read
    /\ at' = [at EXCEPT ![k] = Offered(at[k].content)]
    /\ UNCHANGED <<drawn, received, acked, replies>>

Read(c, places) ==
    /\ places \subseteq Results(c)
    /\ at' = [k \in Place |->
                IF k \in places THEN Decided(at[k].content, at[k].response, at[k].result, TRUE)
                ELSE at[k]]
    /\ received' = received \cup {[caller |-> c, output |-> at[k].result,
                                   content |-> at[k].content, response |-> at[k].response] :
                                     k \in places}
    /\ UNCHANGED <<drawn, acked, replies>>

Reply(c, o, reply) ==
    replies' = replies \cup {[caller |-> c, output |-> o, reply |-> reply]}

Acknowledge(k) ==
    /\ at[k].is = "decided"
    /\ at' = [at EXCEPT ![k] = Nothing]
    /\ acked' = acked \cup {<<k[1], at[k].result>>}
    /\ Reply(k[1], at[k].result, "acknowledged")
    /\ UNCHANGED <<drawn, received>>

\* The caller has no such result, or not any more.
AcknowledgeAgain(c, o) ==
    /\ \A k \in Results(c) : at[k].result # o
    /\ Reply(c, o, IF <<c, o>> \in acked THEN "already_acknowledged" ELSE "not_found")
    /\ UNCHANGED <<at, drawn, received, acked>>

\* Submissions are withdrawn, submissions and results expire.
Clear(places) ==
    /\ at' = [k \in Place |-> IF k \in places THEN Nothing ELSE at[k]]
    /\ UNCHANGED <<drawn, received, acked, replies>>

Next ==
    \/ \E k \in Place, c \in Content : Offer(k, c)
    \/ \E k \in Place, r \in Response, o \in Result : Decide(k, r, o)
    \/ \E k \in Place : TakeBack(k) \/ Acknowledge(k)
    \/ \E c \in Caller, places \in SUBSET Place : Read(c, places)
    \/ \E c \in Caller, o \in Result : AcknowledgeAgain(c, o)
    \/ \E places \in SUBSET Place : Clear(places)

Spec == Init /\ [][Next]_deliveryVars
=============================================================================
