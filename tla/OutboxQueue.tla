---------------------------- MODULE OutboxQueue ----------------------------
(***************************************************************************)
(* The two Postgres queues of one hosted account: the input queue          *)
(* (caller to human) and the output queue (human answer to caller), with   *)
(* the audit ledger, the tier and the scheduled cleanup that deletes from  *)
(* both.  One action is one committed product transaction; a transaction   *)
(* that rolls back, or that returns an error result without writing, is a  *)
(* stuttering step.  The row locks that make a transaction atomic are not  *)
(* part of this module.                                                    *)
(***************************************************************************)
EXTENDS Integers, FiniteSets, FiniteSetsExt

CONSTANTS
    Caller,         \* callers of the account
    ItemId,         \* caller_item_id values the callers use
    Key,            \* the (caller_id, caller_item_id) pairs in use
    Content,        \* normalized submissions (content fingerprints)
    FileContent,    \* the submissions that carry a file_upload action
    ContentBytes,   \* non_file_payload_bytes of a submission
    ResponseBytes,  \* response_payload_bytes of an answer
    FreeItemLimit,  \* hosted-free queued_input_items
    FreeByteLimit,  \* hosted-free stored_non_file_queue_payload_bytes
    OutputTimeout,  \* unacknowledged_output_timeout_days
    InputRetention, \* hosted-free input_retention_days
    BillingGrace,   \* downgrade_grace_days
    CleanupLag,     \* bound: ticks a cleanup run's start time may lag behind
    MaxInputs,      \* bound: input rows ever created
    MaxAnswers,     \* bound: output rows ever created
    MaxRevision,    \* bound: revisions of one input row
    MaxTime         \* bound: ticks of the clock

ASSUME QueueConstants ==
    /\ Key \subseteq Caller \X ItemId
    /\ FileContent \subseteq Content
    /\ ContentBytes \in [Content -> Nat]
    /\ ResponseBytes \in Nat
    /\ FreeItemLimit \in Nat
    /\ FreeByteLimit \in Nat
    /\ OutputTimeout \in Nat
    /\ InputRetention \in Nat
    /\ BillingGrace \in Nat
    /\ CleanupLag \in Nat
    /\ MaxInputs \in Nat
    /\ MaxAnswers \in Nat
    /\ MaxRevision \in Nat
    /\ MaxTime \in Nat

VARIABLES
    inputs,     \* agent_outbox_input_items by (caller_id, caller_item_id)
    outputs,    \* agent_outbox_output_results with their file row
    inputCount, \* input_item_id values drawn so far
    outputCount,\* output_result_id values drawn so far
    audit,      \* agent_outbox_audit_events, counted by type and subject id
    tier,       \* agent_outbox_accounts.tier
    graceEnds,  \* billing_grace_ends_at
    now,        \* the database clock, in days
    view,       \* what the human's page shows: an item at some revision
    decided,    \* history: what the human saw and chose, per output id
    received,   \* history: the results handed to callers by read
    ackReplies  \* history: the replies callers got to acknowledgements

rows    == <<inputs, outputs, inputCount, outputCount, audit>>
account == <<tier, graceEnds>>
history == <<decided, received, ackReplies>>
vars    == <<rows, account, now, view, history>>

---------------------------------------------------------------------------
(* Rows                                                                    *)

InputIds  == 1 .. MaxInputs
OutputIds == 1 .. MaxAnswers
Tier      == {"hosted_free", "hosted_paid"}
Response  == {"choice", "file"}

NoInput  == [status |-> "absent"]
NoOutput == [status |-> "absent"]
NoView   == [id |-> 0]
NoGrace  == -1
Undecided == [revision |-> 0]

InputRow ==
    [status : {"pending", "answered"}, id : InputIds, revision : Nat \ {0},
     content : Content, updatedAt : Nat]

OutputRow ==
    [status : {"live"}, key : Key, inputId : InputIds, response : Response,
     answeredAt : Nat, expiresAt : Nat, read : BOOLEAN, previousUpdatedAt : Nat]

View ==
    [key : Key, id : InputIds, revision : Nat \ {0}, content : Content]

Decision ==
    [key : Key, inputId : InputIds, revision : Nat \ {0}, content : Content,
     response : Response]

AuditType ==
    {"input_submitted", "input_deleted", "input_answered", "output_created",
     "output_acknowledged", "output_deleted", "output_undone",
     "file_uploaded", "file_deleted"}
SubjectId == InputIds \cup OutputIds
AckReply  == {"acknowledged", "already_acknowledged", "not_found"}

LiveKeys    == {k \in Key : inputs[k].status # "absent"}
PendingKeys == {k \in Key : inputs[k].status = "pending"}
LiveOutputs == {o \in OutputIds : outputs[o].status = "live"}
OutputsOf(k) == {o \in LiveOutputs : outputs[o].key = k}

\* Audit rows are inserted by the transaction that makes the change.
Recorded(events) ==
    [t \in AuditType |-> [n \in SubjectId |->
        IF <<t, n>> \in events THEN audit[t][n] + 1 ELSE audit[t][n]]]

\* non_file_stored_bytes over a set of input rows and a set of output rows.
BytesOf(keys, outs) ==
    MapThenSumSet(LAMBDA k : ContentBytes[inputs[k].content], keys)
        + Cardinality(outs) * ResponseBytes

StoredBytes == BytesOf(LiveKeys, LiveOutputs)

---------------------------------------------------------------------------
(* Input queue: send, replace, delete                                      *)

\* Hosted-free submissions may not carry a file_upload action.
SubmissionAllowed(c) == tier = "hosted_paid" \/ c \notin FileContent

\* Stock limits; the paid byte cap is not reached in this model.
WithinStockLimits(itemDelta, byteDelta) ==
    \/ tier = "hosted_paid"
    \/ /\ itemDelta > 0 => Cardinality(LiveKeys) + itemDelta <= FreeItemLimit
       /\ byteDelta > 0 => StoredBytes + byteDelta <= FreeByteLimit

\* A send that finds a live row (duplicate, conflict or answered) writes nothing.
Send(k, c) ==
    /\ inputs[k].status = "absent"
    /\ SubmissionAllowed(c)
    /\ WithinStockLimits(1, ContentBytes[c])
    /\ inputCount < MaxInputs
    /\ inputCount' = inputCount + 1
    /\ inputs' = [inputs EXCEPT ![k] =
           [status |-> "pending", id |-> inputCount + 1, revision |-> 1,
            content |-> c, updatedAt |-> now]]
    /\ audit' = Recorded({<<"input_submitted", inputCount + 1>>})
    /\ UNCHANGED <<outputs, outputCount, account, now, view, history>>

\* A replace with the content already stored writes nothing.
Replace(k, c) ==
    /\ SubmissionAllowed(c)
    /\ inputs[k].status = "pending"
    /\ inputs[k].content # c
    /\ WithinStockLimits(0, ContentBytes[c] - ContentBytes[inputs[k].content])
    /\ inputs[k].revision < MaxRevision
    /\ inputs' = [inputs EXCEPT ![k].content = c,
                                ![k].revision = @ + 1,
                                ![k].updatedAt = now]
    /\ UNCHANGED <<outputs, inputCount, outputCount, audit, account, now, view,
                   history>>

DeleteInput(k) ==
    /\ inputs[k].status = "pending"
    /\ inputs' = [inputs EXCEPT ![k] = NoInput]
    /\ audit' = Recorded({<<"input_deleted", inputs[k].id>>})
    /\ UNCHANGED <<outputs, inputCount, outputCount, account, now, view, history>>

---------------------------------------------------------------------------
(* Human review: open, answer, undo                                        *)

\* The page renders a pending item; the view may be arbitrarily old when used.
OpenItem(k) ==
    /\ inputs[k].status = "pending"
    /\ view' = [key |-> k, id |-> inputs[k].id, revision |-> inputs[k].revision,
                content |-> inputs[k].content]
    /\ UNCHANGED <<rows, account, now, history>>

\* Mutant: the revision of the form is not compared.
AnswerAnyRevision(k) ==
    /\ inputs[k].status = "pending"
    /\ inputs[k].id = view.id

\* The input the submitted form names is still pending at the revision shown.
AnswerTargetsCurrent(k) ==
    /\ inputs[k].status = "pending"
    /\ inputs[k].id = view.id
    /\ inputs[k].revision = view.revision

\* Submits the form of the page on view; submitting it again is allowed.
Answer(r) ==
    /\ view # NoView
    /\ AnswerTargetsCurrent(view.key)
    /\ r = "file" => /\ inputs[view.key].content \in FileContent
                     /\ tier = "hosted_paid"
    /\ outputCount < MaxAnswers
    /\ LET k == view.key
           o == outputCount + 1
       IN  /\ outputCount' = o
           /\ outputs' = [outputs EXCEPT ![o] =
                  [status |-> "live", key |-> k, inputId |-> inputs[k].id,
                   response |-> r, answeredAt |-> now,
                   expiresAt |-> now + OutputTimeout, read |-> FALSE,
                   previousUpdatedAt |-> inputs[k].updatedAt]]
           /\ inputs' = [inputs EXCEPT ![k].status = "answered",
                                       ![k].updatedAt = now]
           /\ audit' = Recorded({<<"input_answered", inputs[k].id>>,
                                 <<"output_created", o>>}
                                \cup {<<"file_uploaded", n>> :
                                      n \in {m \in {o} : r = "file"}})
           /\ decided' = [decided EXCEPT ![o] =
                  [key |-> k, inputId |-> inputs[k].id,
                   revision |-> view.revision, content |-> view.content,
                   response |-> r]]
    /\ UNCHANGED <<inputCount, account, now, view, received, ackReplies>>

\* Mutant: the file is dropped with its output, and no event says so.
FileDeletionsUnrecorded(outs) == {}

\* The file_deleted events of a set of output rows.
FileDeletions(outs) ==
    {<<"file_deleted", o>> : o \in {p \in outs : outputs[p].response = "file"}}

\* Mutant: a result the caller has read can be undone.
UndoableWhenRead(o) == outputs[o].status = "live"

Undoable(o) ==
    /\ outputs[o].status = "live"
    /\ ~outputs[o].read

\* Mutant: the restored row keeps the revision the undone answer was made at.
RestoredAtSameRevision(row, o) ==
    [row EXCEPT !.status = "pending", !.updatedAt = outputs[o].previousUpdatedAt]

\* Mutant: the restored row gets a status the schema does not have.
RestoredAsUndone(row, o) ==
    [row EXCEPT !.status = "undone", !.revision = row.revision + 1,
                !.updatedAt = outputs[o].previousUpdatedAt]

\* The input row goes back to pending, with the place in review order it had.
Restored(row, o) ==
    [row EXCEPT !.status = "pending", !.revision = row.revision + 1,
                !.updatedAt = outputs[o].previousUpdatedAt]

\* No account lock, tier or revision check: only the unread output is tested.
Undo(o) ==
    /\ Undoable(o)
    /\ inputs' = [inputs EXCEPT ![outputs[o].key] = Restored(@, o)]
    /\ outputs' = [outputs EXCEPT ![o] = NoOutput]
    /\ audit' = Recorded({<<"output_undone", o>>} \cup FileDeletions({o}))
    /\ UNCHANGED <<inputCount, outputCount, account, now, view, history>>

---------------------------------------------------------------------------
(* Output queue: read, read-all, acknowledge                               *)

\* The result a caller is handed: the stored response with the input row.
ResultOf(c, o) ==
    [caller |-> c, output |-> o, content |-> inputs[outputs[o].key].content,
     response |-> outputs[o].response]

\* One result by id, or a page of read-all; which rows share a page is left open.
Read(c, page) ==
    /\ page # {}
    /\ \A o \in page : outputs[o].status = "live" /\ outputs[o].key[1] = c
    /\ outputs' = [o \in OutputIds |->
           IF o \in page THEN [outputs[o] EXCEPT !.read = TRUE] ELSE outputs[o]]
    /\ received' = received \cup {ResultOf(c, o) : o \in page}
    /\ UNCHANGED <<inputs, inputCount, outputCount, audit, account, now, view,
                   decided, ackReplies>>

\* Mutant: an output is removed and its answered input is left behind.
RemoveOutputsOnly(outs, pending) ==
    /\ outputs' = [o \in OutputIds |-> IF o \in outs THEN NoOutput ELSE outputs[o]]
    /\ inputs' = [k \in Key |-> IF k \in pending THEN NoInput ELSE inputs[k]]

\* agent_outbox_delete_output_result over a set, with pending inputs deleted too.
RemoveRows(outs, pending) ==
    /\ outputs' = [o \in OutputIds |-> IF o \in outs THEN NoOutput ELSE outputs[o]]
    /\ inputs' = [k \in Key |->
           IF k \in pending \/ \E o \in outs : outputs[o].key = k
           THEN NoInput ELSE inputs[k]]

Reply(c, o, reply) ==
    ackReplies' = ackReplies \cup {[caller |-> c, output |-> o, reply |-> reply]}

AckLive(c, o) ==
    /\ outputs[o].status = "live"
    /\ outputs[o].key[1] = c
    /\ RemoveRows({o}, {})
    /\ audit' = Recorded({<<"output_acknowledged", o>>} \cup FileDeletions({o}))
    /\ Reply(c, o, "acknowledged")
    /\ UNCHANGED <<inputCount, outputCount, account, now, view, decided, received>>

\* Mutant: any removed output of the caller counts as not found.
ForgetsAcknowledged(c, o) == FALSE

\* The ledger holds an output_acknowledged event of this caller for the id.
Acknowledged(c, o) ==
    audit["output_acknowledged"][o] > 0 /\ decided[o].key[1] = c

\* No live row of this caller: the audit ledger decides between success and 404.
AckGone(c, o) ==
    /\ o <= outputCount
    /\ ~(outputs[o].status = "live" /\ outputs[o].key[1] = c)
    /\ IF Acknowledged(c, o)
       THEN Reply(c, o, "already_acknowledged")
       ELSE Reply(c, o, "not_found")
    /\ UNCHANGED <<rows, account, now, view, decided, received>>

---------------------------------------------------------------------------
(* Scheduled cleanup of the account; p is the time the run started         *)

ExpiredOutputs(p) == {o \in LiveOutputs : outputs[o].expiresAt <= p}
RetainedInputs(p) == {k \in PendingKeys : inputs[k].updatedAt < p - InputRetention}
FileOutputs       == {o \in LiveOutputs : outputs[o].response = "file"}
PendingFileInputs == {k \in PendingKeys : inputs[k].content \in FileContent}

GraceExpired(p) ==
    /\ tier = "hosted_paid"
    /\ graceEnds # NoGrace
    /\ graceEnds <= p

\* Mutant: the pending inputs a cleanup deletes leave no event.
CleanupEventsOfOutputs(outs, pending) ==
    {<<"output_deleted", o>> : o \in outs} \cup FileDeletions(outs)

\* The audit rows of a cleanup that deletes these outputs and pending inputs.
CleanupEvents(outs, pending) ==
    {<<"output_deleted", o>> : o \in outs} \cup FileDeletions(outs)
        \cup {<<"input_deleted", inputs[k].id>> : k \in pending}

Purge(outs, pending) ==
    /\ RemoveRows(outs, pending)
    /\ audit' = Recorded(CleanupEvents(outs, pending))
    /\ UNCHANGED <<inputCount, outputCount, now, view, history>>

\* SKIP LOCKED: each statement deletes some subset of the rows it selects.
CleanupFree(p) ==
    /\ tier = "hosted_free"
    /\ \E outs \in SUBSET ExpiredOutputs(p), pending \in SUBSET RetainedInputs(p) :
           (outs # {} \/ pending # {}) /\ Purge(outs, pending)
    /\ UNCHANGED account

CleanupPaid(p) ==
    /\ tier = "hosted_paid"
    /\ ~GraceExpired(p)
    /\ \E outs \in SUBSET ExpiredOutputs(p) : outs # {} /\ Purge(outs, {})
    /\ UNCHANGED account

\* order by coalesce(answered_at, updated_at), input_item_id
Older(j, k) ==
    \/ inputs[j].updatedAt < inputs[k].updatedAt
    \/ inputs[j].updatedAt = inputs[k].updatedAt /\ inputs[j].id < inputs[k].id

\* The rows the size loop deletes: each one met while the total is over the limit.
OldestOverLimit(candidates, total) ==
    {k \in candidates :
        LET before == {j \in candidates : Older(j, k)}
        IN  total - BytesOf(before, UNION {OutputsOf(j) : j \in before})
                > FreeByteLimit}

\* Mutant: the uploaded files are not looked at.
EligibleBySize(keys, outs) ==
    /\ keys \cap PendingFileInputs = {}
    /\ BytesOf(keys, outs) <= FreeByteLimit

\* Nothing is left that the free tier may not hold.
DowngradeEligible(keys, outs) ==
    /\ outs \cap FileOutputs = {}
    /\ keys \cap PendingFileInputs = {}
    /\ BytesOf(keys, outs) <= FreeByteLimit

\* Grace cleanup, then the downgrade that its deletions make eligible.
CleanupGrace(p) ==
    /\ GraceExpired(p)
    /\ \E expired \in SUBSET ExpiredOutputs(p) :
       \E files \in SUBSET FileOutputs, fileInputs \in SUBSET PendingFileInputs :
       \E skipped \in SUBSET LiveKeys :
           LET outs1  == expired \cup files
               keys1  == (LiveKeys \ fileInputs) \ {outputs[o].key : o \in outs1}
               oldest == OldestOverLimit(keys1 \ skipped,
                                         BytesOf(keys1, LiveOutputs \ outs1))
               outs   == outs1 \cup UNION {OutputsOf(k) : k \in oldest}
               pending == fileInputs \cup (oldest \cap PendingKeys)
           IN  /\ Purge(outs, pending)
               /\ IF DowngradeEligible(keys1 \ oldest, LiveOutputs \ outs)
                  THEN tier' = "hosted_free" /\ graceEnds' = NoGrace
                  ELSE UNCHANGED account

Cleanup ==
    \E p \in {t \in 0 .. now : t + CleanupLag >= now} :
        CleanupFree(p) \/ CleanupPaid(p) \/ CleanupGrace(p)

---------------------------------------------------------------------------
(* Account billing state, as the Stripe webhook handlers set it            *)

BillingActive ==
    /\ tier' = "hosted_paid"
    /\ graceEnds' = NoGrace
    /\ UNCHANGED <<rows, now, view, history>>

BillingGraceStarts ==
    /\ graceEnds' \in now .. now + BillingGrace
    /\ UNCHANGED <<rows, tier, now, view, history>>

Tick ==
    /\ now < MaxTime
    /\ now' = now + 1
    /\ UNCHANGED <<rows, account, view, history>>

---------------------------------------------------------------------------
Init ==
    /\ inputs = [k \in Key |-> NoInput]
    /\ outputs = [o \in OutputIds |-> NoOutput]
    /\ inputCount = 0
    /\ outputCount = 0
    /\ audit = [t \in AuditType |-> [n \in SubjectId |-> 0]]
    /\ tier = "hosted_free"
    /\ graceEnds = NoGrace
    /\ now = 0
    /\ view = NoView
    /\ decided = [o \in OutputIds |-> Undecided]
    /\ received = {}
    /\ ackReplies = {}

Next ==
    \/ \E k \in Key, c \in Content : Send(k, c) \/ Replace(k, c)
    \/ \E k \in Key : DeleteInput(k) \/ OpenItem(k)
    \/ \E r \in Response : Answer(r)
    \/ \E o \in OutputIds : Undo(o)
    \/ \E c \in Caller, page \in SUBSET OutputIds : Read(c, page)
    \/ \E c \in Caller, o \in OutputIds : AckLive(c, o) \/ AckGone(c, o)
    \/ Cleanup
    \/ BillingActive
    \/ BillingGraceStarts
    \/ Tick

Spec == Init /\ [][Next]_vars
---------------------------------------------------------------------------
(* Properties                                                              *)

\* Every variable has its type: rows carry the columns of the schema, counters
\* stay within the ids drawn and the audit ledger counts events.
TypeOK ==
    /\ inputs \in [Key -> InputRow \cup {NoInput}]
    /\ outputs \in [OutputIds -> OutputRow \cup {NoOutput}]
    /\ inputCount \in 0 .. MaxInputs
    /\ outputCount \in 0 .. MaxAnswers
    /\ audit \in [AuditType -> [SubjectId -> Nat]]
    /\ tier \in Tier
    /\ graceEnds \in Nat \cup {NoGrace}
    /\ now \in Nat
    /\ view \in View \cup {NoView}
    /\ decided \in [OutputIds -> Decision \cup {Undecided}]
    /\ received \subseteq [caller : Caller, output : OutputIds,
                           content : Content, response : Response]
    /\ ackReplies \subseteq [caller : Caller, output : OutputIds, reply : AckReply]

\* An answered input and its unacknowledged output stay a pair: each live output
\* names an answered input row that is still the one it was made from, no two
\* outputs share an input, and no answered input is left without its output,
\* whatever interleaving of acknowledgement, undo and cleanup removed the rest.
PairedRows ==
    /\ \A o \in LiveOutputs :
           /\ inputs[outputs[o].key].status = "answered"
           /\ inputs[outputs[o].key].id = outputs[o].inputId
    /\ \A o, p \in LiveOutputs : outputs[o].key = outputs[p].key => o = p
    /\ \A k \in Key : inputs[k].status = "answered" =>
           \E o \in LiveOutputs : outputs[o].key = k

\* "Human undo is allowed only before caller read": a result some caller holds is
\* never taken back.
ReadIsFinal ==
    \A r \in received : audit["output_undone"][r.output] = 0

\* What a caller reads is what the human decided on, for good: the delivered
\* content is the content on the human's page when the answer was sent, the
\* response is the one chosen, and the caller is the one that owns the item.
\* Replace, delete-and-send, undo and a stale or repeated form submission must
\* not come between.
DecisionFidelity ==
    /\ \A r \in received :
           /\ decided[r.output] # Undecided
           /\ decided[r.output].key[1] = r.caller
           /\ decided[r.output].content = r.content
           /\ decided[r.output].response = r.response
    /\ ReadIsFinal

\* A revision of an input row is decided at most once, also after an undo: a
\* repeated submission of an undone answer finds a newer revision.
RevisionDecidedOnce ==
    \A o, p \in OutputIds :
        (decided[o] # Undecided /\ decided[p] # Undecided
            /\ decided[o].inputId = decided[p].inputId
            /\ decided[o].revision = decided[p].revision) => o = p

\* The terminal events of an output, as the ledger counts them.
TerminalEvents(o) ==
    audit["output_acknowledged"][o] + audit["output_deleted"][o]
        + audit["output_undone"][o]

\* The audit ledger balances: every output was created once and ended exactly once
\* unless it is live, and every uploaded file was deleted once with its output.
OutputLedgerBalanced ==
    \A o \in OutputIds :
        /\ audit["output_created"][o] = (IF o <= outputCount THEN 1 ELSE 0)
        /\ TerminalEvents(o) + Cardinality({o} \cap LiveOutputs)
               = audit["output_created"][o]
        /\ audit["file_uploaded"][o]
               = audit["file_deleted"][o] + Cardinality({o} \cap FileOutputs)

\* The outputs of an input row that were acknowledged or deleted with it.
ClosedBy(i) ==
    {o \in OutputIds :
        /\ decided[o] # Undecided
        /\ decided[o].inputId = i
        /\ audit["output_acknowledged"][o] + audit["output_deleted"][o] > 0}

\* Every submitted input is live, or was deleted once, or left with exactly one
\* acknowledged or deleted output: none is lost and none is closed twice.
InputLedgerBalanced ==
    \A i \in InputIds :
        /\ audit["input_submitted"][i] = (IF i <= inputCount THEN 1 ELSE 0)
        /\ audit["input_deleted"][i] + Cardinality(ClosedBy(i))
               + Cardinality({k \in LiveKeys : inputs[k].id = i})
               = audit["input_submitted"][i]

\* "Acknowledgement is idempotent": a caller that was told its acknowledgement
\* succeeded is never told 404 for the same result, before or after cleanup, and
\* only the caller that owns the item is told that it succeeded.
AckIsIdempotent ==
    \A a \in ackReplies : a.reply # "not_found" =>
        /\ decided[a.output] # Undecided
        /\ decided[a.output].key[1] = a.caller
        /\ [a EXCEPT !.reply = "not_found"] \notin ackReplies

\* A hosted-free account stores no uploaded file, after a downgrade too.
FreeStoresNoFiles == tier = "hosted_free" => FileOutputs = {}

\* docs/architecture.md: "Free hosted accounts cannot queue file-upload actions."
FreeQueuesNoFileActions == tier = "hosted_free" => PendingFileInputs = {}

---------------------------------------------------------------------------
(* What the queues promise                                                 *)

\* The live output of an answered item.
OutputOf(k) == CHOOSE o \in LiveOutputs : outputs[o].key = k

\* An answered item holds what the human decided, not what its rows now say.
PlaceOf(k) ==
    LET o == OutputOf(k)
    IN  IF inputs[k].status = "absent" THEN [is |-> "nothing"]
        ELSE IF inputs[k].status = "pending"
        THEN [is |-> "offered", content |-> inputs[k].content]
        ELSE [is |-> "decided", content |-> decided[o].content,
              response |-> decided[o].response, result |-> o, read |-> outputs[o].read]

AckedResults == {p \in Caller \X OutputIds : Acknowledged(p[1], p[2])}

Promise == INSTANCE Delivery WITH
    Place   <- Key,
    Result  <- OutputIds,
    at      <- [k \in Key |-> PlaceOf(k)],
    drawn   <- 1 .. outputCount,
    acked   <- AckedResults,
    replies <- ackReplies

\* The rows, forms and cleanups implement the promise: an answer decides on what
\* is in the queue when it commits, however old the form, an undo comes before
\* the read, a caller reads its own results as the human chose them, and an
\* acknowledgement that succeeded succeeds again after every cleanup.
ImplementsDelivery == Promise!Spec
=============================================================================
