------------------------- MODULE OutboxQueueProofs -------------------------
(***************************************************************************)
(* Invariants of OutboxQueue and its refinement of Delivery, proved for    *)
(* every value of its constants, in four parts: the rows and the files,    *)
(* the decisions, the input ledger, the promise.                           *)
(***************************************************************************)
EXTENDS OutboxQueue, FiniteSetTheorems, TLAPS

---------------------------------------------------------------------------
(* Rows and files.  TypeOK is inductive only together with PairedRows: the *)
(* result a caller reads takes its content from the input row its output   *)
(* names, which exists because live rows are paired.                       *)

\* Output ids are drawn in order: no row has an id that was not drawn yet.
FreshOutputs == \A o \in OutputIds : o > outputCount => outputs[o] = NoOutput

\* The inductive invariant behind TypeOK and PairedRows.
RowInv == TypeOK /\ PairedRows /\ FreshOutputs

LEMMA RecordedType ==
    ASSUME audit \in [AuditType -> [SubjectId -> Nat]], NEW events
    PROVE  Recorded(events) \in [AuditType -> [SubjectId -> Nat]]
BY DEF Recorded

\* Every branch of the cleanup deletes live outputs and pending inputs, and
\* leaves the account alone, or downgrades it once no file output is left.
LEMMA CleanupPurges ==
    ASSUME Cleanup
    PROVE  \E outs \in SUBSET LiveOutputs, pending \in SUBSET PendingKeys :
              /\ Purge(outs, pending)
              /\ \/ UNCHANGED account
                 \/ /\ tier' = "hosted_free" /\ graceEnds' = NoGrace
                    /\ FileOutputs \subseteq outs
<1>1. PICK p \in 0 .. now : CleanupFree(p) \/ CleanupPaid(p) \/ CleanupGrace(p)
  BY DEF Cleanup
<1>2. CASE CleanupFree(p)
  BY <1>2 DEF CleanupFree, ExpiredOutputs, RetainedInputs
<1>3. CASE CleanupPaid(p)
  <2>1. PICK outs \in SUBSET ExpiredOutputs(p) : Purge(outs, {})
    BY <1>3 DEF CleanupPaid
  <2>2. outs \in SUBSET LiveOutputs /\ {} \in SUBSET PendingKeys
    BY DEF ExpiredOutputs
  <2> QED
    BY <1>3, <2>1, <2>2 DEF CleanupPaid
<1>4. CASE CleanupGrace(p)
  <2>1. PICK expired \in SUBSET ExpiredOutputs(p), files \in SUBSET FileOutputs,
             fileInputs \in SUBSET PendingFileInputs, skipped \in SUBSET LiveKeys :
           LET outs1  == expired \cup files
               keys1  == (LiveKeys \ fileInputs) \ {outputs[o].key : o \in outs1}
               oldest == OldestOverLimit(keys1 \ skipped,
                                         BytesOf(keys1, LiveOutputs \ outs1))
               outs   == outs1 \cup UNION {OutputsOf(k) : k \in oldest}
               pending == fileInputs \cup (oldest \cap PendingKeys)
           IN  /\ Purge(outs, pending)
               /\ IF DowngradeEligible(keys1 \ oldest, LiveOutputs \ outs)
                  THEN tier' = "hosted_free" /\ graceEnds' = NoGrace
                  ELSE UNCHANGED account
    BY <1>4 DEF CleanupGrace
  <2> DEFINE outs1 == expired \cup files
             keys1 == (LiveKeys \ fileInputs) \ {outputs[o].key : o \in outs1}
             oldest == OldestOverLimit(keys1 \ skipped,
                                       BytesOf(keys1, LiveOutputs \ outs1))
             outs == outs1 \cup UNION {OutputsOf(k) : k \in oldest}
             pending == fileInputs \cup (oldest \cap PendingKeys)
  <2>2. outs1 \subseteq LiveOutputs
    BY DEF ExpiredOutputs, FileOutputs
  <2>3. \A k : OutputsOf(k) \subseteq LiveOutputs
    BY DEF OutputsOf
  <2>4. fileInputs \subseteq PendingKeys
    BY DEF PendingFileInputs
  <2> HIDE DEF outs1, keys1, oldest
  <2>5. outs \in SUBSET LiveOutputs /\ pending \in SUBSET PendingKeys
    BY <2>2, <2>3, <2>4
  <2>6. /\ Purge(outs, pending)
        /\ \/ UNCHANGED account
           \/ /\ tier' = "hosted_free" /\ graceEnds' = NoGrace
              /\ DowngradeEligible(keys1 \ oldest, LiveOutputs \ outs)
    BY <2>1 DEF outs1, keys1, oldest
  <2>7. ASSUME DowngradeEligible(keys1 \ oldest, LiveOutputs \ outs)
        PROVE  FileOutputs \subseteq outs
    BY <2>7 DEF DowngradeEligible, FileOutputs
  <2> QED
    BY <2>5, <2>6, <2>7
<1> QED
  BY <1>1, <1>2, <1>3, <1>4

\* Deleting outputs together with their inputs, and pending inputs, keeps the
\* rows typed and paired.
LEMMA RemoveRowsKeepsPairs ==
    ASSUME RowInv, NEW outs \in SUBSET LiveOutputs,
           NEW pending \in SUBSET PendingKeys,
           RemoveRows(outs, pending), UNCHANGED outputCount
    PROVE  /\ inputs' \in [Key -> InputRow \cup {NoInput}]
           /\ outputs' \in [OutputIds -> OutputRow \cup {NoOutput}]
           /\ PairedRows'
           /\ FreshOutputs'
<1>1. /\ inputs' \in [Key -> InputRow \cup {NoInput}]
      /\ outputs' \in [OutputIds -> OutputRow \cup {NoOutput}]
  BY DEF RowInv, TypeOK, RemoveRows
<1>2. \A o \in LiveOutputs' : o \in LiveOutputs /\ o \notin outs
                               /\ outputs'[o] = outputs[o]
  BY DEF RemoveRows, LiveOutputs, NoOutput
<1>3. \A o \in LiveOutputs : outputs[o].key \in Key
  BY DEF RowInv, TypeOK, LiveOutputs, OutputRow, NoOutput
<1>4. \A o \in LiveOutputs' : inputs'[outputs[o].key] = inputs[outputs[o].key]
  <2> SUFFICES ASSUME NEW o \in LiveOutputs'
               PROVE  inputs'[outputs[o].key] = inputs[outputs[o].key]
    OBVIOUS
  <2>1. outputs[o].key \notin pending
    BY <1>2 DEF RowInv, PairedRows, PendingKeys
  <2>2. \A p \in outs : outputs[p].key # outputs[o].key
    BY <1>2 DEF RowInv, PairedRows
  <2> QED
    BY <1>2, <1>3, <2>1, <2>2 DEF RemoveRows
<1>5. PairedRows'
  <2>1. \A o \in LiveOutputs' :
           /\ inputs'[outputs'[o].key].status = "answered"
           /\ inputs'[outputs'[o].key].id = outputs'[o].inputId
    BY <1>2, <1>4 DEF RowInv, PairedRows
  <2>2. \A o, p \in LiveOutputs' : outputs'[o].key = outputs'[p].key => o = p
    BY <1>2 DEF RowInv, PairedRows
  <2>3. ASSUME NEW k \in Key, inputs'[k].status = "answered"
        PROVE  \E o \in LiveOutputs' : outputs'[o].key = k
    <3>1. inputs'[k] = inputs[k] /\ \A o \in outs : outputs[o].key # k
      BY <2>3 DEF RemoveRows, NoInput
    <3>2. PICK o \in LiveOutputs : outputs[o].key = k
      BY <2>3, <3>1 DEF RowInv, PairedRows
    <3>3. o \notin outs /\ outputs'[o] = outputs[o] /\ o \in LiveOutputs'
      BY <3>1, <3>2 DEF RemoveRows, LiveOutputs
    <3> QED
      BY <3>2, <3>3
  <2> QED
    BY <2>1, <2>2, <2>3 DEF PairedRows
<1>6. FreshOutputs'
  BY DEF RowInv, FreshOutputs, RemoveRows
<1> QED
  BY <1>1, <1>5, <1>6

---------------------------------------------------------------------------
\* Each operation keeps the rows typed and paired.
LEMMA InitRowInv == Init => RowInv
<1> SUFFICES ASSUME Init PROVE RowInv
  OBVIOUS
<1>1. TypeOK
  BY QueueConstants DEF Init, TypeOK, OutputIds, InputIds, Tier, NoGrace
<1>2. PairedRows
  BY DEF Init, PairedRows, LiveOutputs, NoInput, NoOutput
<1>3. FreshOutputs
  BY DEF Init, FreshOutputs
<1> QED
  BY <1>1, <1>2, <1>3 DEF RowInv

LEMMA SendKeepsRows ==
    ASSUME RowInv, NEW k \in Key, NEW c \in Content, Send(k, c)
    PROVE  RowInv'
<1>1. inputCount + 1 \in InputIds /\ inputCount' \in 0 .. MaxInputs
  BY QueueConstants DEF Send, RowInv, TypeOK, InputIds
<1>2. TypeOK'
  <2>1. inputs' \in [Key -> InputRow \cup {NoInput}]
    BY <1>1 DEF Send, RowInv, TypeOK, InputRow
  <2>2. audit' \in [AuditType -> [SubjectId -> Nat]]
    BY RecordedType DEF Send, RowInv, TypeOK
  <2> QED
    BY <1>1, <2>1, <2>2 DEF Send, RowInv, TypeOK, account, history
<1>3. PairedRows'
  <2>1. LiveOutputs' = LiveOutputs /\ outputs' = outputs
    BY DEF Send, LiveOutputs
  <2>2. \A o \in LiveOutputs : outputs[o].key # k
    BY DEF Send, RowInv, PairedRows
  <2>3. \A j \in Key : IF j = k THEN inputs'[j].status = "pending"
                                ELSE inputs'[j] = inputs[j]
    BY DEF Send, RowInv, TypeOK
  <2>4. \A o \in LiveOutputs : outputs[o].key \in Key
    BY DEF RowInv, TypeOK, LiveOutputs, OutputRow, NoOutput
  <2> QED
    BY <2>1, <2>2, <2>3, <2>4 DEF RowInv, PairedRows
<1> QED
  BY <1>2, <1>3 DEF Send, RowInv, FreshOutputs

LEMMA ReplaceKeepsRows ==
    ASSUME RowInv, NEW k \in Key, NEW c \in Content, Replace(k, c)
    PROVE  RowInv'
<1>1. inputs[k] \in InputRow
  BY DEF Replace, RowInv, TypeOK, NoInput
<1>2. TypeOK'
  <2>1. inputs' \in [Key -> InputRow \cup {NoInput}]
    BY <1>1 DEF Replace, RowInv, TypeOK, InputRow
  <2> QED
    BY <2>1 DEF Replace, RowInv, TypeOK, account, history
<1>3. PairedRows'
  <2>1. LiveOutputs' = LiveOutputs /\ outputs' = outputs
    BY DEF Replace, LiveOutputs
  <2>2. \A j \in Key : inputs'[j].status = inputs[j].status
                        /\ inputs'[j].id = inputs[j].id
    BY <1>1 DEF Replace, RowInv, TypeOK, InputRow
  <2>3. \A o \in LiveOutputs : outputs[o].key \in Key
    BY DEF RowInv, TypeOK, LiveOutputs, OutputRow, NoOutput
  <2> QED
    BY <2>1, <2>2, <2>3 DEF RowInv, PairedRows
<1> QED
  BY <1>2, <1>3 DEF Replace, RowInv, FreshOutputs

LEMMA DeleteInputKeepsRows ==
    ASSUME RowInv, NEW k \in Key, DeleteInput(k)
    PROVE  RowInv'
<1>1. RemoveRows({}, {k}) /\ {k} \in SUBSET PendingKeys
  BY DEF DeleteInput, RemoveRows, RowInv, TypeOK, PendingKeys
<1>2. audit' \in [AuditType -> [SubjectId -> Nat]]
  BY RecordedType DEF DeleteInput, RowInv, TypeOK
<1>3. /\ inputs' \in [Key -> InputRow \cup {NoInput}]
      /\ outputs' \in [OutputIds -> OutputRow \cup {NoOutput}]
      /\ PairedRows'
      /\ FreshOutputs'
  BY <1>1, RemoveRowsKeepsPairs DEF DeleteInput
<1> QED
  BY <1>2, <1>3 DEF DeleteInput, RowInv, TypeOK, account, history

LEMMA OpenItemKeepsRows ==
    ASSUME RowInv, NEW k \in Key, OpenItem(k)
    PROVE  RowInv'
<1>1. inputs[k] \in InputRow
  BY DEF OpenItem, RowInv, TypeOK, NoInput
<1>2. view' \in View
  BY <1>1 DEF OpenItem, View, InputRow
<1> QED
  BY <1>2 DEF OpenItem, rows, account, history, RowInv, TypeOK, PairedRows,
              FreshOutputs, LiveOutputs

LEMMA AnswerKeepsRows ==
    ASSUME RowInv, NEW r \in Response, Answer(r)
    PROVE  RowInv'
<1> DEFINE k == view.key
           o == outputCount + 1
           row == [status |-> "live", key |-> k, inputId |-> inputs[k].id,
                   response |-> r, answeredAt |-> now,
                   expiresAt |-> now + OutputTimeout, read |-> FALSE,
                   previousUpdatedAt |-> inputs[k].updatedAt]
<1>1. view \in View /\ k \in Key
  BY DEF Answer, RowInv, TypeOK, View
<1>2. inputs[k] \in InputRow /\ inputs[k].status = "pending"
  BY <1>1 DEF Answer, AnswerTargetsCurrent, RowInv, TypeOK, NoInput
<1>3. o \in OutputIds /\ outputs[o] = NoOutput /\ outputCount' = o
      /\ outputCount' \in 0 .. MaxAnswers
  BY QueueConstants DEF Answer, RowInv, TypeOK, OutputIds, FreshOutputs
<1>4. row \in OutputRow
  BY <1>1, <1>2, QueueConstants DEF OutputRow, InputRow, RowInv, TypeOK
<1>5. /\ outputs' = [outputs EXCEPT ![o] = row]
      /\ inputs' = [inputs EXCEPT ![k].status = "answered", ![k].updatedAt = now]
  BY DEF Answer
<1>6. TypeOK'
  <2>1. inputs' \in [Key -> InputRow \cup {NoInput}]
    BY <1>1, <1>2, <1>5 DEF RowInv, TypeOK, InputRow
  <2>2. outputs' \in [OutputIds -> OutputRow \cup {NoOutput}]
    BY <1>3, <1>4, <1>5 DEF RowInv, TypeOK
  <2>3. audit' \in [AuditType -> [SubjectId -> Nat]]
    BY RecordedType DEF Answer, RowInv, TypeOK
  <2>4. decided' \in [OutputIds -> Decision \cup {Undecided}]
    <3>1. [key |-> k, inputId |-> inputs[k].id, revision |-> view.revision,
           content |-> view.content, response |-> r] \in Decision
      BY <1>1, <1>2 DEF Decision, View, InputRow
    <3> QED
      BY <1>3, <3>1 DEF Answer, RowInv, TypeOK
  <2> QED
    BY <1>3, <2>1, <2>2, <2>3, <2>4 DEF Answer, RowInv, TypeOK, account
<1>7. PairedRows'
  <2>1. LiveOutputs' = LiveOutputs \cup {o} /\ outputs'[o] = row
        /\ o \notin LiveOutputs /\ \A p \in LiveOutputs : outputs'[p] = outputs[p]
    BY <1>3, <1>5 DEF LiveOutputs, RowInv, TypeOK, NoOutput
  <2>2. \A p \in LiveOutputs : outputs[p].key # k /\ outputs[p].key \in Key
    BY <1>2 DEF RowInv, PairedRows, TypeOK, LiveOutputs, OutputRow, NoOutput
  <2>3. \A j \in Key : j # k => inputs'[j] = inputs[j]
    BY <1>5 DEF RowInv, TypeOK
  <2>4. inputs'[k].status = "answered" /\ inputs'[k].id = inputs[k].id
    BY <1>1, <1>2, <1>5 DEF RowInv, TypeOK, InputRow
  <2> HIDE DEF k, o
  <2>5. row.key = k /\ row.inputId = inputs[k].id
    OBVIOUS
  <2> HIDE DEF row
  <2>6. \A p \in LiveOutputs' :
           /\ inputs'[outputs'[p].key].status = "answered"
           /\ inputs'[outputs'[p].key].id = outputs'[p].inputId
    BY <2>1, <2>2, <2>3, <2>4, <2>5 DEF RowInv, PairedRows
  <2>7. \A p, q \in LiveOutputs' : outputs'[p].key = outputs'[q].key => p = q
    BY <2>1, <2>2, <2>5 DEF RowInv, PairedRows
  <2>8. \A j \in Key : inputs'[j].status = "answered" =>
             \E p \in LiveOutputs' : outputs'[p].key = j
    BY <2>1, <2>3, <2>5 DEF RowInv, PairedRows
  <2> QED
    BY <2>6, <2>7, <2>8 DEF PairedRows
<1>8. FreshOutputs'
  BY <1>3, <1>5 DEF RowInv, TypeOK, FreshOutputs, OutputIds
<1> QED
  BY <1>6, <1>7, <1>8 DEF RowInv

LEMMA UndoKeepsRows ==
    ASSUME RowInv, NEW o \in OutputIds, Undo(o)
    PROVE  RowInv'
<1> DEFINE k == outputs[o].key
<1>1. o \in LiveOutputs /\ outputs[o] \in OutputRow /\ k \in Key
  BY DEF Undo, Undoable, RowInv, TypeOK, LiveOutputs, OutputRow, NoOutput
<1>2. inputs[k].status = "answered" /\ inputs[k] \in InputRow
  BY <1>1 DEF RowInv, TypeOK, PairedRows, NoInput
<1>3. /\ inputs' = [inputs EXCEPT ![k] = Restored(inputs[k], o)]
      /\ outputs' = [outputs EXCEPT ![o] = NoOutput]
  BY <1>1 DEF Undo, RowInv, TypeOK
<1>4. Restored(inputs[k], o) \in InputRow
      /\ Restored(inputs[k], o).status = "pending"
  <2>1. outputs[o].previousUpdatedAt \in Nat
    BY <1>1 DEF OutputRow
  <2>2. inputs[k].revision + 1 \in Nat \ {0}
    BY <1>2 DEF InputRow
  <2> QED
    BY <1>2, <2>1, <2>2 DEF Restored, InputRow
<1> HIDE DEF k
<1>5. TypeOK'
  <2>1. audit' \in [AuditType -> [SubjectId -> Nat]]
    BY RecordedType DEF Undo, RowInv, TypeOK
  <2>2. /\ inputs' \in [Key -> InputRow \cup {NoInput}]
        /\ outputs' \in [OutputIds -> OutputRow \cup {NoOutput}]
    BY <1>1, <1>3, <1>4 DEF RowInv, TypeOK
  <2> QED
    BY <2>1, <2>2 DEF Undo, RowInv, TypeOK, account, history
<1>6. PairedRows'
  <2>1. LiveOutputs' = LiveOutputs \ {o}
        /\ \A p \in LiveOutputs' : outputs'[p] = outputs[p]
    BY <1>1, <1>3 DEF LiveOutputs, RowInv, TypeOK, NoOutput
  <2>2. \A p \in LiveOutputs' : outputs[p].key # k /\ outputs[p].key \in Key
    BY <1>1, <2>1 DEF k, RowInv, PairedRows, TypeOK, LiveOutputs, OutputRow, NoOutput
  <2>3. \A j \in Key : IF j = k THEN inputs'[j].status = "pending"
                                ELSE inputs'[j] = inputs[j]
    BY <1>3, <1>4 DEF RowInv, TypeOK
  <2>4. \A p \in LiveOutputs : outputs[p].key = k => p = o
    BY <1>1 DEF k, RowInv, PairedRows
  <2>5. outputs[o].key = k
    BY DEF k
  <2> QED
    BY <2>1, <2>2, <2>3, <2>4, <2>5 DEF RowInv, PairedRows
<1>7. FreshOutputs'
  BY <1>3 DEF Undo, RowInv, TypeOK, FreshOutputs
<1> QED
  BY <1>5, <1>6, <1>7 DEF RowInv

LEMMA ReadKeepsRows ==
    ASSUME RowInv, NEW c \in Caller, NEW page \in SUBSET OutputIds, Read(c, page)
    PROVE  RowInv'
<1>1. \A o \in page : o \in LiveOutputs /\ outputs[o] \in OutputRow
  BY DEF Read, LiveOutputs, RowInv, TypeOK, NoOutput
<1>2. \A o \in OutputIds : outputs'[o] =
          IF o \in page THEN [outputs[o] EXCEPT !.read = TRUE] ELSE outputs[o]
  BY DEF Read
<1>3. outputs' \in [OutputIds -> OutputRow \cup {NoOutput}]
  <2>1. \A o \in page : [outputs[o] EXCEPT !.read = TRUE] \in OutputRow
    BY <1>1 DEF OutputRow
  <2> QED
    BY <2>1 DEF Read, RowInv, TypeOK
<1>4. TypeOK'
  <2>1. \A o \in page : ResultOf(c, o) \in
           [caller : Caller, output : OutputIds, content : Content,
            response : Response]
    <3> SUFFICES ASSUME NEW o \in page
                 PROVE ResultOf(c, o) \in
                         [caller : Caller, output : OutputIds, content : Content,
                          response : Response]
      OBVIOUS
    <3>1. outputs[o].key \in Key /\ outputs[o].response \in Response
      BY <1>1 DEF OutputRow
    <3>2. inputs[outputs[o].key] \in InputRow
      BY <1>1, <3>1 DEF RowInv, TypeOK, PairedRows, NoInput
    <3>3. inputs[outputs[o].key].content \in Content
      BY <3>2 DEF InputRow
    <3> QED
      BY <3>1, <3>3 DEF ResultOf
  <2>2. received' \subseteq [caller : Caller, output : OutputIds,
                             content : Content, response : Response]
    BY <2>1 DEF Read, RowInv, TypeOK
  <2> QED
    BY <1>3, <2>2 DEF Read, RowInv, TypeOK, account
<1>5. \A o \in OutputIds :
         /\ outputs'[o].status = outputs[o].status
         /\ o \in LiveOutputs => /\ outputs'[o].key = outputs[o].key
                                 /\ outputs'[o].inputId = outputs[o].inputId
  BY <1>1, <1>2 DEF OutputRow
<1>6. LiveOutputs' = LiveOutputs
  BY <1>5 DEF LiveOutputs
<1>7. PairedRows'
  BY <1>5, <1>6 DEF Read, RowInv, PairedRows, LiveOutputs
<1>8. FreshOutputs'
  BY <1>1, <1>2 DEF Read, RowInv, FreshOutputs, LiveOutputs, NoOutput
<1> QED
  BY <1>4, <1>7, <1>8 DEF RowInv

LEMMA AckLiveKeepsRows ==
    ASSUME RowInv, NEW c \in Caller, NEW o \in OutputIds, AckLive(c, o)
    PROVE  RowInv'
<1>1. RemoveRows({o}, {}) /\ {o} \in SUBSET LiveOutputs
  BY DEF AckLive, LiveOutputs
<1>2. /\ inputs' \in [Key -> InputRow \cup {NoInput}]
      /\ outputs' \in [OutputIds -> OutputRow \cup {NoOutput}]
      /\ PairedRows'
      /\ FreshOutputs'
  BY <1>1, RemoveRowsKeepsPairs DEF AckLive
<1>3. audit' \in [AuditType -> [SubjectId -> Nat]]
  BY RecordedType DEF AckLive, RowInv, TypeOK
<1>4. ackReplies' \subseteq [caller : Caller, output : OutputIds, reply : AckReply]
  BY DEF AckLive, Reply, AckReply, RowInv, TypeOK
<1> QED
  BY <1>2, <1>3, <1>4 DEF AckLive, RowInv, TypeOK, account

LEMMA AckGoneKeepsRows ==
    ASSUME RowInv, NEW c \in Caller, NEW o \in OutputIds, AckGone(c, o)
    PROVE  RowInv'
<1>1. ackReplies' \subseteq [caller : Caller, output : OutputIds, reply : AckReply]
  BY DEF AckGone, Reply, AckReply, RowInv, TypeOK
<1> QED
  BY <1>1 DEF AckGone, rows, account, RowInv, TypeOK, PairedRows, FreshOutputs,
              LiveOutputs

LEMMA CleanupKeepsRows ==
    ASSUME RowInv, Cleanup
    PROVE  RowInv'
<1>1. PICK outs \in SUBSET LiveOutputs, pending \in SUBSET PendingKeys :
         /\ Purge(outs, pending)
         /\ \/ UNCHANGED account
            \/ tier' = "hosted_free" /\ graceEnds' = NoGrace
  BY CleanupPurges
<1>2. /\ inputs' \in [Key -> InputRow \cup {NoInput}]
      /\ outputs' \in [OutputIds -> OutputRow \cup {NoOutput}]
      /\ PairedRows'
      /\ FreshOutputs'
  BY <1>1, RemoveRowsKeepsPairs DEF Purge
<1>3. audit' \in [AuditType -> [SubjectId -> Nat]]
  BY <1>1, RecordedType DEF Purge, RowInv, TypeOK
<1>4. tier' \in Tier /\ graceEnds' \in Nat \cup {NoGrace}
  BY <1>1 DEF account, RowInv, TypeOK, Tier
<1> QED
  BY <1>1, <1>2, <1>3, <1>4 DEF Purge, RowInv, TypeOK, history

\* The steps that touch no row: the billing state and the clock.
LEMMA AccountStepsKeepRows ==
    ASSUME RowInv, BillingActive \/ BillingGraceStarts \/ Tick
    PROVE  RowInv'
<1>1. tier' \in Tier /\ graceEnds' \in Nat \cup {NoGrace} /\ now' \in Nat
  BY QueueConstants DEF BillingActive, BillingGraceStarts, Tick, account, RowInv,
                        TypeOK, Tier
<1> QED
  BY <1>1 DEF BillingActive, BillingGraceStarts, Tick, rows, history, RowInv,
              TypeOK, PairedRows, FreshOutputs, LiveOutputs

LEMMA StepKeepsRows == RowInv /\ [Next]_vars => RowInv'
<1> SUFFICES ASSUME RowInv, [Next]_vars PROVE RowInv'
  OBVIOUS
<1>1. CASE Next
  BY <1>1, SendKeepsRows, ReplaceKeepsRows, DeleteInputKeepsRows,
     OpenItemKeepsRows, AnswerKeepsRows, UndoKeepsRows, ReadKeepsRows,
     AckLiveKeepsRows, AckGoneKeepsRows, CleanupKeepsRows, AccountStepsKeepRows
     DEF Next
<1>2. CASE UNCHANGED vars
  BY <1>2 DEF vars, rows, account, history, RowInv, TypeOK, PairedRows,
              FreshOutputs, LiveOutputs
<1> QED
  BY <1>1, <1>2

\* Rows stay typed and paired, and output ids are drawn in order, in every
\* reachable state of the queues.
THEOREM RowsInvariant == Spec => []RowInv
BY InitRowInv, StepKeepsRows, PTL DEF Spec

\* Type correctness of the queues.
THEOREM TypeCorrect == Spec => []TypeOK
<1>1. RowInv => TypeOK
  BY DEF RowInv
<1> QED
  BY <1>1, RowsInvariant, PTL

\* An answered input and its unacknowledged output are always a pair.
THEOREM RowsArePaired == Spec => []PairedRows
<1>1. RowInv => PairedRows
  BY DEF RowInv
<1> QED
  BY <1>1, RowsInvariant, PTL

---------------------------------------------------------------------------
(* The audit ledger accounts for every output and every uploaded file.     *)
(* Each step that removes outputs records one terminal event for each of   *)
(* them and one file_deleted event for each file among them.  A free       *)
(* account stores no file: the downgrade commits with the deletion of the  *)
(* last one.                                                               *)

LEMMA CardinalityWithin ==
    ASSUME NEW o, NEW S
    PROVE  Cardinality({o} \cap S) = IF o \in S THEN 1 ELSE 0
<1>1. CASE o \in S
  <2>1. {o} \cap S = {o}
    BY <1>1
  <2> QED
    BY <1>1, <2>1, FS_Singleton
<1>2. CASE o \notin S
  <2>1. {o} \cap S = {}
    BY <1>2
  <2> QED
    BY <1>2, <2>1, FS_EmptySet
<1> QED
  BY <1>1, <1>2

\* OutputLedgerBalanced without cardinalities.
Entries(o) ==
    /\ audit["output_created"][o] = (IF o <= outputCount THEN 1 ELSE 0)
    /\ TerminalEvents(o) + (IF o \in LiveOutputs THEN 1 ELSE 0)
           = audit["output_created"][o]
    /\ audit["file_uploaded"][o]
           = audit["file_deleted"][o] + (IF o \in FileOutputs THEN 1 ELSE 0)

LEMMA LedgerIsEntries == OutputLedgerBalanced <=> \A o \in OutputIds : Entries(o)
BY CardinalityWithin DEF OutputLedgerBalanced, Entries

LEMMA LedgerIsEntriesNext ==
    OutputLedgerBalanced' <=> \A o \in OutputIds : Entries(o)'
BY CardinalityWithin DEF OutputLedgerBalanced, Entries

\* The ledger columns hold counts.
LEMMA EntryTypes ==
    ASSUME TypeOK, NEW o \in OutputIds
    PROVE  /\ outputCount \in Nat
           /\ audit["output_created"][o] \in Nat
           /\ audit["output_acknowledged"][o] \in Nat
           /\ audit["output_deleted"][o] \in Nat
           /\ audit["output_undone"][o] \in Nat
           /\ audit["file_uploaded"][o] \in Nat
           /\ audit["file_deleted"][o] \in Nat
BY DEF TypeOK, AuditType, SubjectId

\* One entry of the ledger after a step that records these events.
LEMMA RecordedEntry ==
    ASSUME NEW events, audit' = Recorded(events), NEW t \in AuditType,
           NEW n \in SubjectId
    PROVE  audit'[t][n] =
              IF <<t, n>> \in events THEN audit[t][n] + 1 ELSE audit[t][n]
<1>1. audit'[t] = [m \in SubjectId |-> IF <<t, m>> \in events
                                       THEN audit[t][m] + 1 ELSE audit[t][m]]
  BY DEF Recorded
<1> QED
  BY <1>1

Terminal == {"output_acknowledged", "output_deleted", "output_undone"}

\* These events end the outputs outs by t, and say nothing of other outputs.
EndsBy(outs, t, events) ==
    \A o \in OutputIds :
        /\ <<t, o>> \in events <=> o \in outs
        /\ \A u \in Terminal : u # t => <<u, o>> \notin events
        /\ <<"output_created", o>> \notin events
        /\ <<"file_uploaded", o>> \notin events
        /\ <<"file_deleted", o>> \in events <=> o \in outs \cap FileOutputs

\* Removing outputs with one terminal event each keeps the ledger balanced.
LEMMA RemovalBalances ==
    ASSUME RowInv, OutputLedgerBalanced, NEW outs \in SUBSET LiveOutputs,
           NEW t \in Terminal, NEW events, EndsBy(outs, t, events),
           audit' = Recorded(events),
           LiveOutputs' = LiveOutputs \ outs, FileOutputs' = FileOutputs \ outs,
           outputCount' = outputCount
    PROVE  OutputLedgerBalanced'
<1> SUFFICES ASSUME NEW o \in OutputIds PROVE Entries(o)'
  BY LedgerIsEntriesNext
<1>1. o \in SubjectId
  BY DEF SubjectId
<1>2. \A u \in AuditType : audit'[u][o] =
         IF <<u, o>> \in events THEN audit[u][o] + 1 ELSE audit[u][o]
  BY <1>1, RecordedEntry
<1>3. /\ "output_acknowledged" \in AuditType /\ "output_deleted" \in AuditType
      /\ "output_undone" \in AuditType /\ "output_created" \in AuditType
      /\ "file_uploaded" \in AuditType /\ "file_deleted" \in AuditType
  BY DEF AuditType
<1>4. TerminalEvents(o)' = TerminalEvents(o) + (IF o \in outs THEN 1 ELSE 0)
  <2>1. /\ audit["output_acknowledged"][o] \in Nat
        /\ audit["output_deleted"][o] \in Nat
        /\ audit["output_undone"][o] \in Nat
    BY EntryTypes DEF RowInv
  <2>2. \A u \in Terminal :
           audit'[u][o] = IF u = t /\ o \in outs THEN audit[u][o] + 1 ELSE audit[u][o]
    BY <1>2, <1>3 DEF EndsBy, Terminal
  <2>3. /\ audit'["output_acknowledged"][o] =
              IF t = "output_acknowledged" /\ o \in outs
              THEN audit["output_acknowledged"][o] + 1
              ELSE audit["output_acknowledged"][o]
        /\ audit'["output_deleted"][o] =
              IF t = "output_deleted" /\ o \in outs
              THEN audit["output_deleted"][o] + 1 ELSE audit["output_deleted"][o]
        /\ audit'["output_undone"][o] =
              IF t = "output_undone" /\ o \in outs
              THEN audit["output_undone"][o] + 1 ELSE audit["output_undone"][o]
    BY <2>2 DEF Terminal
  <2>4. CASE t = "output_acknowledged"
    BY <2>1, <2>3, <2>4 DEF TerminalEvents
  <2>5. CASE t = "output_deleted"
    BY <2>1, <2>3, <2>5 DEF TerminalEvents
  <2>6. CASE t = "output_undone"
    BY <2>1, <2>3, <2>6 DEF TerminalEvents
  <2> QED
    BY <2>4, <2>5, <2>6 DEF Terminal
<1>5. /\ audit'["output_created"][o] = audit["output_created"][o]
      /\ audit'["file_uploaded"][o] = audit["file_uploaded"][o]
      /\ audit'["file_deleted"][o] = IF o \in outs \cap FileOutputs
                                     THEN audit["file_deleted"][o] + 1
                                     ELSE audit["file_deleted"][o]
  BY <1>2, <1>3 DEF EndsBy
<1>6. Entries(o)
  BY LedgerIsEntries
<1>7. TerminalEvents(o) \in Nat
  BY EntryTypes DEF RowInv, TerminalEvents
<1> QED
  BY <1>4, <1>5, <1>6, <1>7, EntryTypes DEF Entries, RowInv

\* A step that leaves the ledger and the live outputs alone.
LEMMA UnchangedBalances ==
    ASSUME OutputLedgerBalanced, audit' = audit, outputCount' = outputCount,
           LiveOutputs' = LiveOutputs, FileOutputs' = FileOutputs
    PROVE  OutputLedgerBalanced'
BY DEF OutputLedgerBalanced, TerminalEvents

LEMMA AnswerBalances ==
    ASSUME RowInv, OutputLedgerBalanced, NEW r \in Response, Answer(r)
    PROVE  OutputLedgerBalanced'
<1> DEFINE n == outputCount + 1
           events == {<<"input_answered", inputs[view.key].id>>, <<"output_created", n>>}
                        \cup {<<"file_uploaded", m>> : m \in {l \in {n} : r = "file"}}
<1>1. n \in OutputIds /\ outputCount' = n /\ outputCount \in Nat
  BY QueueConstants DEF Answer, RowInv, TypeOK, OutputIds
<1>2. outputs[n] = NoOutput
  BY <1>1 DEF RowInv, FreshOutputs
<1>3. n \notin LiveOutputs /\ n \notin FileOutputs
  BY <1>2 DEF LiveOutputs, FileOutputs, NoOutput
<1>4. /\ outputs'[n].status = "live" /\ outputs'[n].response = r
      /\ \A o \in OutputIds : o # n => outputs'[o] = outputs[o]
  BY <1>1 DEF Answer, RowInv, TypeOK
<1>5. /\ LiveOutputs' = LiveOutputs \cup {n}
      /\ FileOutputs' = IF r = "file" THEN FileOutputs \cup {n} ELSE FileOutputs
  <2>1. LiveOutputs' = LiveOutputs \cup {n}
    BY <1>1, <1>4 DEF LiveOutputs
  <2> QED
    BY <1>3, <1>4, <2>1 DEF FileOutputs, LiveOutputs
<1>6. audit' = Recorded(events)
  BY DEF Answer
<1>7. \A o \in OutputIds :
         /\ <<"output_created", o>> \in events <=> o = n
         /\ <<"file_uploaded", o>> \in events <=> o = n /\ r = "file"
         /\ <<"output_acknowledged", o>> \notin events
         /\ <<"output_deleted", o>> \notin events
         /\ <<"output_undone", o>> \notin events
         /\ <<"file_deleted", o>> \notin events
  OBVIOUS
<1> HIDE DEF events
<1> SUFFICES ASSUME NEW o \in OutputIds PROVE Entries(o)'
  BY LedgerIsEntriesNext
<1>8. \A u \in AuditType : audit'[u][o] =
         IF <<u, o>> \in events THEN audit[u][o] + 1 ELSE audit[u][o]
  BY <1>6, RecordedEntry DEF SubjectId
<1>9. /\ audit'["output_created"][o] =
             IF o = n THEN audit["output_created"][o] + 1
                      ELSE audit["output_created"][o]
      /\ audit'["file_uploaded"][o] =
             IF o = n /\ r = "file" THEN audit["file_uploaded"][o] + 1
                                    ELSE audit["file_uploaded"][o]
      /\ audit'["file_deleted"][o] = audit["file_deleted"][o]
      /\ TerminalEvents(o)' = TerminalEvents(o)
  BY <1>7, <1>8 DEF AuditType, TerminalEvents
<1>10. Entries(o)
  BY LedgerIsEntries
<1>11. TerminalEvents(o) \in Nat
  BY EntryTypes DEF RowInv, TerminalEvents
<1>12. o <= n <=> o <= outputCount \/ o = n
  BY <1>1 DEF OutputIds
<1>13. o = n => ~(o <= outputCount)
  BY <1>1
<1> HIDE DEF n
<1>14. CASE o = n
  BY <1>1, <1>3, <1>5, <1>9, <1>10, <1>11, <1>12, <1>13, <1>14, EntryTypes
     DEF Entries, RowInv
<1>15. CASE o # n
  BY <1>1, <1>5, <1>9, <1>10, <1>11, <1>12, <1>15, EntryTypes DEF Entries, RowInv
<1> QED
  BY <1>14, <1>15

LEMMA UndoBalances ==
    ASSUME RowInv, OutputLedgerBalanced, NEW o \in OutputIds, Undo(o)
    PROVE  OutputLedgerBalanced'
<1> DEFINE events == {<<"output_undone", o>>} \cup FileDeletions({o})
<1>1. o \in LiveOutputs
  BY DEF Undo, Undoable, LiveOutputs
<1>2. LiveOutputs' = LiveOutputs \ {o} /\ FileOutputs' = FileOutputs \ {o}
  <2>1. LiveOutputs' = LiveOutputs \ {o}
        /\ \A p \in OutputIds : p # o => outputs'[p] = outputs[p]
    BY <1>1 DEF Undo, LiveOutputs, RowInv, TypeOK, NoOutput
  <2> QED
    BY <2>1 DEF FileOutputs, LiveOutputs
<1>3. EndsBy({o}, "output_undone", events)
  BY <1>1 DEF EndsBy, Terminal, FileDeletions, FileOutputs
<1>4. audit' = Recorded(events) /\ outputCount' = outputCount
  BY DEF Undo
<1>5. "output_undone" \in Terminal
  BY DEF Terminal
<1> HIDE DEF events
<1> QED
  BY <1>5, <1>1, <1>2, <1>3, <1>4, RemovalBalances

\* What RemoveRows leaves of the outputs.
LEMMA RemovedOutputs ==
    ASSUME NEW outs \in SUBSET LiveOutputs, NEW pending, RemoveRows(outs, pending)
    PROVE  LiveOutputs' = LiveOutputs \ outs /\ FileOutputs' = FileOutputs \ outs
<1>1. \A o \in OutputIds : outputs'[o] = IF o \in outs THEN NoOutput ELSE outputs[o]
  BY DEF RemoveRows
<1>2. LiveOutputs' = LiveOutputs \ outs
  BY <1>1 DEF LiveOutputs, NoOutput
<1> QED
  BY <1>1, <1>2 DEF FileOutputs, LiveOutputs

LEMMA AckLiveBalances ==
    ASSUME RowInv, OutputLedgerBalanced, NEW c \in Caller, NEW o \in OutputIds,
           AckLive(c, o)
    PROVE  OutputLedgerBalanced'
<1> DEFINE events == {<<"output_acknowledged", o>>} \cup FileDeletions({o})
<1>1. o \in LiveOutputs
  BY DEF AckLive, LiveOutputs
<1>2. LiveOutputs' = LiveOutputs \ {o} /\ FileOutputs' = FileOutputs \ {o}
  BY <1>1, RemovedOutputs DEF AckLive
<1>3. EndsBy({o}, "output_acknowledged", events)
  BY <1>1 DEF EndsBy, Terminal, FileDeletions, FileOutputs
<1>4. audit' = Recorded(events) /\ outputCount' = outputCount
  BY DEF AckLive
<1>5. "output_acknowledged" \in Terminal
  BY DEF Terminal
<1> HIDE DEF events
<1> QED
  BY <1>5, <1>1, <1>2, <1>3, <1>4, RemovalBalances

LEMMA CleanupBalances ==
    ASSUME RowInv, OutputLedgerBalanced, Cleanup
    PROVE  OutputLedgerBalanced'
<1>1. PICK outs \in SUBSET LiveOutputs, pending \in SUBSET PendingKeys :
         Purge(outs, pending)
  BY CleanupPurges
<1> DEFINE events == CleanupEvents(outs, pending)
<1>2. LiveOutputs' = LiveOutputs \ outs /\ FileOutputs' = FileOutputs \ outs
  BY <1>1, RemovedOutputs DEF Purge
<1>3. EndsBy(outs, "output_deleted", events)
  BY DEF EndsBy, Terminal, CleanupEvents, FileDeletions, FileOutputs
<1>4. audit' = Recorded(events) /\ outputCount' = outputCount
  BY <1>1 DEF Purge
<1>5. "output_deleted" \in Terminal
  BY DEF Terminal
<1> HIDE DEF events
<1> QED
  BY <1>5, <1>2, <1>3, <1>4, RemovalBalances

\* An event of an input row, with the outputs left alone.
LEMMA InputEventBalances ==
    ASSUME RowInv, OutputLedgerBalanced, NEW n,
           NEW t \in {"input_submitted", "input_deleted"},
           audit' = Recorded({<<t, n>>}), UNCHANGED <<outputs, outputCount>>
    PROVE  OutputLedgerBalanced'
<1>1. EndsBy({}, "output_deleted", {<<t, n>>})
  BY DEF EndsBy, Terminal
<1>2. /\ LiveOutputs' = LiveOutputs \ {} /\ FileOutputs' = FileOutputs \ {}
      /\ outputCount' = outputCount
  BY DEF LiveOutputs, FileOutputs
<1>3. "output_deleted" \in Terminal
  BY DEF Terminal
<1> QED
  BY <1>1, <1>2, <1>3, RemovalBalances

LEMMA SendBalances ==
    ASSUME RowInv, OutputLedgerBalanced, NEW k \in Key, NEW c \in Content, Send(k, c)
    PROVE  OutputLedgerBalanced'
BY InputEventBalances DEF Send

LEMMA DeleteInputBalances ==
    ASSUME RowInv, OutputLedgerBalanced, NEW k \in Key, DeleteInput(k)
    PROVE  OutputLedgerBalanced'
BY InputEventBalances DEF DeleteInput

LEMMA ReadBalances ==
    ASSUME RowInv, OutputLedgerBalanced, NEW c \in Caller,
           NEW page \in SUBSET OutputIds, Read(c, page)
    PROVE  OutputLedgerBalanced'
<1>1. \A o \in page : outputs[o] \in OutputRow /\ o \in LiveOutputs
  BY DEF Read, RowInv, TypeOK, NoOutput, LiveOutputs
<1>2. \A o \in OutputIds : /\ outputs'[o].status = outputs[o].status
                           /\ o \in LiveOutputs =>
                                outputs'[o].response = outputs[o].response
  BY <1>1 DEF Read, OutputRow
<1>3. LiveOutputs' = LiveOutputs /\ FileOutputs' = FileOutputs
  BY <1>2 DEF LiveOutputs, FileOutputs
<1> QED
  BY <1>3, UnchangedBalances DEF Read

LEMMA OtherStepsBalance ==
    ASSUME OutputLedgerBalanced, UNCHANGED <<outputs, outputCount, audit>>
    PROVE  OutputLedgerBalanced'
BY UnchangedBalances DEF LiveOutputs, FileOutputs

LEMMA StepBalances == RowInv /\ OutputLedgerBalanced /\ [Next]_vars
                        => OutputLedgerBalanced'
<1> SUFFICES ASSUME RowInv, OutputLedgerBalanced, [Next]_vars
             PROVE  OutputLedgerBalanced'
  OBVIOUS
<1>1. CASE UNCHANGED <<outputs, outputCount, audit>>
  BY <1>1, OtherStepsBalance
<1>2. CASE Next
  <2>1. ASSUME NEW k \in Key, NEW c \in Content, Replace(k, c)
        PROVE  UNCHANGED <<outputs, outputCount, audit>>
    BY <2>1 DEF Replace
  <2>2. ASSUME NEW k \in Key, OpenItem(k)
        PROVE  UNCHANGED <<outputs, outputCount, audit>>
    BY <2>2 DEF OpenItem, rows
  <2>3. ASSUME NEW c \in Caller, NEW o \in OutputIds, AckGone(c, o)
        PROVE  UNCHANGED <<outputs, outputCount, audit>>
    BY <2>3 DEF AckGone, rows
  <2>4. ASSUME BillingActive \/ BillingGraceStarts \/ Tick
        PROVE  UNCHANGED <<outputs, outputCount, audit>>
    BY <2>4 DEF BillingActive, BillingGraceStarts, Tick, rows
  <2> QED
    BY <1>1, <1>2, <2>1, <2>2, <2>3, <2>4, OtherStepsBalance, SendBalances,
       DeleteInputBalances, AnswerBalances, UndoBalances, ReadBalances,
       AckLiveBalances, CleanupBalances DEF Next
<1>3. CASE UNCHANGED vars
  BY <1>1, <1>3 DEF vars, rows
<1> QED
  BY <1>2, <1>3

LEMMA InitBalances == Init => OutputLedgerBalanced
<1> SUFFICES ASSUME Init, NEW o \in OutputIds PROVE Entries(o)
  BY LedgerIsEntries
<1>1. \A t \in AuditType : audit[t][o] = 0
  BY DEF Init, SubjectId
<1>2. o \notin LiveOutputs /\ o \notin FileOutputs /\ ~(o <= outputCount)
  BY QueueConstants DEF Init, LiveOutputs, FileOutputs, NoOutput, OutputIds
<1> QED
  BY <1>1, <1>2 DEF Entries, TerminalEvents, AuditType

\* Every output is created once and ends exactly once unless it is live, and
\* every uploaded file is deleted once with its output.
THEOREM LedgerIsBalanced == Spec => []OutputLedgerBalanced
BY RowsInvariant, InitBalances, StepBalances, PTL DEF Spec

---------------------------------------------------------------------------
(* Uploaded files and the tier                                             *)

LEMMA InitStoresNoFiles == Init => FreeStoresNoFiles
BY DEF Init, FreeStoresNoFiles, FileOutputs, LiveOutputs, NoOutput

\* A file output appears only by an answer on the paid tier.
LEMMA AnswerKeepsFiles ==
    ASSUME RowInv, FreeStoresNoFiles, NEW r \in Response, Answer(r)
    PROVE  FreeStoresNoFiles'
<1>1. tier' = tier /\ (r = "file" => tier = "hosted_paid")
  BY DEF Answer, account
<1>2. CASE r = "file"
  BY <1>1, <1>2 DEF FreeStoresNoFiles
<1>3. CASE r # "file"
  <2> DEFINE n == outputCount + 1
  <2>1. n \in OutputIds
    BY QueueConstants DEF Answer, RowInv, TypeOK, OutputIds
  <2>2. /\ outputs'[n].response # "file"
        /\ \A o \in OutputIds : o # n => outputs'[o] = outputs[o]
    BY <1>3, <2>1 DEF Answer, RowInv, TypeOK
  <2> HIDE DEF n
  <2>3. FileOutputs' \subseteq FileOutputs
    BY <2>2 DEF FileOutputs, LiveOutputs
  <2> QED
    BY <1>1, <2>3 DEF FreeStoresNoFiles
<1> QED
  BY <1>2, <1>3

\* Every other step but the downgrade only removes files, or leaves the tier paid.
LEMMA FewerFiles ==
    ASSUME FreeStoresNoFiles, FileOutputs' \subseteq FileOutputs,
           tier' = tier \/ tier' = "hosted_paid"
    PROVE  FreeStoresNoFiles'
BY DEF FreeStoresNoFiles

LEMMA SameOutputsKeepFiles ==
    ASSUME FreeStoresNoFiles, outputs' = outputs,
           tier' = tier \/ tier' = "hosted_paid"
    PROVE  FreeStoresNoFiles'
BY DEF FreeStoresNoFiles, FileOutputs, LiveOutputs

LEMMA ReadKeepsFiles ==
    ASSUME RowInv, FreeStoresNoFiles, NEW c \in Caller,
           NEW page \in SUBSET OutputIds, Read(c, page)
    PROVE  FreeStoresNoFiles'
<1>1. \A o \in page : outputs[o] \in OutputRow /\ o \in LiveOutputs
  BY DEF Read, RowInv, TypeOK, NoOutput, LiveOutputs
<1>2. \A o \in OutputIds : /\ outputs'[o].status = outputs[o].status
                           /\ o \in LiveOutputs =>
                                outputs'[o].response = outputs[o].response
  BY <1>1 DEF Read, OutputRow
<1>3. FileOutputs' \subseteq FileOutputs
  BY <1>2 DEF LiveOutputs, FileOutputs
<1> QED
  BY <1>3, FewerFiles DEF Read, account

LEMMA UndoKeepsFiles ==
    ASSUME RowInv, FreeStoresNoFiles, NEW o \in OutputIds, Undo(o)
    PROVE  FreeStoresNoFiles'
<1>1. outputs'[o] = NoOutput /\ \A p \in OutputIds : p # o => outputs'[p] = outputs[p]
  BY DEF Undo, RowInv, TypeOK
<1>2. FileOutputs' \subseteq FileOutputs
  BY <1>1 DEF FileOutputs, LiveOutputs, NoOutput
<1> QED
  BY <1>2, FewerFiles DEF Undo, account

LEMMA AckLiveKeepsFiles ==
    ASSUME FreeStoresNoFiles, NEW c \in Caller, NEW o \in OutputIds, AckLive(c, o)
    PROVE  FreeStoresNoFiles'
<1>1. {o} \in SUBSET LiveOutputs /\ RemoveRows({o}, {})
  BY DEF AckLive, LiveOutputs
<1> QED
  BY <1>1, RemovedOutputs, FewerFiles DEF AckLive, account

\* The downgrade to the free tier commits with the deletion of the last file.
LEMMA CleanupKeepsFiles ==
    ASSUME FreeStoresNoFiles, Cleanup
    PROVE  FreeStoresNoFiles'
<1>1. PICK outs \in SUBSET LiveOutputs, pending \in SUBSET PendingKeys :
         /\ Purge(outs, pending)
         /\ \/ UNCHANGED account
            \/ /\ tier' = "hosted_free" /\ graceEnds' = NoGrace
               /\ FileOutputs \subseteq outs
  BY CleanupPurges
<1>2. FileOutputs' = FileOutputs \ outs
  BY <1>1, RemovedOutputs DEF Purge
<1> QED
  BY <1>1, <1>2 DEF FreeStoresNoFiles, account

LEMMA StepKeepsFiles == RowInv /\ FreeStoresNoFiles /\ [Next]_vars
                          => FreeStoresNoFiles'
<1> SUFFICES ASSUME RowInv, FreeStoresNoFiles, [Next]_vars
             PROVE  FreeStoresNoFiles'
  OBVIOUS
<1>1. ASSUME NEW k \in Key,
             OpenItem(k) \/ DeleteInput(k)
                \/ \E c \in Content : Send(k, c) \/ Replace(k, c)
      PROVE  outputs' = outputs /\ tier' = tier
  BY <1>1 DEF OpenItem, DeleteInput, Send, Replace, rows, account
<1>2. ASSUME NEW c \in Caller, NEW o \in OutputIds, AckGone(c, o)
      PROVE  outputs' = outputs /\ tier' = tier
  BY <1>2 DEF AckGone, rows, account
<1>3. ASSUME BillingActive \/ BillingGraceStarts \/ Tick \/ UNCHANGED vars
      PROVE  outputs' = outputs /\ (tier' = tier \/ tier' = "hosted_paid")
  BY <1>3 DEF BillingActive, BillingGraceStarts, Tick, vars, rows, account
<1> QED
  BY <1>1, <1>2, <1>3, SameOutputsKeepFiles, AnswerKeepsFiles, ReadKeepsFiles,
     UndoKeepsFiles, AckLiveKeepsFiles, CleanupKeepsFiles DEF Next

\* A hosted-free account stores no uploaded file, after a downgrade too.
THEOREM FreeHoldsNoFiles == Spec => []FreeStoresNoFiles
BY RowsInvariant, InitStoresNoFiles, StepKeepsFiles, PTL DEF Spec

---------------------------------------------------------------------------
(* Decisions.  What a caller reads is what the human decided on.  The      *)
(* argument follows one input row id: ids are drawn once, the revision of  *)
(* a row only grows, and every decision on a row is at a revision the row  *)
(* has left behind once it is pending again.                               *)

\* Input row ids are drawn in order and identify the row.
IdsAreUnique ==
    /\ \A k \in LiveKeys : inputs[k].id <= inputCount
    /\ \A j, k \in LiveKeys : inputs[j].id = inputs[k].id => j = k

\* The page on view shows an earlier state of the row, or its present content.
ViewIsPast ==
    view # NoView =>
        /\ view.id <= inputCount
        /\ \A k \in LiveKeys : inputs[k].id = view.id =>
              /\ view.revision <= inputs[k].revision
              /\ view.revision = inputs[k].revision => view.content = inputs[k].content

\* A decision was made on a drawn row, at a revision that is behind a pending row.
DecisionsArePast ==
    \A o \in OutputIds :
        IF o <= outputCount
        THEN /\ decided[o] # Undecided
             /\ decided[o].inputId <= inputCount
             /\ \A k \in LiveKeys : inputs[k].id = decided[o].inputId =>
                   /\ decided[o].revision <= inputs[k].revision
                   /\ inputs[k].status = "pending" =>
                         decided[o].revision < inputs[k].revision
        ELSE decided[o] = Undecided

\* A live output still is the decision it was made from.
LiveIsDecided ==
    \A o \in LiveOutputs :
        /\ decided[o].key = outputs[o].key
        /\ decided[o].inputId = outputs[o].inputId
        /\ decided[o].content = inputs[outputs[o].key].content
        /\ decided[o].response = outputs[o].response

\* What a caller holds was drawn, is marked read while it is live, and is the
\* decision.
ReceivedIsRead ==
    \A r \in received :
        /\ r.output <= outputCount
        /\ r.output \in LiveOutputs => outputs[r.output].read
        /\ decided[r.output].key[1] = r.caller
        /\ decided[r.output].content = r.content
        /\ decided[r.output].response = r.response

DecisionInv ==
    /\ IdsAreUnique
    /\ ViewIsPast
    /\ DecisionsArePast
    /\ LiveIsDecided
    /\ ReceivedIsRead
    /\ RevisionDecidedOnce
    /\ ReadIsFinal

---------------------------------------------------------------------------
\* A step whose events name no undo leaves the undo column of the ledger alone.
LEMMA NoUndoRecorded ==
    ASSUME NEW events, audit' = Recorded(events),
           \A n : <<"output_undone", n>> \notin events
    PROVE  \A n \in SubjectId :
              audit'["output_undone"][n] = audit["output_undone"][n]
BY RecordedEntry DEF AuditType

\* The ledger holds no undo of a live output.
LEMMA LiveIsNotUndone ==
    ASSUME RowInv, OutputLedgerBalanced, NEW o \in LiveOutputs
    PROVE  audit["output_undone"][o] = 0
<1>1. o \in OutputIds
  BY DEF LiveOutputs
<1>2. Entries(o)
  BY <1>1, LedgerIsEntries
<1>3. /\ audit["output_acknowledged"][o] \in Nat
      /\ audit["output_deleted"][o] \in Nat
      /\ audit["output_undone"][o] \in Nat
  BY <1>1, EntryTypes DEF RowInv
<1>4. TerminalEvents(o) + 1 = audit["output_created"][o]
  BY <1>2 DEF Entries
<1>5. audit["output_created"][o] = 0 \/ audit["output_created"][o] = 1
  BY <1>2 DEF Entries
<1>6. TerminalEvents(o) + 1 = 0 \/ TerminalEvents(o) + 1 = 1
  BY <1>4, <1>5
<1> QED
  BY <1>3, <1>6 DEF TerminalEvents

\* Live keys and live outputs have typed rows.
LEMMA LiveRows ==
    ASSUME TypeOK
    PROVE  /\ \A k \in LiveKeys : k \in Key /\ inputs[k] \in InputRow
           /\ \A o \in LiveOutputs : o \in OutputIds /\ outputs[o] \in OutputRow
                                      /\ outputs[o].key \in Key
BY DEF TypeOK, LiveKeys, LiveOutputs, OutputRow, NoInput, NoOutput

LEMMA InitDecisionInv == Init => DecisionInv
<1> SUFFICES ASSUME Init PROVE DecisionInv
  OBVIOUS
<1>1. LiveKeys = {} /\ LiveOutputs = {}
  BY DEF Init, LiveKeys, LiveOutputs, NoInput, NoOutput
<1>2. \A o \in OutputIds : ~(o <= outputCount) /\ decided[o] = Undecided
  BY QueueConstants DEF Init, OutputIds
<1> QED
  BY <1>1, <1>2 DEF Init, DecisionInv, IdsAreUnique, ViewIsPast, DecisionsArePast,
     LiveIsDecided, ReceivedIsRead, RevisionDecidedOnce, ReadIsFinal

\* A step that only removes rows, and records no undo, keeps the invariant.
LEMMA RemovalKeepsDecisions ==
    ASSUME RowInv, DecisionInv, RowInv',
           NEW outs \in SUBSET LiveOutputs, NEW pending \in SUBSET PendingKeys,
           RemoveRows(outs, pending),
           UNCHANGED <<inputCount, outputCount, view, decided, received>>,
           \A n \in SubjectId :
               audit'["output_undone"][n] = audit["output_undone"][n]
    PROVE  DecisionInv'
<1>1. \A k \in LiveKeys' : k \in LiveKeys /\ inputs'[k] = inputs[k]
  BY DEF RemoveRows, LiveKeys, NoInput
<1>2. \A o \in LiveOutputs' : o \in LiveOutputs /\ outputs'[o] = outputs[o]
  BY DEF RemoveRows, LiveOutputs, NoOutput
<1>3. \A o \in LiveOutputs' : outputs'[o].key \in LiveKeys'
  BY LiveRows, <1>2 DEF RowInv, PairedRows, LiveKeys
<1>4. IdsAreUnique'
  BY <1>1 DEF DecisionInv, IdsAreUnique
<1>5. ViewIsPast'
  BY <1>1 DEF DecisionInv, ViewIsPast
<1>6. DecisionsArePast'
  BY <1>1 DEF DecisionInv, DecisionsArePast
<1>7. LiveIsDecided'
  BY <1>1, <1>2, <1>3 DEF DecisionInv, LiveIsDecided
<1>8. ReceivedIsRead'
  BY <1>2 DEF DecisionInv, ReceivedIsRead
<1>9. RevisionDecidedOnce' /\ ReadIsFinal'
  <2>1. \A r \in received : r.output \in SubjectId
    BY DEF RowInv, TypeOK, SubjectId
  <2> QED
    BY <2>1 DEF DecisionInv, RevisionDecidedOnce, ReadIsFinal
<1> QED
  BY <1>4, <1>5, <1>6, <1>7, <1>8, <1>9 DEF DecisionInv

LEMMA SendKeepsDecisions ==
    ASSUME RowInv, DecisionInv, NEW k \in Key, NEW c \in Content, Send(k, c)
    PROVE  DecisionInv'
<1> DEFINE i == inputCount + 1
           row == [status |-> "pending", id |-> i, revision |-> 1,
                   content |-> c, updatedAt |-> now]
<1>1. i \in Nat /\ inputCount' = i /\ inputCount \in Nat /\ inputCount < i
  BY DEF Send, RowInv, TypeOK
<1>2. /\ inputs'[k] = row
      /\ \A j \in Key : j # k => inputs'[j] = inputs[j]
  BY DEF Send, RowInv, TypeOK
<1>3. row.id = i /\ row.status = "pending" /\ row.revision = 1
  OBVIOUS
<1> HIDE DEF row
<1>4. k \notin LiveKeys /\ LiveKeys' = LiveKeys \cup {k}
  BY <1>2, <1>3 DEF Send, LiveKeys
<1>5. \A j \in LiveKeys : j # k /\ inputs'[j] = inputs[j]
  BY <1>2, <1>4 DEF LiveKeys
<1>6. \A j \in LiveKeys : inputs[j].id \in Nat
  BY LiveRows DEF RowInv, InputRow, InputIds
<1>7. LiveOutputs' = LiveOutputs /\ outputs' = outputs
      /\ UNCHANGED <<outputCount, view, decided, received>>
  BY DEF Send, LiveOutputs, history
<1> HIDE DEF i
<1>8. IdsAreUnique'
  <2>1. \A j \in LiveKeys' : inputs'[j].id <= inputCount'
    BY <1>1, <1>2, <1>3, <1>4, <1>5, <1>6 DEF DecisionInv, IdsAreUnique, RowInv, TypeOK
  <2>2. \A j \in LiveKeys : inputs'[j].id < i
    BY <1>1, <1>5, <1>6 DEF DecisionInv, IdsAreUnique, RowInv, TypeOK
  <2>3. \A j \in LiveKeys : inputs'[j].id # i
    BY <1>1, <1>5, <1>6, <2>2
  <2>4. inputs'[k].id = i
    BY <1>2, <1>3
  <2>5. \A j, l \in LiveKeys' : inputs'[j].id = inputs'[l].id => j = l
    BY <1>4, <1>5, <2>3, <2>4 DEF DecisionInv, IdsAreUnique
  <2> QED
    BY <2>1, <2>5 DEF IdsAreUnique
<1>9. ViewIsPast'
  <2> SUFFICES ASSUME view # NoView
               PROVE  /\ view.id <= inputCount'
                      /\ \A j \in LiveKeys' : inputs'[j].id = view.id =>
                            /\ view.revision <= inputs'[j].revision
                            /\ view.revision = inputs'[j].revision =>
                                  view.content = inputs'[j].content
    BY <1>7 DEF ViewIsPast
  <2>1. view.id \in Nat /\ view.id <= inputCount
    BY DEF DecisionInv, ViewIsPast, RowInv, TypeOK, View, InputIds
  <2>2. view.id # i
    BY <1>1, <2>1
  <2> QED
    BY <1>1, <1>2, <1>3, <1>4, <1>5, <2>1, <2>2
       DEF DecisionInv, ViewIsPast, RowInv, TypeOK
<1>10. DecisionsArePast'
  <2>1. \A o \in OutputIds : o <= outputCount => decided[o].inputId \in Nat
    BY DEF DecisionInv, DecisionsArePast, RowInv, TypeOK, Decision, InputIds
  <2>2. \A o \in OutputIds : o <= outputCount =>
           decided[o].inputId <= inputCount' /\ decided[o].inputId # i
    BY <1>1, <2>1 DEF DecisionInv, DecisionsArePast, RowInv, TypeOK
  <2> QED
    BY <1>2, <1>3, <1>4, <1>5, <1>7, <2>2 DEF DecisionInv, DecisionsArePast
<1>11. LiveIsDecided'
  <2>1. \A o \in LiveOutputs : outputs[o].key \in LiveKeys
    BY LiveRows DEF RowInv, PairedRows, LiveKeys
  <2> QED
    BY <1>5, <1>7, <2>1 DEF DecisionInv, LiveIsDecided
<1>12. ReceivedIsRead' /\ RevisionDecidedOnce'
  BY <1>7 DEF DecisionInv, ReceivedIsRead, RevisionDecidedOnce
<1>13. ReadIsFinal'
  <2>1. \A n \in SubjectId :
           audit'["output_undone"][n] = audit["output_undone"][n]
    BY NoUndoRecorded DEF Send
  <2> QED
    BY <1>7, <2>1 DEF DecisionInv, ReadIsFinal, RowInv, TypeOK, SubjectId
<1> QED
  BY <1>8, <1>9, <1>10, <1>11, <1>12, <1>13 DEF DecisionInv

LEMMA ReplaceKeepsDecisions ==
    ASSUME RowInv, DecisionInv, NEW k \in Key, NEW c \in Content, Replace(k, c)
    PROVE  DecisionInv'
<1>1. k \in LiveKeys /\ inputs[k] \in InputRow
  BY LiveRows DEF Replace, LiveKeys, RowInv
<1>2. /\ inputs'[k].id = inputs[k].id
      /\ inputs'[k].status = "pending" /\ inputs[k].status = "pending"
      /\ inputs'[k].revision = inputs[k].revision + 1
      /\ inputs[k].revision \in Nat
  BY <1>1 DEF Replace, RowInv, TypeOK, InputRow
<1>3. \A j \in Key : j # k => inputs'[j] = inputs[j]
  BY DEF Replace, RowInv, TypeOK
<1>4. LiveKeys' = LiveKeys /\ LiveOutputs' = LiveOutputs /\ outputs' = outputs
      /\ UNCHANGED <<inputCount, outputCount, view, decided, received, audit>>
  BY <1>1, <1>2, <1>3 DEF Replace, LiveKeys, LiveOutputs, history
<1>5. \A j \in LiveKeys : j \in Key /\ inputs'[j].id = inputs[j].id
  BY <1>2, <1>3 DEF LiveKeys
<1>6. IdsAreUnique'
  BY <1>4, <1>5 DEF DecisionInv, IdsAreUnique
<1>7. ViewIsPast'
  <2>1. view # NoView => view.revision \in Nat
    BY DEF RowInv, TypeOK, View
  <2> QED
    BY <1>2, <1>3, <1>4, <1>5, <2>1 DEF DecisionInv, ViewIsPast
<1>8. DecisionsArePast'
  <2>1. \A o \in OutputIds : o <= outputCount => decided[o].revision \in Nat
    BY DEF DecisionInv, DecisionsArePast, RowInv, TypeOK, Decision
  <2> SUFFICES ASSUME NEW o \in OutputIds, o <= outputCount, NEW j \in LiveKeys,
                      inputs'[j].id = decided[o].inputId
               PROVE  /\ decided[o].revision <= inputs'[j].revision
                      /\ inputs'[j].status = "pending" =>
                            decided[o].revision < inputs'[j].revision
    BY <1>4 DEF DecisionInv, DecisionsArePast
  <2>2. /\ decided[o].revision <= inputs[j].revision
        /\ inputs[j].status = "pending" => decided[o].revision < inputs[j].revision
    BY <1>5 DEF DecisionInv, DecisionsArePast
  <2>3. CASE j = k
    BY <1>2, <2>1, <2>2, <2>3
  <2>4. CASE j # k
    BY <1>3, <1>5, <2>2, <2>4
  <2> QED
    BY <2>3, <2>4
<1>9. LiveIsDecided'
  <2>1. \A o \in LiveOutputs : outputs[o].key \in Key /\ outputs[o].key # k
    BY LiveRows, <1>2 DEF RowInv, PairedRows
  <2> QED
    BY <1>3, <1>4, <2>1 DEF DecisionInv, LiveIsDecided
<1> QED
  BY <1>4, <1>6, <1>7, <1>8, <1>9
     DEF DecisionInv, ReceivedIsRead, RevisionDecidedOnce, ReadIsFinal

LEMMA OpenItemKeepsDecisions ==
    ASSUME RowInv, DecisionInv, NEW k \in Key, OpenItem(k)
    PROVE  DecisionInv'
<1>1. k \in LiveKeys /\ inputs[k] \in InputRow
  BY LiveRows DEF OpenItem, LiveKeys, RowInv
<1>2. UNCHANGED <<inputs, outputs, inputCount, outputCount, audit, decided, received>>
      /\ LiveKeys' = LiveKeys /\ LiveOutputs' = LiveOutputs
  BY DEF OpenItem, rows, history, LiveKeys, LiveOutputs
<1>3. view'.id = inputs[k].id /\ view'.revision = inputs[k].revision
      /\ view'.content = inputs[k].content
  BY DEF OpenItem
<1>4. ViewIsPast'
  BY <1>1, <1>2, <1>3 DEF DecisionInv, ViewIsPast, IdsAreUnique, InputRow
<1> QED
  BY <1>2, <1>4 DEF DecisionInv, IdsAreUnique, DecisionsArePast, LiveIsDecided,
     ReceivedIsRead, RevisionDecidedOnce, ReadIsFinal

LEMMA AnswerKeepsDecisions ==
    ASSUME RowInv, DecisionInv, NEW r \in Response, Answer(r)
    PROVE  DecisionInv'
<1> DEFINE k == view.key
           n == outputCount + 1
           d == [key |-> k, inputId |-> inputs[k].id, revision |-> view.revision,
                 content |-> view.content, response |-> r]
<1>1. view \in View /\ k \in Key /\ view # NoView
  BY DEF Answer, RowInv, TypeOK, View
<1>2. /\ inputs[k].status = "pending" /\ inputs[k].id = view.id
      /\ inputs[k].revision = view.revision
  BY <1>1 DEF Answer, AnswerTargetsCurrent
<1>3. k \in LiveKeys /\ inputs[k] \in InputRow
  BY <1>1, <1>2, LiveRows DEF LiveKeys, RowInv
<1>4. n \in OutputIds /\ outputCount' = n /\ outputCount \in Nat
      /\ n \notin LiveOutputs
  <2>1. n \in OutputIds /\ outputCount' = n /\ outputCount \in Nat
    BY QueueConstants DEF Answer, RowInv, TypeOK, OutputIds
  <2>2. outputs[n] = NoOutput
    BY <2>1 DEF RowInv, FreshOutputs
  <2> QED
    BY <2>1, <2>2 DEF LiveOutputs, NoOutput
<1>5. /\ inputs'[k].id = inputs[k].id
      /\ inputs'[k].status = "answered"
      /\ inputs'[k].revision = inputs[k].revision
      /\ inputs'[k].content = inputs[k].content
  BY <1>1, <1>3 DEF Answer, RowInv, TypeOK, InputRow
<1>6. \A j \in Key : j # k => inputs'[j] = inputs[j]
  BY DEF Answer, RowInv, TypeOK
<1>7. decided' = [decided EXCEPT ![n] = d]
  BY DEF Answer
<1>8. decided'[n] = d /\ \A o \in OutputIds : o # n => decided'[o] = decided[o]
  BY <1>4, <1>7 DEF RowInv, TypeOK
<1>9. d.key = k /\ d.inputId = inputs[k].id /\ d.revision = view.revision
      /\ d.content = view.content /\ d.response = r /\ d # Undecided
  <2>1. d \in Decision
    BY <1>1, <1>3 DEF Decision, View, InputRow
  <2>2. d # Undecided
    BY <2>1 DEF Decision, Undecided
  <2> QED
    BY <2>2
<1>10. /\ outputs'[n].key = k /\ outputs'[n].response = r
       /\ outputs'[n].inputId = inputs[k].id
       /\ outputs'[n].status = "live"
       /\ \A o \in OutputIds : o # n => outputs'[o] = outputs[o]
  BY <1>4 DEF Answer, RowInv, TypeOK
<1>11. LiveOutputs' = LiveOutputs \cup {n}
  BY <1>4, <1>10 DEF LiveOutputs
<1>12. LiveKeys' = LiveKeys /\ UNCHANGED <<inputCount, view, received>>
  BY <1>3, <1>5, <1>6 DEF LiveKeys, Answer
<1>13. \A j \in LiveKeys :
          /\ j \in Key
          /\ inputs'[j].id = inputs[j].id
          /\ inputs'[j].revision = inputs[j].revision
          /\ inputs'[j].content = inputs[j].content
          /\ inputs'[j].status = "pending" => inputs[j].status = "pending" /\ j # k
  BY <1>5, <1>6 DEF LiveKeys
<1>14. \A o \in OutputIds : o <= outputCount => o # n
  BY <1>4 DEF OutputIds
<1> HIDE DEF d, n, k
<1>15. IdsAreUnique'
  BY <1>12, <1>13 DEF DecisionInv, IdsAreUnique
<1>16. ViewIsPast'
  BY <1>12, <1>13 DEF DecisionInv, ViewIsPast
<1>17. DecisionsArePast'
  <2> SUFFICES ASSUME NEW o \in OutputIds
      PROVE  IF o <= n
             THEN /\ decided'[o] # Undecided
                  /\ decided'[o].inputId <= inputCount
                  /\ \A j \in LiveKeys : inputs'[j].id = decided'[o].inputId =>
                        /\ decided'[o].revision <= inputs'[j].revision
                        /\ inputs'[j].status = "pending" =>
                              decided'[o].revision < inputs'[j].revision
             ELSE decided'[o] = Undecided
    BY <1>4, <1>12 DEF DecisionsArePast
  <2>1. CASE o = n
    <3>1. decided'[o] # Undecided /\ decided'[o].inputId <= inputCount
      BY <1>3, <1>8, <1>9, <2>1 DEF DecisionInv, IdsAreUnique
    <3>2. ASSUME NEW j \in LiveKeys, inputs'[j].id = decided'[o].inputId
          PROVE  j = k
      BY <1>3, <1>8, <1>9, <1>13, <2>1, <3>2 DEF DecisionInv, IdsAreUnique
    <3>3. decided'[o].revision <= inputs'[k].revision
      BY <1>2, <1>3, <1>5, <1>8, <1>9, <2>1 DEF InputRow
    <3>4. n <= n
      BY <1>4 DEF OutputIds
    <3>5. inputs'[k].status # "pending"
      BY <1>5
    <3> QED
      BY <2>1, <3>1, <3>2, <3>3, <3>4, <3>5
  <2>2. CASE o # n
    <3>1. o <= n <=> o <= outputCount
      <4>1. n = outputCount + 1
        BY DEF n
      <4> QED
        BY <1>4, <2>2, <4>1 DEF OutputIds
    <3> QED
      BY <1>8, <1>13, <2>2, <3>1 DEF DecisionInv, DecisionsArePast
  <2> QED
    BY <2>1, <2>2
<1>18. LiveIsDecided'
  <2>1. \A o \in LiveOutputs : o \in OutputIds /\ outputs[o].key \in LiveKeys
    BY LiveRows DEF RowInv, PairedRows, LiveKeys
  <2>2. \A o \in LiveOutputs : o # n
    BY <1>4
  <2>3. \A o \in LiveOutputs :
           /\ decided'[o].key = outputs'[o].key
           /\ decided'[o].inputId = outputs'[o].inputId
           /\ decided'[o].content = inputs'[outputs'[o].key].content
           /\ decided'[o].response = outputs'[o].response
    BY <1>8, <1>10, <1>13, <2>1, <2>2 DEF DecisionInv, LiveIsDecided
  <2>4. view.content = inputs[k].content
    BY <1>1, <1>2, <1>3 DEF DecisionInv, ViewIsPast
  <2>5. /\ decided'[n].key = outputs'[n].key
        /\ decided'[n].inputId = outputs'[n].inputId
        /\ decided'[n].content = inputs'[outputs'[n].key].content
        /\ decided'[n].response = outputs'[n].response
    BY <1>5, <1>8, <1>9, <1>10, <2>4
  <2> QED
    BY <1>11, <2>3, <2>5 DEF LiveIsDecided
<1>19. ReceivedIsRead'
  <2>1. \A q \in received : q.output \in OutputIds /\ q.output <= outputCount
    BY DEF DecisionInv, ReceivedIsRead, RowInv, TypeOK
  <2>2. \A q \in received : q.output # n /\ q.output <= outputCount'
    <3>1. n = outputCount + 1
      BY DEF n
    <3> QED
      BY <1>4, <2>1, <3>1 DEF OutputIds
  <2> QED
    BY <1>8, <1>10, <1>11, <1>12, <2>1, <2>2 DEF DecisionInv, ReceivedIsRead
<1>20. RevisionDecidedOnce'
  <2>1. ASSUME NEW o \in OutputIds, o # n, decided[o] # Undecided,
               decided[o].inputId = inputs[k].id
        PROVE  decided[o].revision # view.revision
    <3>1. o <= outputCount /\ decided[o].revision < inputs[k].revision
      BY <1>2, <1>3, <2>1 DEF DecisionInv, DecisionsArePast
    <3>2. decided[o].revision \in Nat
      BY <2>1 DEF RowInv, TypeOK, Decision
    <3> QED
      BY <1>1, <1>2, <3>1, <3>2 DEF View
  <2> QED
    BY <1>8, <1>9, <2>1 DEF DecisionInv, RevisionDecidedOnce
<1>21. ReadIsFinal'
  <2>1. \A m \in SubjectId :
           audit'["output_undone"][m] = audit["output_undone"][m]
    BY NoUndoRecorded DEF Answer
  <2> QED
    BY <1>12, <2>1 DEF DecisionInv, ReadIsFinal, RowInv, TypeOK, SubjectId
<1> QED
  BY <1>15, <1>16, <1>17, <1>18, <1>19, <1>20, <1>21 DEF DecisionInv

LEMMA UndoKeepsDecisions ==
    ASSUME RowInv, DecisionInv, NEW o \in OutputIds, Undo(o)
    PROVE  DecisionInv'
<1> DEFINE k == outputs[o].key
<1>1. o \in LiveOutputs /\ outputs[o] \in OutputRow /\ k \in Key
      /\ outputs[o].read = FALSE
  <2>1. o \in LiveOutputs /\ ~outputs[o].read
    BY DEF Undo, Undoable, LiveOutputs
  <2>2. outputs[o] \in OutputRow /\ k \in Key
    BY LiveRows, <2>1 DEF RowInv
  <2> QED
    BY <2>1, <2>2 DEF OutputRow
<1>2. inputs[k].status = "answered" /\ k \in LiveKeys /\ inputs[k] \in InputRow
  BY LiveRows, <1>1 DEF RowInv, PairedRows, LiveKeys
<1>3. inputs' = [inputs EXCEPT ![k] = Restored(inputs[k], o)]
  BY <1>1 DEF Undo, RowInv, TypeOK
<1>4. /\ Restored(inputs[k], o).status = "pending"
      /\ Restored(inputs[k], o).id = inputs[k].id
      /\ Restored(inputs[k], o).revision = inputs[k].revision + 1
      /\ Restored(inputs[k], o).content = inputs[k].content
  BY <1>2 DEF Restored, InputRow
<1>5. /\ inputs'[k] = Restored(inputs[k], o)
      /\ \A j \in Key : j # k => inputs'[j] = inputs[j]
  BY <1>1, <1>3 DEF RowInv, TypeOK
<1>6. /\ LiveOutputs' = LiveOutputs \ {o}
      /\ \A p \in LiveOutputs' : outputs'[p] = outputs[p]
  BY <1>1 DEF Undo, LiveOutputs, RowInv, TypeOK, NoOutput
<1>7. UNCHANGED <<inputCount, outputCount, view, decided, received>>
  BY DEF Undo, history
<1>8. \A p \in LiveOutputs' : outputs[p].key # k /\ outputs[p].key \in Key
  BY <1>1, <1>6, LiveRows DEF RowInv, PairedRows
<1> HIDE DEF k
<1>9. LiveKeys' = LiveKeys
  BY <1>1, <1>2, <1>4, <1>5 DEF k, LiveKeys
<1>10. \A j \in LiveKeys :
          /\ j \in Key
          /\ inputs'[j].id = inputs[j].id
          /\ inputs'[j].content = inputs[j].content
          /\ j # k => inputs'[j] = inputs[j]
  BY <1>4, <1>5 DEF LiveKeys
<1>11. inputs[k].revision \in Nat /\ inputs'[k].revision = inputs[k].revision + 1
  BY <1>2, <1>4, <1>5 DEF InputRow
<1>12. IdsAreUnique'
  BY <1>7, <1>9, <1>10 DEF DecisionInv, IdsAreUnique
<1>13. ViewIsPast'
  <2>1. view # NoView => view.revision \in Nat
    BY DEF RowInv, TypeOK, View
  <2> QED
    BY <1>7, <1>9, <1>10, <1>11, <2>1 DEF DecisionInv, ViewIsPast
<1>14. DecisionsArePast'
  <2>1. \A p \in OutputIds : p <= outputCount => decided[p].revision \in Nat
    BY DEF DecisionInv, DecisionsArePast, RowInv, TypeOK, Decision
  <2> SUFFICES ASSUME NEW p \in OutputIds, p <= outputCount, NEW j \in LiveKeys,
                      inputs'[j].id = decided[p].inputId
               PROVE  /\ decided[p].revision <= inputs'[j].revision
                      /\ inputs'[j].status = "pending" =>
                            decided[p].revision < inputs'[j].revision
    BY <1>7, <1>9 DEF DecisionInv, DecisionsArePast
  <2>2. /\ decided[p].revision <= inputs[j].revision
        /\ inputs[j].status = "pending" => decided[p].revision < inputs[j].revision
    BY <1>10 DEF DecisionInv, DecisionsArePast
  <2>3. CASE j = k
    BY <1>11, <2>1, <2>2, <2>3
  <2>4. CASE j # k
    BY <1>10, <2>2, <2>4
  <2> QED
    BY <2>3, <2>4
<1>15. LiveIsDecided'
  BY <1>5, <1>6, <1>7, <1>8 DEF DecisionInv, LiveIsDecided
<1>16. ReceivedIsRead'
  BY <1>6, <1>7 DEF DecisionInv, ReceivedIsRead
<1>17. RevisionDecidedOnce'
  BY <1>7 DEF DecisionInv, RevisionDecidedOnce
<1>18. ReadIsFinal'
  <2> SUFFICES ASSUME NEW r \in received
               PROVE  audit'["output_undone"][r.output] = 0
    BY <1>7 DEF ReadIsFinal
  <2>1. r.output # o
    BY <1>1 DEF DecisionInv, ReceivedIsRead
  <2>2. r.output \in SubjectId
    BY DEF RowInv, TypeOK, SubjectId
  <2>3. <<"output_undone", r.output>> \notin
           {<<"output_undone", o>>} \cup FileDeletions({o})
    BY <2>1 DEF FileDeletions
  <2>4. audit' = Recorded({<<"output_undone", o>>} \cup FileDeletions({o}))
    BY DEF Undo
  <2>5. audit'["output_undone"][r.output] = audit["output_undone"][r.output]
    <3> DEFINE events == {<<"output_undone", o>>} \cup FileDeletions({o})
    <3>1. "output_undone" \in AuditType
      BY DEF AuditType
    <3>2. /\ audit' = Recorded(events)
          /\ <<"output_undone", r.output>> \notin events
      BY <2>3, <2>4
    <3> HIDE DEF events
    <3> QED
      BY RecordedEntry, <2>2, <3>1, <3>2
  <2> QED
    BY <2>5 DEF DecisionInv, ReadIsFinal
<1> QED
  BY <1>12, <1>13, <1>14, <1>15, <1>16, <1>17, <1>18 DEF DecisionInv

LEMMA ReadKeepsDecisions ==
    ASSUME RowInv, OutputLedgerBalanced, DecisionInv, NEW c \in Caller, NEW page \in SUBSET OutputIds,
           Read(c, page)
    PROVE  DecisionInv'
<1>1. \A o \in page : o \in LiveOutputs /\ outputs[o] \in OutputRow
                       /\ outputs[o].key[1] = c
  BY LiveRows DEF Read, LiveOutputs, RowInv
<1>2. \A o \in OutputIds : outputs'[o] =
          IF o \in page THEN [outputs[o] EXCEPT !.read = TRUE] ELSE outputs[o]
  BY DEF Read
<1>3. /\ \A o \in page : outputs'[o].read
      /\ \A o \in LiveOutputs : outputs[o].read => outputs'[o].read
      /\ \A o \in LiveOutputs : /\ outputs'[o].key = outputs[o].key
                                /\ outputs'[o].inputId = outputs[o].inputId
                                /\ outputs'[o].response = outputs[o].response
      /\ \A o \in OutputIds : outputs'[o].status = outputs[o].status
  <2>1. \A o \in page : /\ [outputs[o] EXCEPT !.read = TRUE].read = TRUE
                        /\ [outputs[o] EXCEPT !.read = TRUE].key = outputs[o].key
                        /\ [outputs[o] EXCEPT !.read = TRUE].inputId
                               = outputs[o].inputId
                        /\ [outputs[o] EXCEPT !.read = TRUE].response
                               = outputs[o].response
                        /\ [outputs[o] EXCEPT !.read = TRUE].status
                               = outputs[o].status
    BY <1>1 DEF OutputRow
  <2> QED
    BY <1>2, <2>1 DEF LiveOutputs
<1>4. LiveOutputs' = LiveOutputs /\ LiveKeys' = LiveKeys
      /\ UNCHANGED <<inputs, inputCount, outputCount, view, decided, audit>>
  BY <1>3 DEF Read, LiveOutputs, LiveKeys
<1>5. IdsAreUnique' /\ ViewIsPast' /\ DecisionsArePast' /\ RevisionDecidedOnce'
  BY <1>4 DEF DecisionInv, IdsAreUnique, ViewIsPast, DecisionsArePast,
     RevisionDecidedOnce
<1>6. LiveIsDecided'
  BY <1>3, <1>4 DEF DecisionInv, LiveIsDecided
<1>7. ReceivedIsRead'
  <2>1. \A r \in received : r.output \in OutputIds
    BY DEF RowInv, TypeOK
  <2>2. ASSUME NEW r \in received
        PROVE  /\ r.output <= outputCount
               /\ r.output \in LiveOutputs => outputs'[r.output].read
               /\ decided[r.output].key[1] = r.caller
               /\ decided[r.output].content = r.content
               /\ decided[r.output].response = r.response
    BY <1>3, <2>1 DEF DecisionInv, ReceivedIsRead
  <2>3. ASSUME NEW o \in page
        PROVE  /\ o <= outputCount
               /\ outputs'[o].read
               /\ decided[o].key[1] = c
               /\ decided[o].content = inputs[outputs[o].key].content
               /\ decided[o].response = outputs[o].response
    <3>1. o <= outputCount
      BY <1>1 DEF RowInv, FreshOutputs, LiveOutputs, NoOutput, TypeOK, OutputIds
    <3> QED
      BY <1>1, <1>3, <3>1 DEF DecisionInv, LiveIsDecided
  <2>4. received' = received \cup {ResultOf(c, o) : o \in page}
    BY DEF Read
  <2> QED
    BY <1>4, <2>2, <2>3, <2>4 DEF ReceivedIsRead, ResultOf
<1>8. ReadIsFinal'
  <2>1. ASSUME NEW o \in page PROVE audit["output_undone"][o] = 0
    BY <1>1, <2>1, LiveIsNotUndone
  <2> QED
    BY <1>4, <2>1 DEF DecisionInv, ReadIsFinal, ResultOf, Read
<1> QED
  BY <1>5, <1>6, <1>7, <1>8 DEF DecisionInv

\* Deleting a pending input, acknowledging an output and every cleanup remove rows.
LEMMA RemovalStepsKeepDecisions ==
    ASSUME RowInv, DecisionInv, RowInv',
           \/ \E k \in Key : DeleteInput(k)
           \/ \E c \in Caller, o \in OutputIds : AckLive(c, o)
           \/ Cleanup
    PROVE  DecisionInv'
<1>1. ASSUME NEW k \in Key, DeleteInput(k)
      PROVE  DecisionInv'
  <2>1. RemoveRows({}, {k}) /\ {k} \in SUBSET PendingKeys
    BY <1>1 DEF DeleteInput, RemoveRows, RowInv, TypeOK, PendingKeys
  <2>2. \A n \in SubjectId : audit'["output_undone"][n] = audit["output_undone"][n]
    BY <1>1, NoUndoRecorded DEF DeleteInput
  <2> QED
    BY <1>1, <2>1, <2>2, RemovalKeepsDecisions DEF DeleteInput, history
<1>2. ASSUME NEW c \in Caller, NEW o \in OutputIds, AckLive(c, o)
      PROVE  DecisionInv'
  <2>1. RemoveRows({o}, {}) /\ {o} \in SUBSET LiveOutputs
    BY <1>2 DEF AckLive, LiveOutputs
  <2>2. \A n : <<"output_undone", n>> \notin
                  {<<"output_acknowledged", o>>} \cup FileDeletions({o})
    BY DEF FileDeletions
  <2>3. \A n \in SubjectId : audit'["output_undone"][n] = audit["output_undone"][n]
    BY <1>2, <2>2, NoUndoRecorded DEF AckLive
  <2> QED
    BY <1>2, <2>1, <2>3, RemovalKeepsDecisions DEF AckLive
<1>3. ASSUME Cleanup
      PROVE  DecisionInv'
  <2>1. PICK outs \in SUBSET LiveOutputs, pending \in SUBSET PendingKeys :
           Purge(outs, pending)
    BY <1>3, CleanupPurges
  <2>2. \A n : <<"output_undone", n>> \notin CleanupEvents(outs, pending)
    BY DEF CleanupEvents, FileDeletions
  <2>3. \A n \in SubjectId : audit'["output_undone"][n] = audit["output_undone"][n]
    BY <2>1, <2>2, NoUndoRecorded DEF Purge
  <2> QED
    BY <2>1, <2>3, RemovalKeepsDecisions DEF Purge, history
<1> QED
  BY <1>1, <1>2, <1>3

\* The steps that touch neither the rows nor what they are compared with.
LEMMA OtherStepsKeepDecisions ==
    ASSUME DecisionInv,
           UNCHANGED <<inputs, outputs, inputCount, outputCount, audit, view,
                       decided, received>>
    PROVE  DecisionInv'
BY DEF DecisionInv, IdsAreUnique, ViewIsPast, DecisionsArePast, LiveIsDecided,
   ReceivedIsRead, RevisionDecidedOnce, ReadIsFinal, LiveKeys, LiveOutputs

LEMMA StepKeepsDecisions ==
    RowInv /\ RowInv' /\ OutputLedgerBalanced /\ DecisionInv /\ [Next]_vars
        => DecisionInv'
<1> SUFFICES ASSUME RowInv, RowInv', OutputLedgerBalanced, DecisionInv, [Next]_vars
             PROVE  DecisionInv'
  OBVIOUS
<1>1. CASE Next
  <2>1. ASSUME NEW c \in Caller, NEW o \in OutputIds, AckGone(c, o)
        PROVE  DecisionInv'
    BY <2>1, OtherStepsKeepDecisions DEF AckGone, rows
  <2>2. ASSUME BillingActive \/ BillingGraceStarts \/ Tick
        PROVE  DecisionInv'
    BY <2>2, OtherStepsKeepDecisions
       DEF BillingActive, BillingGraceStarts, Tick, rows, history
  <2> QED
    BY <1>1, <2>1, <2>2, SendKeepsDecisions, ReplaceKeepsDecisions,
       OpenItemKeepsDecisions, AnswerKeepsDecisions, UndoKeepsDecisions,
       ReadKeepsDecisions, RemovalStepsKeepDecisions DEF Next
<1>2. CASE UNCHANGED vars
  BY <1>2, OtherStepsKeepDecisions DEF vars, rows, history
<1> QED
  BY <1>1, <1>2

THEOREM DecisionsInvariant == Spec => []DecisionInv
BY InitDecisionInv, StepKeepsDecisions, RowsInvariant, LedgerIsBalanced, PTL DEF Spec

\* What a caller reads is what the human decided on, and only the owner reads it.
THEOREM DecisionsAreFaithful == Spec => []DecisionFidelity
<1>1. RowInv /\ DecisionInv => DecisionFidelity
  <2> SUFFICES ASSUME RowInv, DecisionInv, NEW r \in received
               PROVE  /\ decided[r.output] # Undecided
                      /\ decided[r.output].key[1] = r.caller
                      /\ decided[r.output].content = r.content
                      /\ decided[r.output].response = r.response
    BY DEF DecisionFidelity, DecisionInv
  <2>1. r.output \in OutputIds
    BY DEF RowInv, TypeOK
  <2> QED
    BY <2>1 DEF DecisionInv, ReceivedIsRead, DecisionsArePast
<1> QED
  BY <1>1, RowsInvariant, DecisionsInvariant, PTL

\* A result some caller holds is never undone.
THEOREM ReadsAreFinal == Spec => []ReadIsFinal
<1>1. DecisionInv => ReadIsFinal
  BY DEF DecisionInv
<1> QED
  BY <1>1, DecisionsInvariant, PTL

\* No revision of an input row is decided twice.
THEOREM RevisionsAreDecidedOnce == Spec => []RevisionDecidedOnce
<1>1. DecisionInv => RevisionDecidedOnce
  BY DEF DecisionInv
<1> QED
  BY <1>1, DecisionsInvariant, PTL

---------------------------------------------------------------------------
(* Replies to acknowledgements                                             *)

\* A live row of the caller: the acknowledgement would find it.
LiveFor(c, o) == o \in LiveOutputs /\ outputs[o].key[1] = c

\* What a caller was told stays the answer: a success has its event in the ledger,
\* and a caller that was told 404 neither has the row nor acknowledged it.
RepliesStand ==
    \A a \in ackReplies :
        /\ a.output <= outputCount
        /\ a.reply # "not_found" => Acknowledged(a.caller, a.output)
        /\ a.reply = "not_found" => /\ ~Acknowledged(a.caller, a.output)
                                    /\ ~LiveFor(a.caller, a.output)

\* Between two replies the outputs drawn so far are acknowledged by nobody, and no
\* live row appears or changes its owner.
LEMMA QuietStepKeepsReplies ==
    ASSUME RowInv, RowInv', RepliesStand, ackReplies' = ackReplies,
           outputCount <= outputCount',
           \A o \in OutputIds : o <= outputCount =>
               /\ decided'[o] = decided[o]
               /\ audit'["output_acknowledged"][o] = audit["output_acknowledged"][o]
               /\ o \in LiveOutputs' => /\ o \in LiveOutputs
                                        /\ outputs'[o].key = outputs[o].key
    PROVE  RepliesStand'
<1> SUFFICES ASSUME NEW a \in ackReplies
             PROVE  /\ a.output <= outputCount'
                    /\ a.reply # "not_found" => Acknowledged(a.caller, a.output)'
                    /\ a.reply = "not_found" => /\ ~Acknowledged(a.caller, a.output)'
                                                /\ ~LiveFor(a.caller, a.output)'
  BY DEF RepliesStand
<1>1. /\ a.output \in OutputIds /\ a.output <= outputCount
      /\ a.output \in Nat /\ outputCount \in Nat /\ outputCount' \in Nat
  BY DEF RowInv, TypeOK, RepliesStand, OutputIds
<1>2. a.output <= outputCount'
  BY <1>1
<1>3. Acknowledged(a.caller, a.output)' <=> Acknowledged(a.caller, a.output)
  BY <1>1 DEF Acknowledged
<1>4. LiveFor(a.caller, a.output)' => LiveFor(a.caller, a.output)
  BY <1>1 DEF LiveFor
<1> QED
  BY <1>2, <1>3, <1>4 DEF RepliesStand

\* A step whose events name no acknowledgement leaves that column alone.
LEMMA NoAckRecorded ==
    ASSUME NEW events, audit' = Recorded(events),
           \A n : <<"output_acknowledged", n>> \notin events
    PROVE  \A n \in SubjectId :
              audit'["output_acknowledged"][n] = audit["output_acknowledged"][n]
<1>1. "output_acknowledged" \in AuditType
  BY DEF AuditType
<1> QED
  BY <1>1, RecordedEntry

LEMMA AckLiveKeepsReplies ==
    ASSUME RowInv, DecisionInv, RepliesStand, NEW c \in Caller, NEW o \in OutputIds,
           AckLive(c, o)
    PROVE  RepliesStand'
<1> DEFINE events == {<<"output_acknowledged", o>>} \cup FileDeletions({o})
<1>1. /\ o \in LiveOutputs /\ outputs[o].key[1] = c /\ RemoveRows({o}, {})
      /\ audit' = Recorded(events)
      /\ ackReplies' = ackReplies
             \cup {[caller |-> c, output |-> o, reply |-> "acknowledged"]}
      /\ outputCount' = outputCount /\ decided' = decided
  BY DEF AckLive, LiveOutputs, Reply
<1>2. o <= outputCount /\ outputCount \in Nat
  BY <1>1 DEF RowInv, TypeOK, FreshOutputs, LiveOutputs, NoOutput, OutputIds
<1>3. decided[o].key[1] = c
  BY <1>1 DEF DecisionInv, LiveIsDecided
<1>4. audit'["output_acknowledged"][o] = audit["output_acknowledged"][o] + 1
  <2>1. <<"output_acknowledged", o>> \in events
    OBVIOUS
  <2>2. o \in SubjectId /\ "output_acknowledged" \in AuditType
    BY DEF SubjectId, AuditType
  <2> HIDE DEF events
  <2> QED
    BY <1>1, <2>1, <2>2, RecordedEntry
<1>5. Acknowledged(c, o)'
  BY <1>1, <1>3, <1>4, EntryTypes DEF Acknowledged, RowInv
<1>6. ASSUME NEW n \in OutputIds, n # o
      PROVE  audit'["output_acknowledged"][n] = audit["output_acknowledged"][n]
  <2>1. <<"output_acknowledged", n>> \notin events /\ n \in SubjectId
    BY <1>6 DEF FileDeletions, SubjectId
  <2>2. "output_acknowledged" \in AuditType
    BY DEF AuditType
  <2> HIDE DEF events
  <2> QED
    BY <1>1, <2>1, <2>2, RecordedEntry
<1>7. \A p \in OutputIds : p \in LiveOutputs' =>
         p \in LiveOutputs /\ p # o /\ outputs'[p] = outputs[p]
  BY <1>1 DEF RemoveRows, LiveOutputs, NoOutput
<1>8. ASSUME NEW a \in ackReplies
      PROVE  /\ a.output <= outputCount
             /\ a.reply # "not_found" => Acknowledged(a.caller, a.output)'
             /\ a.reply = "not_found" => /\ ~Acknowledged(a.caller, a.output)'
                                         /\ ~LiveFor(a.caller, a.output)'
  <2>1. a.output \in OutputIds
    BY DEF RowInv, TypeOK
  <2>2. CASE a.output # o
    BY <1>1, <1>6, <1>7, <2>1, <2>2 DEF RepliesStand, Acknowledged, LiveFor
  <2>3. CASE a.output = o
    <3>1. a.reply = "not_found" => a.caller # c
      BY <1>1, <2>3 DEF RepliesStand, LiveFor
    <3>2. a.reply # "not_found" => a.caller = c
      BY <1>3, <2>3 DEF RepliesStand, Acknowledged
    <3>3. ~LiveFor(a.caller, a.output)'
      BY <1>7, <2>3 DEF LiveFor
    <3> QED
      BY <1>1, <1>3, <1>5, <2>3, <3>1, <3>2, <3>3 DEF RepliesStand, Acknowledged
  <2> QED
    BY <2>2, <2>3
<1> QED
  BY <1>1, <1>2, <1>5, <1>8 DEF RepliesStand

LEMMA AckGoneKeepsReplies ==
    ASSUME RowInv, RepliesStand, NEW c \in Caller, NEW o \in OutputIds, AckGone(c, o)
    PROVE  RepliesStand'
<1>1. UNCHANGED <<outputs, outputCount, audit, decided>> /\ o <= outputCount
  BY DEF AckGone, rows
<1>2. \A n : Acknowledged(c, n)' = Acknowledged(c, n) /\ LiveFor(c, n)' = LiveFor(c, n)
  BY <1>1 DEF Acknowledged, LiveFor, LiveOutputs
<1>3. \A a \in ackReplies :
         /\ Acknowledged(a.caller, a.output)' = Acknowledged(a.caller, a.output)
         /\ LiveFor(a.caller, a.output)' = LiveFor(a.caller, a.output)
  BY <1>1 DEF Acknowledged, LiveFor, LiveOutputs
<1>4. CASE Acknowledged(c, o)
  BY <1>1, <1>2, <1>3, <1>4 DEF AckGone, Reply, RepliesStand
<1>5. CASE ~Acknowledged(c, o)
  <2>1. ~LiveFor(c, o)
    BY DEF AckGone, LiveFor, LiveOutputs
  <2> QED
    BY <1>1, <1>2, <1>3, <1>5, <2>1 DEF AckGone, Reply, RepliesStand
<1> QED
  BY <1>4, <1>5

LEMMA RemovalStepKeepsReplies ==
    ASSUME RowInv, RowInv', RepliesStand, NEW outs, NEW pending, NEW events,
           RemoveRows(outs, pending), audit' = Recorded(events),
           \A n : <<"output_acknowledged", n>> \notin events,
           UNCHANGED <<outputCount, decided, ackReplies>>
    PROVE  RepliesStand'
<1>1. \A o \in OutputIds :
         audit'["output_acknowledged"][o] = audit["output_acknowledged"][o]
  BY NoAckRecorded DEF SubjectId
<1>2. \A o \in OutputIds : o \in LiveOutputs' =>
         o \in LiveOutputs /\ outputs'[o] = outputs[o]
  BY DEF RemoveRows, LiveOutputs, NoOutput
<1>3. outputCount <= outputCount'
  BY DEF RowInv, TypeOK
<1> QED
  BY <1>1, <1>2, <1>3, QuietStepKeepsReplies

\* Answers draw a new output; the other steps leave the outputs' owners alone.
LEMMA AnswerKeepsReplies ==
    ASSUME RowInv, RowInv', RepliesStand, NEW r \in Response, Answer(r)
    PROVE  RepliesStand'
<1>1. outputCount' = outputCount + 1 /\ outputCount \in Nat
      /\ ackReplies' = ackReplies
  BY DEF Answer, RowInv, TypeOK
<1>2. ASSUME NEW o \in OutputIds, o <= outputCount
      PROVE  o # outputCount + 1
  BY <1>1, <1>2 DEF OutputIds
<1>3. \A o \in OutputIds : o <= outputCount =>
         decided'[o] = decided[o] /\ outputs'[o] = outputs[o]
  BY <1>2 DEF Answer, RowInv, TypeOK
<1>4. \A o \in OutputIds :
         audit'["output_acknowledged"][o] = audit["output_acknowledged"][o]
  BY NoAckRecorded DEF Answer, SubjectId
<1> QED
  BY <1>1, <1>3, <1>4, QuietStepKeepsReplies DEF LiveOutputs

LEMMA UndoKeepsReplies ==
    ASSUME RowInv, RowInv', RepliesStand, NEW o \in OutputIds, Undo(o)
    PROVE  RepliesStand'
<1> DEFINE events == {<<"output_undone", o>>} \cup FileDeletions({o})
<1>1. /\ audit' = Recorded(events)
      /\ UNCHANGED <<outputCount, decided, ackReplies>>
      /\ \A p \in OutputIds : outputs'[p] = IF p = o THEN NoOutput ELSE outputs[p]
  BY DEF Undo, history, RowInv, TypeOK
<1>2. \A n : <<"output_acknowledged", n>> \notin events
  BY DEF FileDeletions
<1> HIDE DEF events
<1>3. \A p \in OutputIds :
         audit'["output_acknowledged"][p] = audit["output_acknowledged"][p]
  BY <1>1, <1>2, NoAckRecorded DEF SubjectId
<1>4. \A p \in OutputIds : p \in LiveOutputs' =>
         p \in LiveOutputs /\ outputs'[p] = outputs[p]
  BY <1>1 DEF LiveOutputs, NoOutput
<1>5. outputCount <= outputCount'
  BY <1>1 DEF RowInv, TypeOK
<1> QED
  BY <1>1, <1>3, <1>4, <1>5, QuietStepKeepsReplies

LEMMA ReadKeepsReplies ==
    ASSUME RowInv, RowInv', RepliesStand, NEW c \in Caller,
           NEW page \in SUBSET OutputIds, Read(c, page)
    PROVE  RepliesStand'
<1>1. \A o \in page : outputs[o] \in OutputRow
  BY LiveRows DEF Read, LiveOutputs, RowInv
<1>2. \A o \in OutputIds : /\ outputs'[o].status = outputs[o].status
                           /\ o \in LiveOutputs => outputs'[o].key = outputs[o].key
  BY <1>1 DEF Read, OutputRow, LiveOutputs
<1>3. UNCHANGED <<outputCount, audit, decided, ackReplies>>
  BY DEF Read
<1>4. outputCount <= outputCount'
  BY <1>3 DEF RowInv, TypeOK
<1> QED
  BY <1>2, <1>3, <1>4, QuietStepKeepsReplies DEF LiveOutputs

LEMMA SameOutputsKeepReplies ==
    ASSUME RowInv, RowInv', RepliesStand,
           UNCHANGED <<outputs, outputCount, decided, ackReplies>>,
           \A o \in OutputIds :
               audit'["output_acknowledged"][o] = audit["output_acknowledged"][o]
    PROVE  RepliesStand'
<1>1. outputCount <= outputCount'
  BY DEF RowInv, TypeOK
<1> QED
  BY <1>1, QuietStepKeepsReplies DEF LiveOutputs

LEMMA StepKeepsReplies ==
    RowInv /\ RowInv' /\ DecisionInv /\ RepliesStand /\ [Next]_vars => RepliesStand'
<1> SUFFICES ASSUME RowInv, RowInv', DecisionInv, RepliesStand, [Next]_vars
             PROVE  RepliesStand'
  OBVIOUS
<1>1. ASSUME NEW k \in Key, NEW c \in Content, Send(k, c)
      PROVE  RepliesStand'
  <2>1. \A o \in OutputIds :
           audit'["output_acknowledged"][o] = audit["output_acknowledged"][o]
    BY <1>1, NoAckRecorded DEF Send, SubjectId
  <2> QED
    BY <1>1, <2>1, SameOutputsKeepReplies DEF Send, history
<1>2. ASSUME NEW k \in Key, DeleteInput(k)
      PROVE  RepliesStand'
  <2>1. \A o \in OutputIds :
           audit'["output_acknowledged"][o] = audit["output_acknowledged"][o]
    BY <1>2, NoAckRecorded DEF DeleteInput, SubjectId
  <2> QED
    BY <1>2, <2>1, SameOutputsKeepReplies DEF DeleteInput, history
<1>3. ASSUME NEW k \in Key, OpenItem(k) \/ \E c \in Content : Replace(k, c)
      PROVE  RepliesStand'
  BY <1>3, SameOutputsKeepReplies DEF OpenItem, Replace, rows, history
<1>4. ASSUME BillingActive \/ BillingGraceStarts \/ Tick \/ UNCHANGED vars
      PROVE  RepliesStand'
  BY <1>4, SameOutputsKeepReplies
     DEF BillingActive, BillingGraceStarts, Tick, vars, rows, history
<1>5. ASSUME Cleanup
      PROVE  RepliesStand'
  <2>1. PICK outs \in SUBSET LiveOutputs, pending \in SUBSET PendingKeys :
           Purge(outs, pending)
    BY <1>5, CleanupPurges
  <2>2. \A n : <<"output_acknowledged", n>> \notin CleanupEvents(outs, pending)
    BY DEF CleanupEvents, FileDeletions
  <2> QED
    BY <2>1, <2>2, RemovalStepKeepsReplies DEF Purge, history
<1> QED
  BY <1>1, <1>2, <1>3, <1>4, <1>5, AnswerKeepsReplies, UndoKeepsReplies,
     ReadKeepsReplies, AckLiveKeepsReplies, AckGoneKeepsReplies DEF Next

LEMMA InitRepliesStand == Init => RepliesStand
BY DEF Init, RepliesStand

THEOREM RepliesInvariant == Spec => []RepliesStand
BY InitRepliesStand, StepKeepsReplies, RowsInvariant, DecisionsInvariant, PTL DEF Spec

\* A caller that was told its acknowledgement succeeded is never told 404 for the
\* same result, and only the owner is told that it succeeded.
THEOREM AcksAreIdempotent == Spec => []AckIsIdempotent
<1>1. RowInv /\ DecisionInv /\ RepliesStand => AckIsIdempotent
  <2> SUFFICES ASSUME RowInv, DecisionInv, RepliesStand,
                      NEW a \in ackReplies, a.reply # "not_found"
               PROVE  /\ decided[a.output] # Undecided
                      /\ decided[a.output].key[1] = a.caller
                      /\ [a EXCEPT !.reply = "not_found"] \notin ackReplies
    BY DEF AckIsIdempotent
  <2> DEFINE b == [a EXCEPT !.reply = "not_found"]
  <2>1. a \in [caller : Caller, output : OutputIds, reply : AckReply]
    BY DEF RowInv, TypeOK
  <2>2. b.caller = a.caller /\ b.output = a.output /\ b.reply = "not_found"
    BY <2>1
  <2>3. Acknowledged(a.caller, a.output) /\ a.output <= outputCount
    BY DEF RepliesStand
  <2>4. decided[a.output] # Undecided
    BY <2>1, <2>3 DEF DecisionInv, DecisionsArePast
  <2> HIDE DEF b
  <2>5. b \notin ackReplies
    BY <2>2, <2>3 DEF RepliesStand
  <2> QED
    BY <2>3, <2>4, <2>5 DEF Acknowledged, b
<1> QED
  BY <1>1, RowsInvariant, DecisionsInvariant, RepliesInvariant, PTL

---------------------------------------------------------------------------
(* The input ledger.  A submitted row is live, or was deleted once, or     *)
(* left with exactly one acknowledged or deleted output: the live row an   *)
(* id belongs to is unique, and a step that takes the row away records     *)
(* exactly one of the two ends.                                            *)

\* Some live row has this id.
Held(i) == \E k \in LiveKeys : inputs[k].id = i

\* The output was acknowledged by its caller or deleted by a cleanup.
Ended(o) == audit["output_acknowledged"][o] + audit["output_deleted"][o] > 0

\* InputLedgerBalanced without cardinalities.
Fate(i) ==
    /\ audit["input_submitted"][i] = (IF i <= inputCount THEN 1 ELSE 0)
    /\ \A o, p \in ClosedBy(i) : o = p
    /\ audit["input_deleted"][i] + (IF ClosedBy(i) # {} THEN 1 ELSE 0)
           + (IF Held(i) THEN 1 ELSE 0)
           = audit["input_submitted"][i]

EveryFate == \A i \in InputIds : Fate(i)

LEMMA AtMostOne ==
    ASSUME NEW S, \A x, y \in S : x = y
    PROVE  Cardinality(S) = IF S # {} THEN 1 ELSE 0
<1>1. CASE S = {}
  BY <1>1, FS_EmptySet
<1>2. CASE S # {}
  <2>1. PICK x \in S : TRUE
    BY <1>2
  <2>2. S = {x}
    BY <2>1
  <2> QED
    BY <1>2, <2>2, FS_Singleton
<1> QED
  BY <1>1, <1>2

LEMMA InputEntryTypes ==
    ASSUME TypeOK, NEW i \in InputIds
    PROVE  /\ audit["input_submitted"][i] \in Nat
           /\ audit["input_deleted"][i] \in Nat
BY DEF TypeOK, AuditType, SubjectId

LEMMA ClosedIsEnded ==
    \A i : ClosedBy(i) = {o \in OutputIds : /\ decided[o] # Undecided
                                            /\ decided[o].inputId = i
                                            /\ Ended(o)}
BY DEF ClosedBy, Ended

LEMMA ClosedIsEndedNext ==
    \A i : ClosedBy(i)' = {o \in OutputIds : /\ decided'[o] # Undecided
                                             /\ decided'[o].inputId = i
                                             /\ Ended(o)'}
BY DEF ClosedBy, Ended

\* A live output belongs to the live row it was decided on.
LEMMA OwnerOfOutput ==
    ASSUME RowInv, DecisionInv, NEW o \in LiveOutputs
    PROVE  /\ o \in OutputIds
           /\ decided[o] # Undecided
           /\ outputs[o].key \in LiveKeys
           /\ inputs[outputs[o].key].status = "answered"
           /\ inputs[outputs[o].key].id = decided[o].inputId
<1>1. o \in OutputIds /\ outputs[o] # NoOutput
  BY DEF LiveOutputs, NoOutput
<1>2. o <= outputCount
  BY <1>1 DEF RowInv, FreshOutputs, TypeOK, OutputIds
<1>3. decided[o] # Undecided
  BY <1>1, <1>2 DEF DecisionInv, DecisionsArePast
<1>4. outputs[o].key \in LiveKeys /\ inputs[outputs[o].key].status = "answered"
  BY LiveRows DEF RowInv, PairedRows, LiveKeys
<1>5. inputs[outputs[o].key].id = decided[o].inputId
  BY DEF RowInv, PairedRows, DecisionInv, LiveIsDecided
<1> QED
  BY <1>1, <1>3, <1>4, <1>5

---------------------------------------------------------------------------
\* Columns of the ledger that a step's events do not name.
LEMMA InputColumns ==
    ASSUME NEW events, audit' = Recorded(events), NEW i \in InputIds
    PROVE  /\ audit'["input_submitted"][i] =
                 IF <<"input_submitted", i>> \in events
                 THEN audit["input_submitted"][i] + 1 ELSE audit["input_submitted"][i]
           /\ audit'["input_deleted"][i] =
                 IF <<"input_deleted", i>> \in events
                 THEN audit["input_deleted"][i] + 1 ELSE audit["input_deleted"][i]
<1>1. "input_submitted" \in AuditType /\ "input_deleted" \in AuditType
      /\ i \in SubjectId
  BY DEF AuditType, SubjectId
<1> QED
  BY <1>1, RecordedEntry

LEMMA EndedAfter ==
    ASSUME TypeOK, NEW events, audit' = Recorded(events), NEW o \in OutputIds
    PROVE  Ended(o)' <=> \/ Ended(o)
                         \/ <<"output_acknowledged", o>> \in events
                         \/ <<"output_deleted", o>> \in events
<1>1. "output_acknowledged" \in AuditType /\ "output_deleted" \in AuditType
      /\ o \in SubjectId
  BY DEF AuditType, SubjectId
<1>2. /\ audit'["output_acknowledged"][o] =
            IF <<"output_acknowledged", o>> \in events
            THEN audit["output_acknowledged"][o] + 1
            ELSE audit["output_acknowledged"][o]
      /\ audit'["output_deleted"][o] =
            IF <<"output_deleted", o>> \in events
            THEN audit["output_deleted"][o] + 1 ELSE audit["output_deleted"][o]
  BY <1>1, RecordedEntry
<1> QED
  BY <1>2, EntryTypes DEF Ended

\* A step that takes no row away and brings none.
LEMMA QuietStepKeepsFates ==
    ASSUME EveryFate, inputCount' = inputCount,
           \A i \in InputIds :
               /\ audit'["input_submitted"][i] = audit["input_submitted"][i]
               /\ audit'["input_deleted"][i] = audit["input_deleted"][i]
               /\ ClosedBy(i)' = ClosedBy(i)
               /\ Held(i)' <=> Held(i)
    PROVE  EveryFate'
BY DEF EveryFate, Fate

\* Events of a removal: one end for each output, one deletion for each pending row.
RemovesBy(outs, pending, events) ==
    /\ \A o \in OutputIds :
           (<<"output_acknowledged", o>> \in events
              \/ <<"output_deleted", o>> \in events) <=> o \in outs
    /\ \A i \in InputIds :
           /\ <<"input_deleted", i>> \in events <=> \E k \in pending : inputs[k].id = i
           /\ <<"input_submitted", i>> \notin events

\* Removing outputs with their rows, and pending rows, gives each row one end.
LEMMA RemovalKeepsFates ==
    ASSUME RowInv, DecisionInv, EveryFate, NEW outs \in SUBSET LiveOutputs,
           NEW pending \in SUBSET PendingKeys, RemoveRows(outs, pending),
           NEW events, audit' = Recorded(events), RemovesBy(outs, pending, events),
           UNCHANGED <<inputCount, decided>>
    PROVE  EveryFate'
<1> SUFFICES ASSUME NEW i \in InputIds PROVE Fate(i)'
  BY DEF EveryFate
<1> DEFINE ended == {o \in outs : decided[o].inputId = i}
           deleted == \E k \in pending : inputs[k].id = i
<1>1. /\ audit'["input_submitted"][i] = audit["input_submitted"][i]
      /\ audit'["input_deleted"][i] =
            IF deleted THEN audit["input_deleted"][i] + 1 ELSE audit["input_deleted"][i]
  BY InputColumns DEF RemovesBy
<1>2. \A o \in OutputIds : Ended(o)' <=> Ended(o) \/ o \in outs
  BY EndedAfter DEF RemovesBy, RowInv
<1>3. \A o \in outs : /\ o \in OutputIds
                      /\ decided[o] # Undecided
                      /\ outputs[o].key \in LiveKeys
                      /\ inputs[outputs[o].key].status = "answered"
                      /\ inputs[outputs[o].key].id = decided[o].inputId
  BY OwnerOfOutput
<1>4. ClosedBy(i)' = ClosedBy(i) \cup ended
  BY <1>2, <1>3, ClosedIsEnded, ClosedIsEndedNext
<1>5. \A j, k \in LiveKeys : inputs[j].id = inputs[k].id => j = k
  BY DEF DecisionInv, IdsAreUnique
<1>6. \A k \in pending : k \in LiveKeys /\ inputs[k].status = "pending"
  BY DEF PendingKeys, LiveKeys
<1>7. \A o, p \in ended : o = p
  <2>1. \A o, p \in ended : outputs[o].key = outputs[p].key
    BY <1>3, <1>5
  <2> QED
    BY <2>1 DEF RowInv, PairedRows
<1>8. ended # {} => Held(i) /\ ~deleted
  BY <1>3, <1>5, <1>6 DEF Held
<1>9. deleted => Held(i)
  BY <1>6 DEF Held
<1>10. \A k \in Key : inputs'[k] = IF k \in pending \/ \E o \in outs : outputs[o].key = k
                                   THEN NoInput ELSE inputs[k]
  BY DEF RemoveRows
<1>11. Held(i)' <=> Held(i) /\ ~deleted /\ ended = {}
  <2>1. ASSUME NEW k \in LiveKeys', inputs'[k].id = i
        PROVE  Held(i) /\ ~deleted /\ ended = {}
    <3>1. /\ k \in LiveKeys /\ inputs[k].id = i /\ k \notin pending
          /\ \A o \in outs : outputs[o].key # k
      BY <1>10, <2>1 DEF LiveKeys, NoInput
    <3>2. ~deleted
      BY <1>5, <1>6, <3>1
    <3>3. ended = {}
      BY <1>3, <1>5, <3>1
    <3> QED
      BY <3>1, <3>2, <3>3 DEF Held
  <2>2. ASSUME NEW k \in LiveKeys, inputs[k].id = i, ~deleted, ended = {}
        PROVE  Held(i)'
    <3>1. k \notin pending /\ \A o \in outs : outputs[o].key # k
      BY <1>3, <2>2
    <3>2. k \in LiveKeys' /\ inputs'[k].id = i
      BY <1>10, <2>2, <3>1 DEF LiveKeys
    <3> QED
      BY <3>2 DEF Held
  <2> QED
    BY <2>1, <2>2 DEF Held
<1>12. Fate(i) /\ audit["input_submitted"][i] \in Nat /\ audit["input_deleted"][i] \in Nat
  BY InputEntryTypes DEF EveryFate, RowInv
<1> HIDE DEF ended, deleted
<1>13. Held(i) => ClosedBy(i) = {} /\ audit["input_deleted"][i] = 0
  <2>1. audit["input_submitted"][i] \in {0, 1}
    BY <1>12 DEF Fate
  <2> QED
    BY <1>12, <2>1 DEF Fate
<1>14. \A o, p \in ClosedBy(i)' : o = p
  BY <1>4, <1>7, <1>8, <1>12, <1>13 DEF Fate
<1>15. audit'["input_submitted"][i] = (IF i <= inputCount' THEN 1 ELSE 0)
  BY <1>1, <1>12 DEF Fate
<1>16. (IF ClosedBy(i)' # {} THEN 1 ELSE 0) =
          IF ended # {} THEN 1 ELSE IF ClosedBy(i) # {} THEN 1 ELSE 0
  BY <1>4
<1>17. audit'["input_deleted"][i] + (IF ClosedBy(i)' # {} THEN 1 ELSE 0)
          + (IF Held(i)' THEN 1 ELSE 0) = audit'["input_submitted"][i]
  BY <1>1, <1>8, <1>9, <1>11, <1>12, <1>13, <1>16 DEF Fate
<1> QED
  BY <1>14, <1>15, <1>17 DEF Fate

LEMMA SendKeepsFates ==
    ASSUME RowInv, DecisionInv, EveryFate, NEW k \in Key, NEW c \in Content, Send(k, c)
    PROVE  EveryFate'
<1> DEFINE n == inputCount + 1
           row == [status |-> "pending", id |-> n, revision |-> 1,
                   content |-> c, updatedAt |-> now]
           events == {<<"input_submitted", n>>}
<1> SUFFICES ASSUME NEW i \in InputIds PROVE Fate(i)'
  BY DEF EveryFate
<1>1. n \in Nat /\ inputCount' = n /\ inputCount \in Nat /\ i \in Nat
  BY DEF Send, RowInv, TypeOK, InputIds
<1>2. /\ inputs'[k] = row
      /\ \A j \in Key : j # k => inputs'[j] = inputs[j]
  BY DEF Send, RowInv, TypeOK
<1>3. row.id = n /\ row.status = "pending"
  OBVIOUS
<1>4. audit' = Recorded(events) /\ decided' = decided
  BY DEF Send, history
<1>5. /\ <<"input_submitted", i>> \in events <=> i = n
      /\ <<"input_deleted", i>> \notin events
      /\ \A o : <<"output_acknowledged", o>> \notin events
                /\ <<"output_deleted", o>> \notin events
  OBVIOUS
<1> HIDE DEF row, events
<1>6. k \notin LiveKeys /\ LiveKeys' = LiveKeys \cup {k}
  BY <1>2, <1>3 DEF Send, LiveKeys
<1>7. Held(i)' <=> Held(i) \/ i = n
  BY <1>2, <1>3, <1>6 DEF Held, LiveKeys
<1>8. \A o \in OutputIds : Ended(o)' <=> Ended(o)
  BY <1>4, <1>5, EndedAfter DEF RowInv
<1>9. ClosedBy(i)' = ClosedBy(i)
  BY <1>4, <1>8, ClosedIsEnded, ClosedIsEndedNext
<1>10. /\ audit'["input_submitted"][i] = IF i = n THEN audit["input_submitted"][i] + 1
                                                  ELSE audit["input_submitted"][i]
       /\ audit'["input_deleted"][i] = audit["input_deleted"][i]
  BY <1>4, <1>5, InputColumns
<1>11. Fate(i) /\ audit["input_submitted"][i] \in Nat /\ audit["input_deleted"][i] \in Nat
  BY InputEntryTypes DEF EveryFate, RowInv
<1>12. /\ i = n => ~(i <= inputCount)
       /\ i <= n <=> i <= inputCount \/ i = n
  BY <1>1
<1> HIDE DEF n
<1>13. i = n => audit["input_submitted"][i] = 0 /\ ~Held(i)
  <2>1. i = n => audit["input_submitted"][i] = 0
    BY <1>11, <1>12 DEF Fate
  <2> QED
    BY <1>11, <2>1 DEF Fate
<1>14. /\ audit'["input_submitted"][i] = (IF i <= inputCount' THEN 1 ELSE 0)
       /\ audit'["input_deleted"][i] + (IF ClosedBy(i)' # {} THEN 1 ELSE 0)
            + (IF Held(i)' THEN 1 ELSE 0) = audit'["input_submitted"][i]
  BY <1>1, <1>7, <1>9, <1>10, <1>11, <1>12, <1>13 DEF Fate
<1> QED
  BY <1>9, <1>11, <1>14 DEF Fate

LEMMA AnswerKeepsFates ==
    ASSUME RowInv, OutputLedgerBalanced, EveryFate, NEW r \in Response, Answer(r)
    PROVE  EveryFate'
<1> DEFINE n == outputCount + 1
           k == view.key
           events == {<<"input_answered", inputs[k].id>>, <<"output_created", n>>}
                        \cup {<<"file_uploaded", m>> : m \in {l \in {n} : r = "file"}}
<1>1. n \in OutputIds /\ outputCount \in Nat
  BY QueueConstants DEF Answer, RowInv, TypeOK, OutputIds
<1>2. k \in Key /\ inputs[k] \in InputRow /\ inputs[k].status = "pending"
  BY DEF Answer, AnswerTargetsCurrent, RowInv, TypeOK, View, NoInput
<1>3. /\ inputs'[k].id = inputs[k].id /\ inputs'[k].status = "answered"
      /\ \A j \in Key : j # k => inputs'[j] = inputs[j]
  BY <1>2 DEF Answer, RowInv, TypeOK, InputRow
<1>4. audit' = Recorded(events) /\ inputCount' = inputCount
  BY DEF Answer
<1>5. \A m : /\ <<"input_submitted", m>> \notin events
             /\ <<"input_deleted", m>> \notin events
             /\ <<"output_acknowledged", m>> \notin events
             /\ <<"output_deleted", m>> \notin events
  OBVIOUS
<1>6. \A o \in OutputIds : o # n => decided'[o] = decided[o]
  BY DEF Answer, RowInv, TypeOK
<1> HIDE DEF events
<1>7. ~Ended(n)
  <2>1. Entries(n) /\ ~(n <= outputCount)
    BY <1>1, LedgerIsEntries
  <2>2. audit["output_created"][n] = 0
    BY <2>1 DEF Entries
  <2>3. TerminalEvents(n) + (IF n \in LiveOutputs THEN 1 ELSE 0) = 0
    BY <2>1, <2>2 DEF Entries
  <2>4. /\ audit["output_acknowledged"][n] \in Nat
        /\ audit["output_deleted"][n] \in Nat
        /\ audit["output_undone"][n] \in Nat
    BY <1>1, EntryTypes DEF RowInv
  <2> HIDE DEF n
  <2> QED
    BY <2>3, <2>4 DEF Ended, TerminalEvents
<1>8. \A o \in OutputIds : Ended(o)' <=> Ended(o)
  BY <1>4, <1>5, EndedAfter DEF RowInv
<1> HIDE DEF n, k
<1>9. LiveKeys' = LiveKeys /\ \A j \in LiveKeys : inputs'[j].id = inputs[j].id
  BY <1>2, <1>3 DEF LiveKeys
<1>10. \A i \in InputIds : Held(i)' <=> Held(i)
  BY <1>9 DEF Held
<1>11. \A i \in InputIds : ClosedBy(i)' = ClosedBy(i)
  BY <1>1, <1>6, <1>7, <1>8, ClosedIsEnded, ClosedIsEndedNext
<1>12. \A i \in InputIds :
          /\ audit'["input_submitted"][i] = audit["input_submitted"][i]
          /\ audit'["input_deleted"][i] = audit["input_deleted"][i]
  BY <1>4, <1>5, InputColumns
<1> QED
  BY <1>4, <1>10, <1>11, <1>12, QuietStepKeepsFates

LEMMA UndoKeepsFates ==
    ASSUME RowInv, EveryFate, NEW o \in OutputIds, Undo(o)
    PROVE  EveryFate'
<1> DEFINE k == outputs[o].key
           events == {<<"output_undone", o>>} \cup FileDeletions({o})
<1>1. k \in Key /\ inputs[k] \in InputRow /\ inputs[k].status = "answered"
  BY LiveRows DEF Undo, Undoable, RowInv, PairedRows, LiveOutputs, LiveKeys
<1>2. /\ inputs'[k] = Restored(inputs[k], o)
      /\ \A j \in Key : j # k => inputs'[j] = inputs[j]
  BY <1>1 DEF Undo, RowInv, TypeOK
<1>3. Restored(inputs[k], o).id = inputs[k].id
      /\ Restored(inputs[k], o).status = "pending"
  BY <1>1 DEF Restored, InputRow
<1>4. audit' = Recorded(events) /\ inputCount' = inputCount /\ decided' = decided
  BY DEF Undo, history
<1>5. \A m : /\ <<"input_submitted", m>> \notin events
             /\ <<"input_deleted", m>> \notin events
             /\ <<"output_acknowledged", m>> \notin events
             /\ <<"output_deleted", m>> \notin events
  BY DEF FileDeletions
<1> HIDE DEF events, k
<1>6. \A p \in OutputIds : Ended(p)' <=> Ended(p)
  BY <1>4, <1>5, EndedAfter DEF RowInv
<1>7. LiveKeys' = LiveKeys /\ \A j \in LiveKeys : inputs'[j].id = inputs[j].id
  BY <1>1, <1>2, <1>3 DEF LiveKeys
<1>8. \A i \in InputIds : Held(i)' <=> Held(i)
  BY <1>7 DEF Held
<1>9. \A i \in InputIds : ClosedBy(i)' = ClosedBy(i)
  BY <1>4, <1>6, ClosedIsEnded, ClosedIsEndedNext
<1>10. \A i \in InputIds :
          /\ audit'["input_submitted"][i] = audit["input_submitted"][i]
          /\ audit'["input_deleted"][i] = audit["input_deleted"][i]
  BY <1>4, <1>5, InputColumns
<1> QED
  BY <1>4, <1>8, <1>9, <1>10, QuietStepKeepsFates

LEMMA ReplaceKeepsFates ==
    ASSUME RowInv, EveryFate, NEW k \in Key, NEW c \in Content, Replace(k, c)
    PROVE  EveryFate'
<1>1. inputs[k] \in InputRow
  BY LiveRows DEF Replace, LiveKeys, RowInv
<1>2. /\ inputs'[k].id = inputs[k].id /\ inputs'[k].status = inputs[k].status
      /\ \A j \in Key : j # k => inputs'[j] = inputs[j]
  BY <1>1 DEF Replace, RowInv, TypeOK, InputRow
<1>3. LiveKeys' = LiveKeys /\ \A j \in LiveKeys : inputs'[j].id = inputs[j].id
  BY <1>2 DEF LiveKeys
<1>4. UNCHANGED <<inputCount, audit, decided>>
  BY DEF Replace, history
<1>5. \A i \in InputIds : ClosedBy(i)' = ClosedBy(i) /\ (Held(i)' <=> Held(i))
  BY <1>3, <1>4 DEF ClosedBy, Held
<1> QED
  BY <1>4, <1>5, QuietStepKeepsFates

\* The steps that touch neither the input rows nor the ledger.
LEMMA OtherStepsKeepFates ==
    ASSUME EveryFate, UNCHANGED <<inputs, inputCount, audit, decided>>
    PROVE  EveryFate'
<1>1. \A i \in InputIds : ClosedBy(i)' = ClosedBy(i) /\ (Held(i)' <=> Held(i))
  BY DEF ClosedBy, Held, LiveKeys
<1> QED
  BY <1>1, QuietStepKeepsFates

\* Deleting a pending input, acknowledging an output and every cleanup remove rows.
LEMMA RemovalStepsKeepFates ==
    ASSUME RowInv, DecisionInv, EveryFate,
           \/ \E k \in Key : DeleteInput(k)
           \/ \E c \in Caller, o \in OutputIds : AckLive(c, o)
           \/ Cleanup
    PROVE  EveryFate'
<1>1. ASSUME NEW k \in Key, DeleteInput(k)
      PROVE  EveryFate'
  <2>1. RemoveRows({}, {k}) /\ {k} \in SUBSET PendingKeys
    BY <1>1 DEF DeleteInput, RemoveRows, RowInv, TypeOK, PendingKeys
  <2>2. RemovesBy({}, {k}, {<<"input_deleted", inputs[k].id>>})
    BY DEF RemovesBy
  <2>3. /\ audit' = Recorded({<<"input_deleted", inputs[k].id>>})
        /\ UNCHANGED <<inputCount, decided>>
    BY <1>1 DEF DeleteInput, history
  <2> QED
    BY <2>1, <2>2, <2>3, RemovalKeepsFates
<1>2. ASSUME NEW c \in Caller, NEW o \in OutputIds, AckLive(c, o)
      PROVE  EveryFate'
  <2> DEFINE events == {<<"output_acknowledged", o>>} \cup FileDeletions({o})
  <2>1. RemoveRows({o}, {}) /\ {o} \in SUBSET LiveOutputs
    BY <1>2 DEF AckLive, LiveOutputs
  <2>2. RemovesBy({o}, {}, events)
    BY DEF RemovesBy, FileDeletions
  <2>3. audit' = Recorded(events) /\ UNCHANGED <<inputCount, decided>>
    BY <1>2 DEF AckLive
  <2> HIDE DEF events
  <2> QED
    BY <2>1, <2>2, <2>3, RemovalKeepsFates
<1>3. ASSUME Cleanup
      PROVE  EveryFate'
  <2>1. PICK outs \in SUBSET LiveOutputs, pending \in SUBSET PendingKeys :
           Purge(outs, pending)
    BY <1>3, CleanupPurges
  <2>2. RemovesBy(outs, pending, CleanupEvents(outs, pending))
    BY DEF RemovesBy, CleanupEvents, FileDeletions
  <2>3. /\ RemoveRows(outs, pending)
        /\ audit' = Recorded(CleanupEvents(outs, pending))
        /\ UNCHANGED <<inputCount, decided>>
    BY <2>1 DEF Purge, history
  <2> QED
    BY <2>2, <2>3, RemovalKeepsFates
<1> QED
  BY <1>1, <1>2, <1>3

LEMMA StepKeepsFates ==
    RowInv /\ OutputLedgerBalanced /\ DecisionInv /\ EveryFate /\ [Next]_vars
        => EveryFate'
<1> SUFFICES ASSUME RowInv, OutputLedgerBalanced, DecisionInv, EveryFate, [Next]_vars
             PROVE  EveryFate'
  OBVIOUS
<1>1. ASSUME NEW k \in Key, OpenItem(k)
      PROVE  EveryFate'
  BY <1>1, OtherStepsKeepFates DEF OpenItem, rows, history
<1>2. ASSUME NEW c \in Caller,
             \/ \E page \in SUBSET OutputIds : Read(c, page)
             \/ \E o \in OutputIds : AckGone(c, o)
      PROVE  EveryFate'
  BY <1>2, OtherStepsKeepFates DEF Read, AckGone, rows
<1>3. ASSUME BillingActive \/ BillingGraceStarts \/ Tick \/ UNCHANGED vars
      PROVE  EveryFate'
  BY <1>3, OtherStepsKeepFates
     DEF BillingActive, BillingGraceStarts, Tick, vars, rows, history
<1> QED
  BY <1>1, <1>2, <1>3, SendKeepsFates, ReplaceKeepsFates, AnswerKeepsFates,
     UndoKeepsFates, RemovalStepsKeepFates DEF Next

LEMMA InitFates == Init => EveryFate
<1> SUFFICES ASSUME Init, NEW i \in InputIds PROVE Fate(i)
  BY DEF EveryFate
<1>1. /\ audit["input_submitted"][i] = 0 /\ audit["input_deleted"][i] = 0
      /\ ~(i <= inputCount)
  BY QueueConstants DEF Init, AuditType, SubjectId, InputIds
<1>2. ~Held(i)
  BY DEF Init, Held, LiveKeys, NoInput
<1>3. ClosedBy(i) = {}
  BY DEF Init, ClosedBy
<1> QED
  BY <1>1, <1>2, <1>3 DEF Fate

THEOREM FatesInvariant == Spec => []EveryFate
BY InitFates, StepKeepsFates, RowsInvariant, LedgerIsBalanced, DecisionsInvariant,
   PTL DEF Spec

\* Every submitted input is live, or was deleted once, or left with exactly one
\* acknowledged or deleted output: none is lost and none is closed twice.
THEOREM InputLedgerIsBalanced == Spec => []InputLedgerBalanced
<1>1. DecisionInv /\ EveryFate => InputLedgerBalanced
  <2> SUFFICES ASSUME DecisionInv, EveryFate, NEW i \in InputIds
               PROVE  /\ audit["input_submitted"][i] =
                            (IF i <= inputCount THEN 1 ELSE 0)
                      /\ audit["input_deleted"][i] + Cardinality(ClosedBy(i))
                            + Cardinality({k \in LiveKeys : inputs[k].id = i})
                            = audit["input_submitted"][i]
    BY DEF InputLedgerBalanced
  <2> DEFINE holders == {k \in LiveKeys : inputs[k].id = i}
  <2>1. Fate(i)
    BY DEF EveryFate
  <2>2. \A j, k \in holders : j = k
    BY DEF DecisionInv, IdsAreUnique
  <2>3. holders # {} <=> Held(i)
    BY DEF Held
  <2> HIDE DEF holders
  <2>4. Cardinality(holders) = IF Held(i) THEN 1 ELSE 0
    BY <2>2, <2>3, AtMostOne
  <2>5. Cardinality(ClosedBy(i)) = IF ClosedBy(i) # {} THEN 1 ELSE 0
    BY <2>1, AtMostOne DEF Fate
  <2>6. audit["input_deleted"][i] + Cardinality(ClosedBy(i)) + Cardinality(holders)
           = audit["input_submitted"][i]
    BY <2>1, <2>4, <2>5 DEF Fate
  <2> QED
    BY <2>1, <2>6 DEF Fate, holders
<1> QED
  BY <1>1, DecisionsInvariant, FatesInvariant, PTL
---------------------------------------------------------------------------
(* The promise.  What is at a place is what its input row and its live     *)
(* output say, since a live output is the decision it was made from: so    *)
(* each transaction is one step of Delivery, or changes nothing there.     *)

PlacesOK ==
    /\ \A k \in Key : inputs[k].status = "absent" => PlaceOf(k) = [is |-> "nothing"]
    /\ \A k \in Key : inputs[k].status = "pending" =>
          PlaceOf(k) = [is |-> "offered", content |-> inputs[k].content]
    /\ \A k \in Key, o \in LiveOutputs : outputs[o].key = k =>
          PlaceOf(k) = [is |-> "decided", content |-> inputs[k].content,
                        response |-> outputs[o].response, result |-> o,
                        read |-> outputs[o].read]

LEMMA PlacesAre == RowInv /\ DecisionInv => PlacesOK
<1> SUFFICES ASSUME RowInv, DecisionInv
             PROVE  PlacesOK
  OBVIOUS
<1>1. \A k \in Key : inputs[k].status = "absent" => PlaceOf(k) = [is |-> "nothing"]
  BY DEF PlaceOf
<1>2. \A k \in Key : inputs[k].status = "pending" =>
         PlaceOf(k) = [is |-> "offered", content |-> inputs[k].content]
  BY DEF PlaceOf
<1>3. ASSUME NEW k \in Key, NEW o \in LiveOutputs, outputs[o].key = k
      PROVE  PlaceOf(k) = [is |-> "decided", content |-> inputs[k].content,
                           response |-> outputs[o].response, result |-> o,
                           read |-> outputs[o].read]
  <2>1. inputs[k].status = "answered"
    BY <1>3 DEF RowInv, PairedRows
  <2>2. \A p \in LiveOutputs : outputs[p].key = k => p = o
    BY <1>3 DEF RowInv, PairedRows
  <2>3. OutputOf(k) = o
    BY <1>3, <2>2 DEF OutputOf
  <2>4. decided[o].content = inputs[k].content /\ decided[o].response = outputs[o].response
    BY <1>3 DEF DecisionInv, LiveIsDecided
  <2> QED
    BY <2>1, <2>3, <2>4 DEF PlaceOf
<1> QED
  BY <1>1, <1>2, <1>3 DEF PlacesOK

LEMMA PlacesNext == (RowInv /\ DecisionInv)' => PlacesOK'
BY PlacesAre, PTL

\* The states a lemma about a step relates.
Related == RowInv /\ DecisionInv /\ RowInv' /\ DecisionInv' /\ PlacesOK /\ PlacesOK'

LEMMA Statuses ==
    ASSUME RowInv, NEW k \in Key
    PROVE  \/ inputs[k].status = "absent"
           \/ inputs[k].status = "pending"
           \/ inputs[k].status = "answered" /\ \E o \in LiveOutputs : outputs[o].key = k
BY DEF RowInv, TypeOK, PairedRows, InputRow, NoInput

\* A place stays as it is with its input row and its live output.
LEMMA PlaceStays ==
    ASSUME Related, NEW k \in Key, inputs'[k] = inputs[k],
           \A o \in LiveOutputs : outputs[o].key = k => outputs'[o] = outputs[o]
    PROVE  PlaceOf(k)' = PlaceOf(k)
<1>1. CASE inputs[k].status = "absent"
  BY <1>1 DEF Related, PlacesOK
<1>2. CASE inputs[k].status = "pending"
  BY <1>2 DEF Related, PlacesOK
<1>3. CASE \E o \in LiveOutputs : outputs[o].key = k
  <2>1. PICK o \in LiveOutputs : outputs[o].key = k
    BY <1>3
  <2>2. outputs'[o] = outputs[o] /\ o \in LiveOutputs'
    BY <2>1 DEF LiveOutputs
  <2>3. PlaceOf(k) = [is |-> "decided", content |-> inputs[k].content,
                      response |-> outputs[o].response, result |-> o, read |-> outputs[o].read]
    BY <2>1 DEF Related, PlacesOK
  <2>4. PlaceOf(k)' = [is |-> "decided", content |-> inputs'[k].content,
                       response |-> outputs'[o].response, result |-> o, read |-> outputs'[o].read]
    BY <2>1, <2>2 DEF Related, PlacesOK
  <2> QED
    BY <2>2, <2>3, <2>4
<1> QED
  BY <1>1, <1>2, <1>3, Statuses DEF Related

\* What is acknowledged stays so, and only an acknowledgement adds to it.
LEMMA AckedStays ==
    ASSUME \A o \in OutputIds :
              /\ audit'["output_acknowledged"][o] = audit["output_acknowledged"][o]
              /\ audit["output_acknowledged"][o] > 0 => decided'[o] = decided[o]
    PROVE  AckedResults' = AckedResults
BY DEF AckedResults, Acknowledged

\* A step that leaves rows and outputs is none of Delivery.
LEMMA OtherStepsMap ==
    ASSUME Related, UNCHANGED <<inputs, outputs, outputCount, audit, decided, received, ackReplies>>
    PROVE  UNCHANGED Promise!deliveryVars
<1>1. \A k \in Key : PlaceOf(k)' = PlaceOf(k)
  BY PlaceStays
<1>2. AckedResults' = AckedResults
  BY AckedStays
<1> QED
  BY <1>1, <1>2 DEF Promise!deliveryVars

LEMMA SubmissionMaps ==
    ASSUME Related, NEW k \in Key, NEW c \in Content, Send(k, c) \/ Replace(k, c)
    PROVE  Promise!Offer(k, c)
<1>1. /\ inputs[k].status \in {"absent", "pending"}
      /\ UNCHANGED <<outputs, outputCount, decided, received, ackReplies>>
  BY DEF Send, Replace, history
<1>2. inputs'[k].status = "pending" /\ inputs'[k].content = c
  BY DEF Send, Replace, Related, RowInv, TypeOK, InputRow, NoInput
<1>3. \A j \in Key : j # k => inputs'[j] = inputs[j]
  BY DEF Send, Replace, Related, RowInv, TypeOK
<1>4. \A o \in OutputIds :
         audit'["output_acknowledged"][o] = audit["output_acknowledged"][o]
  BY NoAckRecorded DEF Send, Replace, SubjectId
<1>5. AckedResults' = AckedResults
  BY <1>1, <1>4, AckedStays
<1>6. PlaceOf(k).is # "decided"
  BY <1>1 DEF Related, PlacesOK
<1>7. PlaceOf(k)' = [is |-> "offered", content |-> c]
  BY <1>2 DEF Related, PlacesOK
<1>8. \A j \in Key : j # k => PlaceOf(j)' = PlaceOf(j)
  BY <1>1, <1>3, PlaceStays
<1> QED
  BY <1>1, <1>5, <1>6, <1>7, <1>8 DEF Promise!Offer, Promise!Offered

\* Deleted rows leave their places empty.
LEMMA RemovalMaps ==
    ASSUME Related, NEW outs \in SUBSET LiveOutputs, NEW pending \in SUBSET PendingKeys,
           RemoveRows(outs, pending),
           NEW places \in SUBSET Key,
           \A k \in Key : k \in places <=> k \in pending \/ \E o \in outs : outputs[o].key = k
    PROVE  \A k \in Key : PlaceOf(k)' = IF k \in places THEN [is |-> "nothing"] ELSE PlaceOf(k)
<1>1. ASSUME NEW k \in Key, k \in places
      PROVE  PlaceOf(k)' = [is |-> "nothing"]
  <2>1. inputs'[k] = NoInput
    BY <1>1 DEF RemoveRows
  <2>2. inputs'[k].status = "absent"
    BY <2>1 DEF NoInput
  <2> QED
    BY <2>2 DEF Related, PlacesOK
<1>2. ASSUME NEW k \in Key, k \notin places
      PROVE  PlaceOf(k)' = PlaceOf(k)
  <2>1. inputs'[k] = inputs[k]
    BY <1>2 DEF RemoveRows
  <2>2. \A o \in LiveOutputs : outputs[o].key = k => outputs'[o] = outputs[o]
    BY <1>2 DEF RemoveRows, LiveOutputs
  <2> QED
    BY <2>1, <2>2, PlaceStays
<1> QED
  BY <1>1, <1>2

LEMMA ClearMaps ==
    ASSUME Related, NEW outs \in SUBSET LiveOutputs, NEW pending \in SUBSET PendingKeys,
           RemoveRows(outs, pending), NEW events, audit' = Recorded(events),
           \A n : <<"output_acknowledged", n>> \notin events,
           UNCHANGED <<outputCount, decided, received, ackReplies>>
    PROVE  Promise!Next
<1>1. PICK places \in SUBSET Key :
         \A k \in Key : k \in places <=> k \in pending \/ \E o \in outs : outputs[o].key = k
  <2>1. {k \in Key : k \in pending \/ \E o \in outs : outputs[o].key = k} \in SUBSET Key
    OBVIOUS
  <2> QED
    BY <2>1
<1>2. \A k \in Key : PlaceOf(k)' = IF k \in places THEN [is |-> "nothing"] ELSE PlaceOf(k)
  BY <1>1, RemovalMaps
<1>3. AckedResults' = AckedResults
  BY NoAckRecorded, AckedStays DEF SubjectId
<1>4. Promise!Clear(places)
  BY <1>2, <1>3 DEF Promise!Clear, Promise!Nothing
<1> QED
  BY <1>2, <1>4 DEF Promise!Next

\* An answer decides on the submission that is in the queue.
LEMMA AnswerMaps ==
    ASSUME Related, OutputLedgerBalanced, NEW r \in Response, Answer(r)
    PROVE  Promise!Next
<1>1. PICK k, o : k = view.key /\ o = outputCount + 1
  OBVIOUS
<1>2. k \in Key /\ o \in OutputIds /\ outputCount \in Nat
  BY <1>1 DEF Answer, Related, RowInv, TypeOK, View, NoView, OutputIds
<1>3. /\ inputs[k].status = "pending" /\ outputCount' = o
      /\ inputs' = [inputs EXCEPT ![k].status = "answered", ![k].updatedAt = now]
      /\ UNCHANGED <<received, ackReplies>>
  BY <1>1 DEF Answer, AnswerTargetsCurrent
<1>4. inputs'[k].content = inputs[k].content /\ \A j \in Key : j # k => inputs'[j] = inputs[j]
  BY <1>2, <1>3 DEF Related, RowInv, TypeOK, InputRow, NoInput
<1>5. /\ outputs'[o].status = "live" /\ outputs'[o].key = k /\ outputs'[o].response = r
      /\ outputs'[o].read = FALSE
      /\ \A p \in OutputIds : p # o => outputs'[p] = outputs[p] /\ decided'[p] = decided[p]
  BY <1>1, <1>2 DEF Answer, Related, RowInv, TypeOK
<1>6. o \notin LiveOutputs /\ o \notin 1 .. outputCount /\ 1 .. outputCount' = (1 .. outputCount) \cup {o}
  BY <1>1, <1>2, <1>3 DEF Related, RowInv, FreshOutputs, LiveOutputs, NoOutput
<1>7. audit["output_acknowledged"][o] = 0
  <2>1. Entries(o) /\ ~(o <= outputCount)
    BY <1>1, <1>2, LedgerIsEntries
  <2>2. TerminalEvents(o) + (IF o \in LiveOutputs THEN 1 ELSE 0) = 0
    BY <2>1 DEF Entries
  <2> QED
    BY <1>2, <1>6, <2>2, EntryTypes DEF TerminalEvents, Related, RowInv
<1>8. \A p \in OutputIds :
         audit'["output_acknowledged"][p] = audit["output_acknowledged"][p]
  BY NoAckRecorded DEF Answer, SubjectId
<1>9. AckedResults' = AckedResults
  BY <1>5, <1>7, <1>8, AckedStays
<1>10. PlaceOf(k) = [is |-> "offered", content |-> inputs[k].content]
  BY <1>2, <1>3 DEF Related, PlacesOK
<1>11. PlaceOf(k)' = [is |-> "decided", content |-> inputs[k].content, response |-> r,
                      result |-> o, read |-> FALSE]
  <2>1. o \in LiveOutputs'
    BY <1>2, <1>5 DEF LiveOutputs
  <2>2. PlaceOf(k)' = [is |-> "decided", content |-> inputs'[k].content,
                       response |-> outputs'[o].response, result |-> o, read |-> outputs'[o].read]
    BY <1>2, <1>5, <2>1 DEF Related, PlacesOK
  <2> QED
    BY <1>4, <1>5, <2>2
<1>12. \A j \in Key : j # k => PlaceOf(j)' = PlaceOf(j)
  <2>1. \A p \in LiveOutputs : outputs'[p] = outputs[p]
    BY <1>5, <1>6 DEF LiveOutputs
  <2> QED
    BY <1>4, <2>1, PlaceStays
<1>13. Promise!Decide(k, r, o)
  <2>1. [j \in Key |-> PlaceOf(j)][k] = PlaceOf(k) /\ PlaceOf(k).is = "offered"
        /\ PlaceOf(k).content = inputs[k].content
    BY <1>2, <1>10
  <2>2. [j \in Key |-> PlaceOf(j)]' =
           [[j \in Key |-> PlaceOf(j)] EXCEPT ![k] = Promise!Decided(inputs[k].content, r, o, FALSE)]
    BY <1>2, <1>11, <1>12 DEF Promise!Decided
  <2> QED
    BY <1>3, <1>6, <1>9, <2>1, <2>2 DEF Promise!Decide
<1> QED
  BY <1>2, <1>13 DEF Promise!Next

LEMMA UndoMaps ==
    ASSUME Related, NEW o \in OutputIds, Undo(o)
    PROVE  Promise!Next
<1>1. /\ o \in LiveOutputs /\ ~outputs[o].read
      /\ inputs' = [inputs EXCEPT ![outputs[o].key] = Restored(@, o)]
      /\ outputs' = [outputs EXCEPT ![o] = NoOutput]
      /\ UNCHANGED <<outputCount, decided, received, ackReplies>>
  BY DEF Undo, Undoable, LiveOutputs, history
<1>2. PICK k \in Key : k = outputs[o].key
  BY <1>1, LiveRows DEF Related, RowInv
<1>3. inputs[k].status = "answered" /\ inputs[k] \in InputRow
  BY <1>1, <1>2 DEF Related, RowInv, TypeOK, PairedRows, InputRow, NoInput
<1>4. inputs'[k].status = "pending" /\ inputs'[k].content = inputs[k].content
  <2>1. inputs'[k] = Restored(inputs[k], o)
    BY <1>1, <1>2 DEF Related, RowInv, TypeOK
  <2> QED
    BY <1>3, <2>1 DEF Restored, InputRow
<1>5. \A j \in Key : j # k => inputs'[j] = inputs[j]
  BY <1>1, <1>2 DEF Related, RowInv, TypeOK
<1>6. \A p \in LiveOutputs : outputs[p].key # k => outputs'[p] = outputs[p]
  BY <1>1, <1>2 DEF Related, RowInv, TypeOK, LiveOutputs
<1>7. AckedResults' = AckedResults
  <2>1. audit' = Recorded({<<"output_undone", o>>} \cup FileDeletions({o}))
    BY DEF Undo
  <2>2. \A n : <<"output_acknowledged", n>> \notin {<<"output_undone", o>>} \cup FileDeletions({o})
    BY DEF FileDeletions
  <2>3. \A p \in OutputIds :
           audit'["output_acknowledged"][p] = audit["output_acknowledged"][p]
    BY <2>1, <2>2, NoAckRecorded DEF SubjectId
  <2> QED
    BY <1>1, <2>3, AckedStays
<1>8. PlaceOf(k) = [is |-> "decided", content |-> inputs[k].content,
                    response |-> outputs[o].response, result |-> o, read |-> outputs[o].read]
  BY <1>1, <1>2 DEF Related, PlacesOK
<1>9. PlaceOf(k)' = [is |-> "offered", content |-> inputs[k].content]
  BY <1>4 DEF Related, PlacesOK
<1>10. \A j \in Key : j # k => PlaceOf(j)' = PlaceOf(j)
  BY <1>5, <1>6, PlaceStays
<1>11. Promise!TakeBack(k)
  <2>1. /\ [j \in Key |-> PlaceOf(j)][k] = PlaceOf(k) /\ PlaceOf(k).is = "decided"
        /\ PlaceOf(k).content = inputs[k].content /\ ~PlaceOf(k).read
    BY <1>1, <1>8
  <2>2. [j \in Key |-> PlaceOf(j)]' =
           [[j \in Key |-> PlaceOf(j)] EXCEPT ![k] = Promise!Offered(inputs[k].content)]
    BY <1>9, <1>10 DEF Promise!Offered
  <2> QED
    BY <1>1, <1>7, <2>1, <2>2 DEF Promise!TakeBack
<1> QED
  BY <1>11 DEF Promise!Next

\* A caller reads results of its own, as they were decided.
LEMMA ReadMaps ==
    ASSUME Related, NEW c \in Caller, NEW page \in SUBSET OutputIds, Read(c, page)
    PROVE  Promise!Next
<1>1. /\ \A o \in page : o \in LiveOutputs /\ outputs[o].key[1] = c
      /\ \A o \in OutputIds : outputs'[o] =
            IF o \in page THEN [outputs[o] EXCEPT !.read = TRUE] ELSE outputs[o]
      /\ received' = received \cup {ResultOf(c, o) : o \in page}
      /\ UNCHANGED <<inputs, outputCount, audit, decided, ackReplies>>
  BY DEF Read, LiveOutputs
<1>2. PICK places : places = {outputs[o].key : o \in page}
  OBVIOUS
<1>3. \A o \in page : outputs[o].key \in Key /\ outputs[o] \in OutputRow
  BY <1>1, LiveRows DEF Related, RowInv
<1>4. ASSUME NEW o \in page, NEW k \in Key, outputs[o].key = k
      PROVE  /\ PlaceOf(k) = [is |-> "decided", content |-> inputs[k].content,
                              response |-> outputs[o].response, result |-> o,
                              read |-> outputs[o].read]
             /\ PlaceOf(k)' = Promise!Decided(PlaceOf(k).content, PlaceOf(k).response,
                                              PlaceOf(k).result, TRUE)
             /\ ResultOf(c, o) = [caller |-> c, output |-> PlaceOf(k).result,
                                  content |-> PlaceOf(k).content,
                                  response |-> PlaceOf(k).response]
  <2>1. PlaceOf(k) = [is |-> "decided", content |-> inputs[k].content,
                      response |-> outputs[o].response, result |-> o, read |-> outputs[o].read]
    BY <1>1, <1>4 DEF Related, PlacesOK
  <2>2. outputs'[o] = [outputs[o] EXCEPT !.read = TRUE] /\ outputs[o] \in OutputRow
    BY <1>1, <1>3
  <2>3. /\ outputs'[o].key = k /\ outputs'[o].response = outputs[o].response
        /\ outputs'[o].read = TRUE /\ outputs'[o].status = "live"
    BY <1>4, <2>2 DEF OutputRow
  <2>4. o \in LiveOutputs'
    BY <2>3 DEF LiveOutputs
  <2>5. PlaceOf(k)' = [is |-> "decided", content |-> inputs'[k].content,
                       response |-> outputs'[o].response, result |-> o, read |-> outputs'[o].read]
    BY <2>3, <2>4 DEF Related, PlacesOK
  <2>6. /\ PlaceOf(k).content = inputs[k].content
        /\ PlaceOf(k).response = outputs[o].response
        /\ PlaceOf(k).result = o
    BY <2>1
  <2>7. PlaceOf(k)' = [is |-> "decided", content |-> PlaceOf(k).content,
                       response |-> PlaceOf(k).response, result |-> PlaceOf(k).result,
                       read |-> TRUE]
    BY <1>1, <2>3, <2>5, <2>6
  <2> QED
    BY <1>4, <2>1, <2>6, <2>7 DEF ResultOf, Promise!Decided
<1>5. ASSUME NEW k \in Key, k \notin places
      PROVE  PlaceOf(k)' = PlaceOf(k)
  <2>1. \A o \in LiveOutputs : outputs[o].key = k => outputs'[o] = outputs[o]
    BY <1>1, <1>2, <1>5 DEF LiveOutputs
  <2> QED
    BY <1>1, <2>1, PlaceStays
<1>6. places \in SUBSET Key
  BY <1>2, <1>3
<1>7. \A k \in places : k[1] = c /\ PlaceOf(k).is = "decided"
  <2> SUFFICES ASSUME NEW k \in places
               PROVE  k[1] = c /\ PlaceOf(k).is = "decided"
    OBVIOUS
  <2>1. PICK o \in page : outputs[o].key = k
    BY <1>2
  <2>2. k \in Key /\ k[1] = c
    BY <1>1, <1>3, <2>1
  <2>3. PlaceOf(k) = [is |-> "decided", content |-> inputs[k].content,
                      response |-> outputs[o].response, result |-> o, read |-> outputs[o].read]
    BY <1>4, <2>1, <2>2
  <2> QED
    BY <2>2, <2>3
<1>8. \A k \in Key : PlaceOf(k)' =
         IF k \in places
         THEN Promise!Decided(PlaceOf(k).content, PlaceOf(k).response, PlaceOf(k).result, TRUE)
         ELSE PlaceOf(k)
  BY <1>2, <1>4, <1>5
<1>9. {ResultOf(c, o) : o \in page} =
         {[caller |-> c, output |-> PlaceOf(k).result, content |-> PlaceOf(k).content,
           response |-> PlaceOf(k).response] : k \in places}
  BY <1>2, <1>3, <1>4
<1>10. AckedResults' = AckedResults
  BY <1>1, AckedStays
<1>11. Promise!Read(c, places)
  <2>1. places \subseteq Promise!Results(c)
    BY <1>6, <1>7 DEF Promise!Results
  <2>2. received' = received \cup
           {[caller |-> c, output |-> [j \in Key |-> PlaceOf(j)][k].result,
             content |-> [j \in Key |-> PlaceOf(j)][k].content,
             response |-> [j \in Key |-> PlaceOf(j)][k].response] : k \in places}
    BY <1>1, <1>6, <1>9
  <2> QED
    BY <1>1, <1>6, <1>8, <1>10, <2>1, <2>2 DEF Promise!Read
<1> QED
  BY <1>6, <1>11 DEF Promise!Next

LEMMA AckLiveMaps ==
    ASSUME Related, NEW c \in Caller, NEW o \in OutputIds, AckLive(c, o)
    PROVE  Promise!Next
<1> DEFINE events == {<<"output_acknowledged", o>>} \cup FileDeletions({o})
<1>1. /\ o \in LiveOutputs /\ outputs[o].key[1] = c /\ RemoveRows({o}, {})
      /\ audit' = Recorded(events) /\ Reply(c, o, "acknowledged")
      /\ UNCHANGED <<outputCount, decided, received>>
  BY DEF AckLive, LiveOutputs
<1>2. PICK k \in Key : k = outputs[o].key
  BY <1>1, LiveRows DEF Related, RowInv
<1>3. PlaceOf(k) = [is |-> "decided", content |-> inputs[k].content,
                    response |-> outputs[o].response, result |-> o, read |-> outputs[o].read]
  BY <1>1, <1>2 DEF Related, PlacesOK
<1>4. \A j \in Key : PlaceOf(j)' = IF j = k THEN [is |-> "nothing"] ELSE PlaceOf(j)
  <2>1. PICK outs, pending, places : outs = {o} /\ pending = {} /\ places = {k}
    OBVIOUS
  <2>2. /\ outs \in SUBSET LiveOutputs /\ pending \in SUBSET PendingKeys
        /\ places \in SUBSET Key /\ RemoveRows(outs, pending)
    BY <1>1, <2>1
  <2>3. \A j \in Key : j \in places <=> j \in pending \/ \E p \in outs : outputs[p].key = j
    BY <1>2, <2>1
  <2>4. \A j \in Key : PlaceOf(j)' = IF j \in places THEN [is |-> "nothing"] ELSE PlaceOf(j)
    BY <2>2, <2>3, RemovalMaps
  <2> QED
    BY <2>1, <2>4
<1>5. ASSUME NEW p \in OutputIds
      PROVE  audit'["output_acknowledged"][p] =
                IF p = o THEN audit["output_acknowledged"][p] + 1
                ELSE audit["output_acknowledged"][p]
  <2>1. <<"output_acknowledged", p>> \in events <=> p = o
    BY DEF FileDeletions
  <2>2. p \in SubjectId /\ "output_acknowledged" \in AuditType
    BY DEF SubjectId, AuditType
  <2> HIDE DEF events
  <2> QED
    BY <1>1, <2>1, <2>2, RecordedEntry
<1>6. audit["output_acknowledged"][o] \in Nat /\ decided[o].key[1] = c
  BY <1>1, EntryTypes DEF Related, RowInv, DecisionInv, LiveIsDecided
<1>7. AckedResults' = AckedResults \cup {<<c, o>>}
  <2>1. ASSUME NEW d \in Caller, NEW p \in OutputIds
        PROVE  Acknowledged(d, p)' <=> Acknowledged(d, p) \/ (d = c /\ p = o)
    <3>1. CASE p = o
      <4>1. audit'["output_acknowledged"][o] > 0
        BY <1>5, <1>6
      <4> QED
        BY <1>1, <1>6, <3>1, <4>1 DEF Acknowledged
    <3>2. CASE p # o
      BY <1>1, <1>5, <3>2 DEF Acknowledged
    <3> QED
      BY <3>1, <3>2
  <2> QED
    BY <2>1 DEF AckedResults
<1>8. k[1] = c
  BY <1>1, <1>2
<1>9. Promise!Acknowledge(k)
  <2>1. /\ [j \in Key |-> PlaceOf(j)][k] = PlaceOf(k) /\ PlaceOf(k).is = "decided"
        /\ PlaceOf(k).result = o
    BY <1>3
  <2>2. [j \in Key |-> PlaceOf(j)]' = [[j \in Key |-> PlaceOf(j)] EXCEPT ![k] = Promise!Nothing]
    BY <1>4 DEF Promise!Nothing
  <2>3. Promise!Reply(k[1], o, "acknowledged")
    BY <1>1, <1>8 DEF Promise!Reply, Reply
  <2> QED
    BY <1>1, <1>7, <1>8, <2>1, <2>2, <2>3 DEF Promise!Acknowledge
<1> QED
  BY <1>9 DEF Promise!Next

LEMMA AckGoneMaps ==
    ASSUME Related, NEW c \in Caller, NEW o \in OutputIds, AckGone(c, o)
    PROVE  Promise!Next
<1>1. /\ UNCHANGED <<inputs, outputs, outputCount, audit, decided, received>>
      /\ ~(o \in LiveOutputs /\ outputs[o].key[1] = c)
      /\ Reply(c, o, IF Acknowledged(c, o) THEN "already_acknowledged" ELSE "not_found")
  BY DEF AckGone, rows, LiveOutputs
<1>2. \A k \in Key : PlaceOf(k)' = PlaceOf(k)
  BY <1>1, PlaceStays
<1>3. AckedResults' = AckedResults
  BY <1>1, AckedStays
<1>4. ASSUME NEW k \in Key, k[1] = c, PlaceOf(k).is = "decided"
      PROVE  PlaceOf(k).result # o
  <2>1. PICK p \in LiveOutputs : outputs[p].key = k
    BY <1>4, Statuses DEF Related, PlacesOK
  <2>2. PlaceOf(k).result = p
    BY <2>1 DEF Related, PlacesOK
  <2> QED
    BY <1>1, <1>4, <2>1, <2>2
<1>5. \A k \in Promise!Results(c) : k \in Key /\ PlaceOf(k).result # o
  BY <1>4 DEF Promise!Results
<1>6. <<c, o>> \in AckedResults <=> Acknowledged(c, o)
  BY DEF AckedResults
<1>7. Promise!AcknowledgeAgain(c, o)
  BY <1>1, <1>2, <1>3, <1>5, <1>6 DEF Promise!AcknowledgeAgain, Promise!Reply, Reply
<1> QED
  BY <1>7 DEF Promise!Next

LEMMA StepMaps ==
    ASSUME Related, OutputLedgerBalanced, [Next]_vars
    PROVE  [Promise!Next]_Promise!deliveryVars
<1>1. ASSUME NEW k \in Key, NEW c \in Content, Send(k, c) \/ Replace(k, c)
      PROVE  Promise!Next
  BY <1>1, SubmissionMaps DEF Promise!Next
<1>2. ASSUME NEW k \in Key, DeleteInput(k)
      PROVE  Promise!Next
  <2>1. RemoveRows({}, {k}) /\ {k} \in SUBSET PendingKeys /\ {} \in SUBSET LiveOutputs
    BY <1>2 DEF DeleteInput, RemoveRows, Related, RowInv, TypeOK, PendingKeys
  <2>2. /\ audit' = Recorded({<<"input_deleted", inputs[k].id>>})
        /\ \A n : <<"output_acknowledged", n>> \notin {<<"input_deleted", inputs[k].id>>}
        /\ UNCHANGED <<outputCount, decided, received, ackReplies>>
    BY <1>2 DEF DeleteInput, history
  <2> QED
    BY <2>1, <2>2, ClearMaps
<1>3. CASE Cleanup
  <2>1. PICK outs \in SUBSET LiveOutputs, pending \in SUBSET PendingKeys : Purge(outs, pending)
    BY <1>3, CleanupPurges
  <2>2. \A n : <<"output_acknowledged", n>> \notin CleanupEvents(outs, pending)
    BY DEF CleanupEvents, FileDeletions
  <2> QED
    BY <2>1, <2>2, ClearMaps DEF Purge, history
<1>4. CASE \/ \E k \in Key : OpenItem(k)
           \/ BillingActive \/ BillingGraceStarts \/ Tick \/ UNCHANGED vars
  BY <1>4, OtherStepsMap
     DEF OpenItem, BillingActive, BillingGraceStarts, Tick, vars, rows, history
<1> QED
  BY <1>1, <1>2, <1>3, <1>4, AnswerMaps, UndoMaps, ReadMaps, AckLiveMaps, AckGoneMaps DEF Next

LEMMA InitMaps == Init => Promise!Init
<1> SUFFICES ASSUME Init
             PROVE  Promise!Init
  OBVIOUS
<1>1. \A k \in Key : PlaceOf(k) = [is |-> "nothing"]
  BY DEF Init, NoInput, PlaceOf
<1>2. AckedResults = {}
  BY DEF Init, AckedResults, Acknowledged, AuditType, SubjectId
<1> QED
  BY <1>1, <1>2 DEF Init, Promise!Init, Promise!Nothing

\* The transactions of the two queues, in every order and with every cleanup,
\* implement what they promise (OutboxQueue.ImplementsDelivery).
THEOREM QueuesDeliver == Spec => ImplementsDelivery
<1>1. /\ RowInv /\ DecisionInv /\ OutputLedgerBalanced /\ [Next]_vars
      /\ RowInv' /\ DecisionInv'
      => [Promise!Next]_Promise!deliveryVars
  <2>1. RowInv /\ DecisionInv => PlacesOK
    BY PlacesAre
  <2>2. (RowInv /\ DecisionInv)' => PlacesOK'
    BY PlacesNext
  <2> QED
    BY <2>1, <2>2, StepMaps DEF Related
<1> QED
  BY <1>1, InitMaps, RowsInvariant, DecisionsInvariant, LedgerIsBalanced, PTL
     DEF Spec, ImplementsDelivery, Promise!Spec
=============================================================================
