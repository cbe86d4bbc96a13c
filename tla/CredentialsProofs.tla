------------------------- MODULE CredentialsProofs -------------------------
(***************************************************************************)
(* What a person is promised about the keys of CallerCredentials, for every*)
(* number of setup requests, callers and keys: activations that fit the    *)
(* indexes, one key per approval, an audit log that tells which callers    *)
(* have a working key, and the lifecycle of CallerLifecycle.               *)
(***************************************************************************)
EXTENDS CallerCredentials, FiniteSetTheorems, TLAPS

\* Open requests name a caller, and a caller some request is bound to exists.
Bound ==
    \A s \in Setup :
        /\ setup[s].status = "pending" => setup[s].name \in Caller
        /\ setup[s].status = "approved" => setup[s].caller \in Caller
        /\ setup[s].caller \in Caller => caller[setup[s].caller] # "none"

\* A caller was created by the approval of one connect request.
OneConnect ==
    \A s, t \in Setup :
        setup[s].op = "connect" /\ setup[t].op = "connect"
            /\ setup[s].caller \in Caller /\ setup[t].caller = setup[s].caller => s = t

\* A connect request that is approved and not exchanged has a caller without
\* any credential.
Unkeyed ==
    \A s \in Setup, k \in Key :
        setup[s].op = "connect" /\ setup[s].status = "approved" =>
            cred[k].caller # setup[s].caller

\* Usable credentials belong to a caller, which exists; a credential not
\* minted yet belongs to none.
Owned ==
    \A k \in Key :
        /\ cred[k].status \in {"pending", "active", "revoked"} => cred[k].caller \in Caller
        /\ cred[k].caller \in Caller => caller[cred[k].caller] # "none"
        /\ cred[k].status = "none" => cred[k].caller \notin Caller

\* A replacement names a credential of its caller that was active once.
Replacing ==
    \A k \in Key : cred[k].replaces # NoKey =>
        /\ cred[cred[k].replaces].status \in {"active", "revoked"}
        /\ cred[cred[k].replaces].caller = cred[k].caller

OneActive ==
    \A j, k \in Key :
        cred[j].status = "active" /\ cred[k].status = "active"
            /\ cred[j].caller = cred[k].caller => j = k

OnePending ==
    \A j, k \in Key :
        cred[j].status = "pending" /\ cred[k].status = "pending"
            /\ cred[j].caller = cred[k].caller => j = k

\* A pending credential that replaces none belongs to a caller without a key.
FirstKey ==
    \A j, k \in Key :
        cred[j].status = "pending" /\ cred[j].replaces = NoKey
            /\ cred[k].status = "active" => cred[j].caller # cred[k].caller

\* The inductive invariant behind ActivationFits.
KeyInv ==
    /\ CredentialsTypeOK
    /\ Bound /\ OneConnect /\ Unkeyed /\ Owned
    /\ Replacing /\ OneActive /\ OnePending /\ FirstKey

---------------------------------------------------------------------------
(* Types                                                                   *)

LEMMA EndedType ==
    ASSUME CredentialsTypeOK, NEW K
    PROVE  Ended(K, "expired") \in [Key -> CredRow]
BY DEF CredentialsTypeOK, Ended, CredRow

LEMMA LogType ==
    ASSUME CredentialsTypeOK, NEW c, NEW event \in {"registered", "rotated", "revoked"},
           Log(c, event)
    PROVE  audit' \in [Caller -> Seq({"registered", "rotated", "revoked"})]
<1> DEFINE Event == {"registered", "rotated", "revoked"}
<1>1. \A q \in Seq(Event) : Append(q, event) \in Seq(Event)
  OBVIOUS
<1>2. audit \in [Caller -> Seq(Event)]
  BY DEF CredentialsTypeOK
<1>3. audit' = [audit EXCEPT ![c] = Append(@, event)]
  BY DEF Log
<1> HIDE DEF Event
<1>4. audit' \in [Caller -> Seq(Event)]
  BY <1>1, <1>2, <1>3
<1> QED
  BY <1>4 DEF Event

LEMMA StatusType ==
    ASSUME CredentialsTypeOK, NEW s,
           NEW status \in {"approved", "exchanged", "denied"}, SetStatus(s, status)
    PROVE  setup' \in [Setup -> SetupRow]
<1>1. \A row \in SetupRow : [row EXCEPT !.status = status] \in SetupRow
  BY DEF SetupRow
<1>2. setup' = [setup EXCEPT ![s] = [setup[s] EXCEPT !.status = status]]
  BY DEF SetStatus
<1> QED
  BY <1>1, <1>2 DEF CredentialsTypeOK

LEMMA MintType ==
    ASSUME CredentialsTypeOK, NEW s \in Setup, NEW k \in Key, NEW old \in Key \cup {NoKey},
           NEW expired, Mint(s, k, old, expired)
    PROVE  CredentialsTypeOK'
<1>1. cred' \in [Key -> CredRow]
  <2>1. setup[s].caller \in Caller \cup {NoCaller}
    BY DEF CredentialsTypeOK, SetupRow
  <2>2. [status |-> "pending", caller |-> setup[s].caller, replaces |-> old, setup |-> s] \in CredRow
    BY <2>1 DEF CredRow
  <2> QED
    BY <2>2, EndedType DEF Mint
<1>2. setup' \in [Setup -> SetupRow]
  BY StatusType DEF Mint, UseUp
<1> QED
  BY <1>1, <1>2 DEF Mint, CredentialsTypeOK

LEMMA TypesKept ==
    ASSUME CredentialsTypeOK, [CredentialsNext]_credentialVars
    PROVE  CredentialsTypeOK'
<1> USE DEF CredentialsTypeOK
<1>1. ASSUME NEW s \in Setup, NEW op \in Operation, NEW flow \in Flow, NEW c \in Caller,
             StartSetup(s, op, flow, c)
      PROVE  CredentialsTypeOK'
  BY <1>1 DEF StartSetup, SetupRow
<1>2. ASSUME NEW s \in Setup, Approve(s) PROVE CredentialsTypeOK'
  <2> DEFINE c == setup[s].name
             row == [setup[s] EXCEPT !.status = "approved", !.caller = c,
                                     !.coded = (setup[s].flow = "browser")]
  <2>1. row \in SetupRow
    <3>1. /\ setup[s] \in SetupRow /\ c \in Caller \cup {NoCaller}
          /\ (setup[s].flow = "browser") \in BOOLEAN
      BY DEF SetupRow
    <3> QED
      BY <3>1 DEF SetupRow
  <2>2. setup' = [setup EXCEPT ![s] = row]
    BY <1>2 DEF Approve
  <2>3. setup' \in [Setup -> SetupRow]
    <3> HIDE DEF row
    <3> QED
      BY <2>1, <2>2
  <2>4. caller' = [caller EXCEPT ![c] = IF setup[s].op = "connect" THEN "fresh" ELSE @]
    BY <1>2 DEF Approve
  <2>5. caller' \in [Caller -> {"none", "fresh", "old"}]
    <3> HIDE DEF c
    <3> QED
      BY <2>4
  <2> QED
    BY <1>2, <2>3, <2>5 DEF Approve
<1>3. ASSUME NEW s \in Setup, Deny(s) \/ DevicePoll(s) \/ MarkExpired(s) \/ Lapse(s) \/ Age(s)
      PROVE  CredentialsTypeOK'
  <2>1. CASE Deny(s)
    BY <2>1, StatusType DEF Deny
  <2>2. CASE DevicePoll(s)
    BY <2>2 DEF DevicePoll, SetupRow
  <2>3. CASE MarkExpired(s)
    <3>1. [setup[s] EXCEPT !.status = "expired", !.clock = "lapsed"] \in SetupRow
      BY DEF SetupRow
    <3> QED
      BY <2>3, <3>1 DEF MarkExpired
  <2>4. CASE Lapse(s) \/ Age(s)
    <3>1. \A clock \in {"lapsed", "old"} : [setup[s] EXCEPT !.clock = clock] \in SetupRow
      BY DEF SetupRow
    <3> QED
      BY <2>4, <3>1 DEF Lapse, Age
  <2> QED
    BY <1>3, <2>1, <2>2, <2>3, <2>4
<1>4. ASSUME NEW s \in Setup, NEW k \in Key, ExchangeConnect(s, k) PROVE CredentialsTypeOK'
  BY <1>4, MintType DEF ExchangeConnect
<1>5. ASSUME NEW s \in Setup, NEW k \in Key, ExchangeRotate(s, k) PROVE CredentialsTypeOK'
  BY <1>5, MintType DEF ExchangeRotate, ActiveKeys
<1>6. ASSUME NEW k \in Key, Activate(k) PROVE CredentialsTypeOK'
  <2>1. audit' \in [Caller -> Seq({"registered", "rotated", "revoked"})]
    BY <1>6, LogType DEF Activate
  <2>2. RevokeReplaced(k) \in [Key -> CredRow]
    BY DEF RevokeReplaced, CredRow
  <2>3. [BlankCred("active") EXCEPT !.caller = cred[k].caller] \in CredRow
    BY DEF BlankCred, CredRow
  <2>4. cred' \in [Key -> CredRow]
    BY <1>6, <2>2, <2>3 DEF Activate
  <2> QED
    BY <1>6, <2>1, <2>4 DEF Activate
<1>7. ASSUME NEW k \in Key, Abort(k) \/ ExpireKey(k) PROVE CredentialsTypeOK'
  BY <1>7, EndedType DEF Abort, ExpireKey
<1>8. ASSUME NEW s \in Setup, ConfirmRevoke(s) PROVE CredentialsTypeOK'
  <2> DEFINE ended == Ended(Withdrawn(setup[s].caller), "expired")
  <2>1. audit' \in [Caller -> Seq({"registered", "rotated", "revoked"})]
    BY <1>8, LogType DEF ConfirmRevoke
  <2>2. ended \in [Key -> CredRow]
    BY EndedType
  <2>3. \A k \in Key : [ended[k] EXCEPT !.status = "revoked"] \in CredRow
    BY <2>2 DEF CredRow
  <2>4. cred' \in [Key -> CredRow]
    <3> HIDE DEF ended
    <3>1. cred' = [k \in Key |-> IF k \in ActiveKeys(setup[s].caller)
                                 THEN [ended[k] EXCEPT !.status = "revoked"] ELSE ended[k]]
      BY <1>8 DEF ConfirmRevoke, ended
    <3> QED
      BY <2>2, <2>3, <3>1
  <2>5. setup' \in [Setup -> SetupRow]
    <3>1. SetStatus(s, "exchanged")
      BY <1>8 DEF ConfirmRevoke, UseUp
    <3> QED
      BY <3>1, StatusType
  <2> QED
    BY <1>8, <2>1, <2>4, <2>5 DEF ConfirmRevoke
<1>9. ASSUME NEW c \in Caller, AgeCaller(c) PROVE CredentialsTypeOK'
  BY <1>9 DEF AgeCaller
<1>10. ASSUME NEW s \in Setup, PruneSetup(s) PROVE CredentialsTypeOK'
  BY <1>10 DEF PruneSetup, BlankSetup, SetupRow, Operation, Flow
<1>11. ASSUME NEW c \in Caller, PruneCaller(c) PROVE CredentialsTypeOK'
  BY <1>11 DEF PruneCaller, BlankSetup, BlankCred, SetupRow, CredRow, Operation, Flow
<1>12. CASE UNCHANGED credentialVars
  BY <1>12 DEF credentialVars
<1> QED
  BY <1>1, <1>2, <1>3, <1>4, <1>5, <1>6, <1>7, <1>8, <1>9, <1>10, <1>11, <1>12 DEF CredentialsNext

LEMMA InitTypes == CredentialsInit => CredentialsTypeOK
<1> SUFFICES ASSUME NEW connected \in SUBSET Caller, NEW key \in [connected -> Key],
                    InitWith(connected, key)
             PROVE  CredentialsTypeOK
  BY DEF CredentialsInit
<1> DEFINE owner(k) == CHOOSE c \in connected : key[c] = k
<1>1. BlankSetup("none") \in SetupRow
  BY DEF BlankSetup, SetupRow, Operation, Flow
<1>2. BlankCred("none") \in CredRow
  BY DEF BlankCred, CredRow
<1>3. ASSUME NEW k \in Key, \E c \in connected : key[c] = k
      PROVE  [BlankCred("active") EXCEPT !.caller = owner(k)] \in CredRow
  <2>1. owner(k) \in Caller
    BY <1>3
  <2> HIDE DEF owner
  <2> QED
    BY <2>1 DEF BlankCred, CredRow
<1>4. setup \in [Setup -> SetupRow] /\ cred \in [Key -> CredRow]
  BY <1>1, <1>2, <1>3 DEF InitWith
<1>5. audit \in [Caller -> Seq({"registered", "rotated", "revoked"})]
  <2>1. /\ <<"registered">> \in Seq({"registered", "rotated", "revoked"})
        /\ << >> \in Seq({"registered", "rotated", "revoked"})
    OBVIOUS
  <2> QED
    BY <2>1 DEF InitWith
<1>6. /\ caller \in [Caller -> {"none", "fresh", "old"}]
      /\ mintedBy \in [Key -> Setup \cup {NoSetup}]
  BY DEF InitWith
<1> QED
  BY <1>4, <1>5, <1>6 DEF CredentialsTypeOK

\* The four tables keep their types (CallerCredentials.CredentialsTypeOK).
THEOREM CredentialTypes == CredentialsSpec => []CredentialsTypeOK
<1>1. CredentialsTypeOK /\ [CredentialsNext]_credentialVars => CredentialsTypeOK'
  BY TypesKept
<1> QED
  BY <1>1, InitTypes, PTL DEF CredentialsSpec

---------------------------------------------------------------------------
(* Who holds which credential                                              *)

\* The parts of KeyInv that read only the credential table.
KeyRules == Replacing /\ OneActive /\ OnePending /\ FirstKey

\* A credential stays, or it ends.
Shrinks(k) ==
    /\ cred'[k].caller = cred[k].caller
    /\ \/ cred'[k].status = cred[k].status /\ cred'[k].replaces = cred[k].replaces
       \/ /\ cred[k].status = "active" /\ cred'[k].status = "revoked"
          /\ cred'[k].replaces = cred[k].replaces
       \/ /\ cred[k].status = "pending" /\ cred'[k].status = "expired"
          /\ cred'[k].replaces = NoKey

LEMMA InitKeys == CredentialsInit => KeyInv
<1> SUFFICES ASSUME NEW connected \in SUBSET Caller, NEW key \in [connected -> Key],
                    \A c, d \in connected : key[c] = key[d] => c = d,
                    InitWith(connected, key), CredentialsInit
             PROVE  KeyInv
  BY DEF CredentialsInit
<1>1. CredentialsTypeOK
  BY InitTypes
<1>2. \A s \in Setup : setup[s].status = "none" /\ setup[s].caller = NoCaller
  BY DEF InitWith, BlankSetup
<1>3. \A c \in connected : caller[c] = "old"
  BY DEF InitWith
<1>4. ASSUME NEW k \in Key
      PROVE  /\ cred[k].replaces = NoKey
             /\ \/ cred[k].status = "none" /\ cred[k].caller = NoCaller
                \/ /\ cred[k].status = "active" /\ cred[k].caller \in connected
                   /\ key[cred[k].caller] = k
  <2>1. CASE \E c \in connected : key[c] = k
    <3> DEFINE owner == CHOOSE c \in connected : key[c] = k
    <3>1. owner \in connected /\ key[owner] = k
      BY <2>1
    <3>2. cred[k] = [BlankCred("active") EXCEPT !.caller = owner]
      BY <2>1 DEF InitWith
    <3> HIDE DEF owner
    <3> QED
      BY <3>1, <3>2 DEF BlankCred
  <2>2. CASE ~ \E c \in connected : key[c] = k
    BY <2>2 DEF InitWith, BlankCred
  <2> QED
    BY <2>1, <2>2
<1>5. Bound /\ OneConnect /\ Unkeyed
  BY <1>2, CredentialsAssumption DEF Bound, OneConnect, Unkeyed
<1>6. Owned
  BY <1>3, <1>4, CredentialsAssumption DEF Owned
<1>7. Replacing /\ OneActive /\ OnePending /\ FirstKey
  BY <1>4 DEF Replacing, OneActive, OnePending, FirstKey
<1> QED
  BY <1>1, <1>5, <1>6, <1>7 DEF KeyInv

\* A step that touches only setup requests, and binds none of them anew.
LEMMA SetupStep ==
    ASSUME KeyInv, CredentialsTypeOK', cred' = cred,
           \A c \in Caller : caller[c] # "none" => caller'[c] # "none",
           \A s \in Setup :
               /\ setup'[s].status = "pending" => setup'[s].name \in Caller
               /\ setup'[s].status = "approved" =>
                      /\ setup[s].status = "approved"
                      /\ setup'[s].caller = setup[s].caller /\ setup'[s].op = setup[s].op
               /\ setup'[s].caller \in Caller =>
                      /\ caller[setup'[s].caller] # "none"
                      /\ setup'[s].op = "connect" =>
                            setup[s].op = "connect" /\ setup[s].caller = setup'[s].caller
    PROVE  KeyInv'
<1>1. Bound'
  BY DEF KeyInv, Bound
<1>2. OneConnect'
  BY DEF KeyInv, OneConnect
<1>3. Unkeyed'
  BY DEF KeyInv, Unkeyed
<1>4. Owned'
  BY DEF KeyInv, Owned
<1>5. Replacing' /\ OneActive' /\ OnePending' /\ FirstKey'
  BY DEF KeyInv, Replacing, OneActive, OnePending, FirstKey
<1> QED
  BY <1>1, <1>2, <1>3, <1>4, <1>5 DEF KeyInv

\* A step that only ends credentials keeps the rules.
LEMMA ShrinkRules ==
    ASSUME KeyInv, CredentialsTypeOK', \A k \in Key : Shrinks(k)
    PROVE  KeyRules'
<1>1. Replacing'
  <2> SUFFICES ASSUME NEW k \in Key, cred'[k].replaces # NoKey
               PROVE  /\ cred'[cred'[k].replaces].status \in {"active", "revoked"}
                      /\ cred'[cred'[k].replaces].caller = cred'[k].caller
    BY DEF Replacing
  <2>1. cred'[k].replaces = cred[k].replaces /\ cred'[k].caller = cred[k].caller
    BY DEF Shrinks
  <2>2. cred[k].replaces \in Key
    BY <2>1 DEF KeyInv, CredentialsTypeOK, CredRow
  <2>3. Shrinks(cred[k].replaces)
    BY <2>2
  <2> QED
    BY <2>1, <2>2, <2>3 DEF KeyInv, Replacing, Shrinks
<1>2. OneActive' /\ OnePending' /\ FirstKey'
  BY DEF KeyInv, OneActive, OnePending, FirstKey, Shrinks
<1> QED
  BY <1>1, <1>2 DEF KeyRules

\* The rest of KeyInv after a step that changes no request but to use it up
\* and gives no credential to a caller.
LEMMA ShrinkKeeps ==
    ASSUME KeyInv, CredentialsTypeOK', caller' = caller,
           \A k \in Key : Shrinks(k),
           \A s \in Setup :
               /\ setup'[s].caller = setup[s].caller /\ setup'[s].op = setup[s].op
               /\ setup'[s].name = setup[s].name
               /\ setup'[s].status \in {setup[s].status, "exchanged"}
    PROVE  KeyInv'
<1>1. Bound'
  BY DEF KeyInv, Bound
<1>2. OneConnect'
  BY DEF KeyInv, OneConnect
<1>3. Unkeyed'
  BY DEF KeyInv, Unkeyed, Shrinks
<1>4. Owned'
  BY DEF KeyInv, Owned, Shrinks
<1> QED
  BY <1>1, <1>2, <1>3, <1>4, ShrinkRules DEF KeyInv, KeyRules

LEMMA EndedShrinks ==
    ASSUME CredentialsTypeOK, NEW K, NEW k \in Key, k \in K => cred[k].status = "pending"
    PROVE  /\ Ended(K, "expired")[k].caller = cred[k].caller
           /\ k \in K => /\ Ended(K, "expired")[k].status = "expired"
                         /\ Ended(K, "expired")[k].replaces = NoKey
           /\ k \notin K => Ended(K, "expired")[k] = cred[k]
<1>1. cred[k] \in CredRow
  BY DEF CredentialsTypeOK
<1> QED
  BY <1>1 DEF Ended, CredRow

LEMMA ApproveKeeps ==
    ASSUME KeyInv, CredentialsTypeOK', NEW s \in Setup, Approve(s)
    PROVE  KeyInv'
<1> DEFINE c == setup[s].name
<1>1. setup[s].status = "pending" /\ c \in Caller
  BY DEF Approve, Approvable, KeyInv, Bound
<1>2. /\ setup'[s].status = "approved" /\ setup'[s].caller = c
      /\ setup'[s].op = setup[s].op
      /\ \A t \in Setup : t # s => setup'[t] = setup[t]
      /\ cred' = cred
  BY DEF Approve, KeyInv, CredentialsTypeOK, SetupRow
<1>3. /\ caller'[c] # "none"
      /\ \A d \in Caller : d # c => caller'[d] = caller[d]
      /\ setup[s].op = "connect" <=> caller[c] = "none"
  BY <1>1 DEF Approve, Approvable, KeyInv, CredentialsTypeOK
<1> HIDE DEF c
<1>4. Bound'
  BY <1>1, <1>2, <1>3 DEF KeyInv, Bound
<1>5. ASSUME setup[s].op = "connect"
      PROVE  /\ \A t \in Setup : setup[t].caller # c
             /\ \A k \in Key : cred[k].caller # c
  BY <1>1, <1>3, <1>5 DEF KeyInv, Bound, Owned
<1>6. OneConnect'
  BY <1>1, <1>2, <1>3, <1>5 DEF KeyInv, OneConnect
<1>7. Unkeyed'
  BY <1>1, <1>2, <1>3, <1>5 DEF KeyInv, Unkeyed
<1>8. Owned'
  BY <1>2, <1>3 DEF KeyInv, Owned
<1>9. Replacing' /\ OneActive' /\ OnePending' /\ FirstKey'
  BY <1>2 DEF KeyInv, Replacing, OneActive, OnePending, FirstKey
<1> QED
  BY <1>4, <1>6, <1>7, <1>8, <1>9 DEF KeyInv

\* An exchange gives the one credential its request is good for.
LEMMA MintKeeps ==
    ASSUME KeyInv, CredentialsTypeOK', NEW s \in Setup, NEW k \in Key,
           NEW old \in Key \cup {NoKey}, NEW expired, Mint(s, k, old, expired),
           setup[s].status = "approved",
           \A p \in expired : p \in Key /\ cred[p].status = "pending",
           IF old = NoKey THEN setup[s].op = "connect"
                          ELSE old \in ActiveKeys(setup[s].caller)
    PROVE  KeyInv'
<1> DEFINE c == setup[s].caller
<1>1. /\ setup'[s].status = "exchanged" /\ caller' = caller
      /\ \A t \in Setup : /\ setup'[t].caller = setup[t].caller
                          /\ setup'[t].op = setup[t].op
                          /\ setup'[t].name = setup[t].name
                          /\ t # s => setup'[t].status = setup[t].status
  BY DEF Mint, UseUp, SetStatus, KeyInv, CredentialsTypeOK, SetupRow
<1>2. /\ cred'[k].status = "pending" /\ cred'[k].caller = c /\ cred'[k].replaces = old
  <2>1. k \in DOMAIN Ended(expired, "expired")
    BY DEF Ended
  <2> QED
    BY <2>1 DEF Mint
<1>3. cred[k].status = "none"
  BY DEF Mint
<1>4. ASSUME NEW j \in Key, j # k
      PROVE  /\ cred'[j].caller = cred[j].caller
             /\ j \in expired => cred'[j].status = "expired" /\ cred'[j].replaces = NoKey
             /\ j \notin expired => cred'[j] = cred[j]
  <2>1. cred'[j] = Ended(expired, "expired")[j]
    BY <1>4 DEF Mint
  <2> QED
    BY <2>1, EndedShrinks DEF KeyInv
<1>5. \A p \in Key : cred[p].status = "pending" /\ cred[p].caller = c => p \in expired
  BY DEF Mint, PendingOf
<1>6. /\ c \in Caller /\ caller[c] # "none"
      /\ old # NoKey => old \in Key /\ cred[old].status = "active" /\ cred[old].caller = c
      /\ old = NoKey => \A j \in Key : cred[j].caller # c
  BY DEF KeyInv, Bound, Unkeyed, ActiveKeys
<1>7. \A p \in expired : cred[p].status = "pending"
  OBVIOUS
<1> HIDE DEF c
<1>8. Bound'
  BY <1>1 DEF KeyInv, Bound
<1>9. OneConnect'
  BY <1>1 DEF KeyInv, OneConnect
<1>10. Unkeyed'
  <2> SUFFICES ASSUME NEW t \in Setup, NEW j \in Key,
                      setup'[t].op = "connect", setup'[t].status = "approved",
                      cred'[j].caller = setup'[t].caller
               PROVE  FALSE
    BY DEF Unkeyed
  <2>1. t # s /\ setup[t].op = "connect" /\ setup[t].status = "approved"
        /\ setup'[t].caller = setup[t].caller
    BY <1>1
  <2>2. j = k /\ setup[t].caller = c
    BY <1>2, <1>4, <2>1 DEF KeyInv, Unkeyed
  <2>3. CASE old = NoKey
    BY <1>6, <2>1, <2>2, <2>3 DEF KeyInv, OneConnect, c
  <2>4. CASE old # NoKey
    BY <1>6, <2>1, <2>2, <2>4 DEF KeyInv, Unkeyed
  <2> QED
    BY <2>3, <2>4
<1>11. Owned'
  BY <1>1, <1>2, <1>4, <1>6 DEF KeyInv, Owned
<1>12. Replacing'
  <2> SUFFICES ASSUME NEW j \in Key, cred'[j].replaces # NoKey
               PROVE  /\ cred'[cred'[j].replaces].status \in {"active", "revoked"}
                      /\ cred'[cred'[j].replaces].caller = cred'[j].caller
    BY DEF Replacing
  <2>1. CASE j = k
    <3>1. old \in Key /\ old # k /\ old \notin expired
      BY <1>2, <1>3, <1>6, <1>7, <2>1
    <3> QED
      BY <1>2, <1>4, <1>6, <2>1, <3>1
  <2>2. CASE j # k
    <3> DEFINE r == cred[j].replaces
    <3>1. j \notin expired /\ cred'[j] = cred[j]
      BY <1>4, <2>2
    <3>2. r \in Key /\ cred[r].status \in {"active", "revoked"} /\ cred[r].caller = cred[j].caller
      BY <3>1 DEF KeyInv, Replacing, CredentialsTypeOK, CredRow
    <3>3. r # k /\ r \notin expired
      BY <1>3, <1>7, <3>2
    <3> QED
      BY <1>4, <3>1, <3>2, <3>3
  <2> QED
    BY <2>1, <2>2
<1>13. OneActive'
  BY <1>2, <1>4 DEF KeyInv, OneActive
<1>14. OnePending'
  BY <1>2, <1>4, <1>5 DEF KeyInv, OnePending
<1>15. FirstKey'
  BY <1>2, <1>4, <1>6 DEF KeyInv, FirstKey
<1> QED
  BY <1>8, <1>9, <1>10, <1>11, <1>12, <1>13, <1>14, <1>15 DEF KeyInv

\* What an activation does to the credential and to the one it replaces.
LEMMA Activation ==
    ASSUME KeyInv, NEW k \in Key, Activate(k)
    PROVE  /\ cred[k].status = "pending" /\ cred[k].caller \in Caller
           /\ cred'[k].status = "active" /\ cred'[k].caller = cred[k].caller
           /\ cred'[k].replaces = NoKey
           /\ \A j \in Key \ {k} :
                 /\ cred'[j].caller = cred[j].caller /\ cred'[j].replaces = cred[j].replaces
                 /\ cred'[j].status = IF j = cred[k].replaces THEN "revoked" ELSE cred[j].status
           /\ cred[k].replaces # NoKey =>
                 /\ cred[k].replaces \in Key \ {k}
                 /\ cred[cred[k].replaces].status = "active"
                 /\ cred[cred[k].replaces].caller = cred[k].caller
<1> DEFINE old == cred[k].replaces
<1>1. cred[k].status = "pending" /\ cred[k].caller \in Caller /\ old \in Key \cup {NoKey}
  BY DEF Activate, Verified, Pending, KeyInv, Owned, CredentialsTypeOK, CredRow
<1>2. old # NoKey => /\ old \in Key \ {k} /\ cred[old].status = "active"
                     /\ cred[old].caller = cred[k].caller
  BY <1>1 DEF Activate, Verified, Pending, KeyInv, Replacing
<1>3. cred' = [RevokeReplaced(k) EXCEPT ![k] =
                  [BlankCred("active") EXCEPT !.caller = cred[k].caller]]
  BY DEF Activate
<1>4. /\ DOMAIN RevokeReplaced(k) = Key
      /\ \A j \in Key : j # old => RevokeReplaced(k)[j] = cred[j]
      /\ old \in Key => RevokeReplaced(k)[old] = [cred[old] EXCEPT !.status = "revoked"]
  BY CredentialsAssumption DEF RevokeReplaced, KeyInv, CredentialsTypeOK
<1>5. cred'[k] = [BlankCred("active") EXCEPT !.caller = cred[k].caller]
  BY <1>3, <1>4
<1>6. cred'[k].status = "active" /\ cred'[k].caller = cred[k].caller /\ cred'[k].replaces = NoKey
  BY <1>5 DEF BlankCred
<1>7. ASSUME NEW j \in Key \ {k}
      PROVE  /\ cred'[j].caller = cred[j].caller /\ cred'[j].replaces = cred[j].replaces
             /\ cred'[j].status = IF j = old THEN "revoked" ELSE cred[j].status
  <2>1. cred'[j] = RevokeReplaced(k)[j]
    BY <1>3, <1>4
  <2>2. cred[j] \in CredRow
    BY DEF KeyInv, CredentialsTypeOK
  <2>3. CASE j = old
    <3>1. cred'[j] = [cred[j] EXCEPT !.status = "revoked"]
      BY <1>4, <2>1, <2>3
    <3> QED
      BY <2>2, <2>3, <3>1 DEF CredRow
  <2>4. CASE j # old
    BY <1>4, <2>1, <2>4
  <2> QED
    BY <2>3, <2>4
<1> QED
  BY <1>1, <1>2, <1>6, <1>7

LEMMA ActivateKeeps ==
    ASSUME KeyInv, CredentialsTypeOK', NEW k \in Key, Activate(k)
    PROVE  KeyInv'
<1>1. setup' = setup /\ caller' = caller
  BY DEF Activate
<1>2. Bound' /\ OneConnect'
  BY <1>1 DEF KeyInv, Bound, OneConnect
<1>3. \A j \in Key : cred'[j].caller = cred[j].caller
  BY Activation
<1>4. Unkeyed'
  BY <1>1, <1>3 DEF KeyInv, Unkeyed
<1>5. Owned'
  <2>1. ASSUME NEW j \in Key, cred'[j].status \in {"pending", "active", "revoked"}
        PROVE  cred[j].caller \in Caller
    <3>1. CASE j = k
      BY <3>1, Activation
    <3>2. CASE j # k
      <4>1. cred[j].status \in {"pending", "active", "revoked"}
        BY <2>1, <3>2, Activation, CredentialsAssumption
      <4> QED
        BY <4>1 DEF KeyInv, Owned
    <3> QED
      BY <3>1, <3>2
  <2> QED
    BY <1>1, <1>3, <2>1, Activation DEF KeyInv, Owned
<1>6. Replacing'
  <2> SUFFICES ASSUME NEW j \in Key, cred'[j].replaces # NoKey
               PROVE  /\ cred'[cred'[j].replaces].status \in {"active", "revoked"}
                      /\ cred'[cred'[j].replaces].caller = cred'[j].caller
    BY DEF Replacing
  <2> DEFINE r == cred[j].replaces
  <2>1. j # k /\ cred'[j].replaces = r /\ cred'[j].caller = cred[j].caller
    BY Activation
  <2>2. r \in Key /\ cred[r].status \in {"active", "revoked"} /\ cred[r].caller = cred[j].caller
    BY <2>1 DEF KeyInv, Replacing, CredentialsTypeOK, CredRow
  <2>3. r # k
    BY <2>2, Activation
  <2> HIDE DEF r
  <2> QED
    BY <2>1, <2>2, <2>3, Activation
<1>7. OneActive'
  BY Activation DEF KeyInv, OneActive, FirstKey
<1>8. OnePending' /\ FirstKey'
  BY Activation DEF KeyInv, OnePending, FirstKey
<1> QED
  BY <1>2, <1>4, <1>5, <1>6, <1>7, <1>8 DEF KeyInv

LEMMA EndKeeps ==
    ASSUME KeyInv, CredentialsTypeOK', NEW k \in Key, Abort(k) \/ ExpireKey(k)
    PROVE  KeyInv'
<1>1. cred' = Ended({k}, "expired") /\ cred[k].status = "pending"
      /\ setup' = setup /\ caller' = caller
  BY DEF Abort, ExpireKey, Verified, Pending
<1>2. \A j \in Key : Shrinks(j)
  BY <1>1, EndedShrinks DEF Shrinks, KeyInv
<1> QED
  BY <1>1, <1>2, ShrinkKeeps

\* What a revocation does to the credentials of its caller and to others.
LEMMA Revocation ==
    ASSUME KeyInv, NEW s \in Setup, ConfirmRevoke(s), NEW k \in Key
    PROVE  /\ Shrinks(k)
           /\ cred[k].caller = setup[s].caller =>
                 /\ cred[k].status = "active" => cred'[k].status = "revoked"
                 /\ cred[k].status = "pending" => cred'[k].status = "expired"
           /\ cred[k].caller # setup[s].caller => cred'[k].status = cred[k].status
<1> DEFINE c == setup[s].caller
           ended == Ended(Withdrawn(c), "expired")
<1>1. \A j \in Key : j \in Withdrawn(c) <=> cred[j].status = "pending" /\ cred[j].caller = c
  BY DEF Withdrawn, PendingOf
<1>2. /\ ended[k].caller = cred[k].caller
      /\ k \in Withdrawn(c) => ended[k].status = "expired" /\ ended[k].replaces = NoKey
      /\ k \notin Withdrawn(c) => ended[k] = cred[k]
  BY <1>1, EndedShrinks DEF KeyInv
<1>3. cred'[k] = IF k \in ActiveKeys(c) THEN [ended[k] EXCEPT !.status = "revoked"] ELSE ended[k]
  BY DEF ConfirmRevoke
<1>4. k \in ActiveKeys(c) <=> cred[k].status = "active" /\ cred[k].caller = c
  BY DEF ActiveKeys
<1>5. cred[k] \in CredRow
  BY DEF KeyInv, CredentialsTypeOK
<1> HIDE DEF ended, c
<1>6. CASE k \in ActiveKeys(c)
  <2>1. cred'[k] = [cred[k] EXCEPT !.status = "revoked"]
    BY <1>1, <1>2, <1>3, <1>4, <1>6
  <2>2. cred'[k].status = "revoked" /\ cred'[k].caller = cred[k].caller
        /\ cred'[k].replaces = cred[k].replaces
    BY <1>5, <2>1 DEF CredRow
  <2> QED
    BY <1>4, <1>6, <2>2 DEF Shrinks, c
<1>7. CASE k \notin ActiveKeys(c)
  BY <1>1, <1>2, <1>3, <1>4, <1>7 DEF Shrinks, c
<1> QED
  BY <1>6, <1>7

LEMMA ConfirmRevokeKeeps ==
    ASSUME KeyInv, CredentialsTypeOK', NEW s \in Setup, ConfirmRevoke(s)
    PROVE  KeyInv'
<1>1. caller' = caller /\ setup' = [setup EXCEPT ![s].status = "exchanged"]
  BY DEF ConfirmRevoke, UseUp, SetStatus
<1>2. \A t \in Setup :
        /\ setup'[t].caller = setup[t].caller /\ setup'[t].op = setup[t].op
        /\ setup'[t].name = setup[t].name
        /\ setup'[t].status \in {setup[t].status, "exchanged"}
  BY <1>1 DEF KeyInv, CredentialsTypeOK, SetupRow
<1> QED
  BY <1>1, <1>2, Revocation, ShrinkKeeps

\* A deleted caller takes its credentials and requests with it.
LEMMA PruneCallerKeeps ==
    ASSUME KeyInv, CredentialsTypeOK', NEW c \in Caller, PruneCaller(c)
    PROVE  KeyInv'
<1>1. \A k \in Key :
        IF cred[k].caller = c
        THEN cred'[k].status = "gone" /\ cred'[k].caller = NoCaller /\ cred'[k].replaces = NoKey
        ELSE cred'[k] = cred[k]
  BY DEF PruneCaller, BlankCred
<1>2. \A s \in Setup :
        IF setup[s].caller = c
        THEN setup'[s].status = "pruned" /\ setup'[s].caller = NoCaller
        ELSE setup'[s] = setup[s]
  BY DEF PruneCaller, BlankSetup
<1>3. \A d \in Caller : d # c => caller'[d] = caller[d]
  BY DEF PruneCaller, KeyInv, CredentialsTypeOK
<1>4. NoCaller \notin Caller
  BY CredentialsAssumption
<1>5. Bound'
  BY <1>2, <1>3, <1>4 DEF KeyInv, Bound
<1>6. OneConnect'
  BY <1>2, <1>4 DEF KeyInv, OneConnect
<1>7. Unkeyed'
  BY <1>1, <1>2, <1>4 DEF KeyInv, Unkeyed, Bound
<1>8. Owned'
  <2> SUFFICES ASSUME NEW k \in Key
               PROVE  /\ cred'[k].status \in {"pending", "active", "revoked"} =>
                             cred'[k].caller \in Caller
                      /\ cred'[k].caller \in Caller => caller'[cred'[k].caller] # "none"
                      /\ cred'[k].status = "none" => cred'[k].caller \notin Caller
    BY DEF Owned
  <2>1. CASE cred[k].caller = c
    BY <1>1, <1>4, <2>1
  <2>2. CASE cred[k].caller # c
    BY <1>1, <1>3, <2>2 DEF KeyInv, Owned
  <2> QED
    BY <2>1, <2>2
<1>9. Replacing'
  <2> SUFFICES ASSUME NEW j \in Key, cred'[j].replaces # NoKey
               PROVE  /\ cred'[cred'[j].replaces].status \in {"active", "revoked"}
                      /\ cred'[cred'[j].replaces].caller = cred'[j].caller
    BY DEF Replacing
  <2> DEFINE r == cred[j].replaces
  <2>1. cred'[j] = cred[j] /\ cred[j].caller # c
    BY <1>1
  <2>2. r \in Key /\ cred[r].status \in {"active", "revoked"} /\ cred[r].caller = cred[j].caller
    BY <2>1 DEF KeyInv, Replacing, CredentialsTypeOK, CredRow
  <2> QED
    BY <1>1, <2>1, <2>2
<1>10. OneActive' /\ OnePending' /\ FirstKey'
  BY <1>1 DEF KeyInv, OneActive, OnePending, FirstKey
<1> QED
  BY <1>5, <1>6, <1>7, <1>8, <1>9, <1>10 DEF KeyInv

LEMMA KeysKept ==
    ASSUME KeyInv, [CredentialsNext]_credentialVars
    PROVE  KeyInv'
<1>1. CredentialsTypeOK'
  BY TypesKept DEF KeyInv
<1>2. ASSUME NEW s \in Setup, NEW op \in Operation, NEW flow \in Flow, NEW c \in Caller,
             StartSetup(s, op, flow, c)
      PROVE  KeyInv'
  <2>1. /\ setup'[s].name = c /\ setup'[s].status = "pending" /\ setup'[s].op = op
        /\ setup'[s].caller = IF op = "connect" THEN NoCaller ELSE c
        /\ \A t \in Setup : t # s => setup'[t] = setup[t]
    BY <1>2 DEF StartSetup, KeyInv, CredentialsTypeOK
  <2>2. op # "connect" => caller[c] # "none"
    BY <1>2 DEF StartSetup
  <2>3. cred' = cred /\ caller' = caller
    BY <1>2 DEF StartSetup
  <2>4. \A t \in Setup :
           /\ setup'[t].status = "pending" => setup'[t].name \in Caller
           /\ setup'[t].status = "approved" =>
                  /\ setup[t].status = "approved"
                  /\ setup'[t].caller = setup[t].caller /\ setup'[t].op = setup[t].op
           /\ setup'[t].caller \in Caller =>
                  /\ caller[setup'[t].caller] # "none"
                  /\ setup'[t].op = "connect" =>
                        setup[t].op = "connect" /\ setup[t].caller = setup'[t].caller
    BY <2>1, <2>2, CredentialsAssumption DEF KeyInv, Bound
  <2> QED
    BY <1>1, <2>3, <2>4, SetupStep
<1>3. ASSUME NEW s \in Setup, Approve(s) PROVE KeyInv'
  BY <1>1, <1>3, ApproveKeeps
<1>4. ASSUME NEW s \in Setup, Deny(s) \/ DevicePoll(s) \/ MarkExpired(s) \/ Lapse(s) \/ Age(s)
      PROVE  KeyInv'
  <2>1. cred' = cred /\ caller' = caller
    BY <1>4 DEF Deny, DevicePoll, MarkExpired, Lapse, Age
  <2>2. \A t \in Setup :
           /\ setup'[t].caller = setup[t].caller /\ setup'[t].op = setup[t].op
           /\ setup'[t].name = setup[t].name
           /\ setup'[t].status \in {setup[t].status, "denied", "expired"}
    <3>1. \A t \in Setup : setup[t] \in SetupRow
      BY DEF KeyInv, CredentialsTypeOK
    <3>2. CASE Deny(s)
      BY <3>1, <3>2 DEF Deny, SetStatus, SetupRow, KeyInv, CredentialsTypeOK
    <3>3. CASE DevicePoll(s)
      BY <3>1, <3>3 DEF DevicePoll, SetupRow, KeyInv, CredentialsTypeOK
    <3>4. CASE MarkExpired(s)
      BY <3>1, <3>4 DEF MarkExpired, SetupRow, KeyInv, CredentialsTypeOK
    <3>5. CASE Lapse(s) \/ Age(s)
      BY <3>1, <3>5 DEF Lapse, Age, SetupRow, KeyInv, CredentialsTypeOK
    <3> QED
      BY <1>4, <3>2, <3>3, <3>4, <3>5
  <2> QED
    BY <1>1, <2>1, <2>2, SetupStep DEF KeyInv, Bound
<1>5. ASSUME NEW s \in Setup, NEW k \in Key, ExchangeConnect(s, k) PROVE KeyInv'
  BY <1>1, <1>5, MintKeeps DEF ExchangeConnect, Exchangeable
<1>6. ASSUME NEW s \in Setup, NEW k \in Key, ExchangeRotate(s, k) PROVE KeyInv'
  <2> DEFINE c == setup[s].caller
             expired == {p \in PendingOf(c) : KeyLapsed(p) /\ cred[p].replaces # NoKey}
  <2>1. PICK old \in ActiveKeys(c) : Mint(s, k, old, expired)
    BY <1>6 DEF ExchangeRotate
  <2>2. \A p \in expired : p \in Key /\ cred[p].status = "pending"
    BY DEF PendingOf
  <2>3. old \in Key /\ old # NoKey
    BY CredentialsAssumption DEF ActiveKeys
  <2>4. setup[s].status = "approved"
    BY <1>6 DEF ExchangeRotate, Exchangeable
  <2> HIDE DEF expired
  <2> QED
    BY <1>1, <2>1, <2>2, <2>3, <2>4, MintKeeps
<1>7. ASSUME NEW k \in Key, Activate(k) PROVE KeyInv'
  BY <1>1, <1>7, ActivateKeeps
<1>8. ASSUME NEW k \in Key, Abort(k) \/ ExpireKey(k) PROVE KeyInv'
  BY <1>1, <1>8, EndKeeps
<1>9. ASSUME NEW s \in Setup, ConfirmRevoke(s) PROVE KeyInv'
  BY <1>1, <1>9, ConfirmRevokeKeeps
<1>10. ASSUME NEW c \in Caller, AgeCaller(c) PROVE KeyInv'
  <2>1. cred' = cred /\ setup' = setup
        /\ \A d \in Caller : caller[d] # "none" => caller'[d] # "none"
    BY <1>10 DEF AgeCaller, KeyInv, CredentialsTypeOK
  <2> QED
    BY <1>1, <2>1, SetupStep DEF KeyInv, Bound
<1>11. ASSUME NEW s \in Setup, PruneSetup(s) PROVE KeyInv'
  <2>1. cred' = cred /\ caller' = caller
    BY <1>11 DEF PruneSetup
  <2>2. /\ \A t \in Setup : t # s => setup'[t] = setup[t]
        /\ setup'[s].status = "pruned" /\ setup'[s].caller = NoCaller
    BY <1>11 DEF PruneSetup, BlankSetup, KeyInv, CredentialsTypeOK
  <2> QED
    BY <1>1, <2>1, <2>2, CredentialsAssumption, SetupStep DEF KeyInv, Bound
<1>12. ASSUME NEW c \in Caller, PruneCaller(c) PROVE KeyInv'
  BY <1>1, <1>12, PruneCallerKeeps
<1>13. CASE UNCHANGED credentialVars
  BY <1>1, <1>13, SetupStep DEF credentialVars, KeyInv, Bound
<1> QED
  BY <1>2, <1>3, <1>4, <1>5, <1>6, <1>7, <1>8, <1>9, <1>10, <1>11, <1>12, <1>13 DEF CredentialsNext

LEMMA AlwaysKeyInv == CredentialsSpec => []KeyInv
<1>1. KeyInv /\ [CredentialsNext]_credentialVars => KeyInv'
  BY KeysKept
<1> QED
  BY <1>1, InitKeys, PTL DEF CredentialsSpec

LEMMA AtMostOne ==
    ASSUME NEW S, \A x, y \in S : x = y
    PROVE  Cardinality(S) <= 1
<1>1. CASE S = {}
  BY <1>1, FS_EmptySet
<1>2. CASE S # {}
  <2>1. PICK x \in S : S = {x}
    BY <1>2
  <2> QED
    BY <2>1, FS_Singleton
<1> QED
  BY <1>1, <1>2

\* No activation ever meets a unique index it violates, whatever requests and
\* finalizations interleave (CallerCredentials.ActivationFits).
THEOREM ActivationsFit == CredentialsSpec => []ActivationFits
<1>1. ASSUME KeyInv PROVE ActivationFits
  <2> SUFFICES ASSUME NEW c \in Caller
               PROVE  /\ Cardinality(ActiveKeys(c)) <= 1
                      /\ Cardinality(PendingOf(c)) <= 1
                      /\ \A k \in PendingOf(c) : cred[k].replaces = NoKey => ActiveKeys(c) = {}
    BY DEF ActivationFits
  <2>1. \A j, k \in ActiveKeys(c) : j = k
    BY <1>1 DEF KeyInv, OneActive, ActiveKeys
  <2>2. \A j, k \in PendingOf(c) : j = k
    BY <1>1 DEF KeyInv, OnePending, PendingOf
  <2>3. \A k \in PendingOf(c) : cred[k].replaces = NoKey => ActiveKeys(c) = {}
    BY <1>1 DEF KeyInv, FirstKey, PendingOf, ActiveKeys
  <2> QED
    BY <2>1, <2>2, <2>3, AtMostOne
<1> QED
  BY <1>1, AlwaysKeyInv, PTL

---------------------------------------------------------------------------
(* Approvals, the audit log and the lifecycle                              *)

\* A request that is used up stays so until it is pruned.
LEMMA UsedUp ==
    ASSUME CredentialsTypeOK, CredentialsNext, NEW s \in Setup,
           setup[s].status \in {"exchanged", "pruned"}
    PROVE  setup'[s].status \in {"exchanged", "pruned"}
<1> USE DEF CredentialsTypeOK
<1>1. ASSUME NEW t \in Setup, NEW op \in Operation, NEW flow \in Flow, NEW c \in Caller,
             StartSetup(t, op, flow, c)
      PROVE  setup'[s] = setup[s]
  BY <1>1 DEF StartSetup
<1>2. ASSUME NEW t \in Setup,
             Approve(t) \/ Deny(t) \/ DevicePoll(t) \/ MarkExpired(t)
      PROVE  setup'[s] = setup[s]
  BY <1>2 DEF Approve, Approvable, Deny, SetStatus, DevicePoll, MarkExpired
<1>3. ASSUME NEW t \in Setup, Lapse(t) \/ Age(t) PROVE setup'[s].status = setup[s].status
  <2>1. CASE Lapse(t)
    BY <2>1 DEF Lapse, SetupRow
  <2>2. CASE Age(t)
    BY <2>2 DEF Age, SetupRow
  <2> QED
    BY <1>3, <2>1, <2>2
<1>4. ASSUME NEW t \in Setup, UseUp(t) PROVE setup'[s].status \in {setup[s].status, "exchanged"}
  BY <1>4 DEF UseUp, SetStatus, SetupRow
<1>5. ASSUME NEW t \in Setup, PruneSetup(t) PROVE setup'[s].status \in {setup[s].status, "pruned"}
  BY <1>5 DEF PruneSetup, BlankSetup
<1>6. ASSUME NEW c \in Caller, PruneCaller(c) PROVE setup'[s].status \in {setup[s].status, "pruned"}
  BY <1>6 DEF PruneCaller, BlankSetup
<1>7. ASSUME NEW t \in Setup, NEW k \in Key,
             ExchangeConnect(t, k) \/ ExchangeRotate(t, k) \/ ConfirmRevoke(t)
      PROVE  UseUp(t)
  BY <1>7 DEF ExchangeConnect, ExchangeRotate, ConfirmRevoke, Mint
<1>8. ASSUME NEW k \in Key, Activate(k) \/ Abort(k) \/ ExpireKey(k) PROVE setup' = setup
  BY <1>8 DEF Activate, Abort, ExpireKey
<1>9. ASSUME NEW c \in Caller, AgeCaller(c) PROVE setup' = setup
  BY <1>9 DEF AgeCaller
<1>10. ASSUME NEW t \in Setup, ConfirmRevoke(t) PROVE UseUp(t)
  BY <1>10 DEF ConfirmRevoke
<1> QED
  BY <1>1, <1>2, <1>3, <1>4, <1>5, <1>6, <1>7, <1>8, <1>9, <1>10 DEF CredentialsNext

\* A mint is the only step that records where a key came from, and its request
\* is approved before it and used up after it.
LEMMA MintRecorded ==
    ASSUME CredentialsTypeOK, CredentialsNext
    PROVE  \/ mintedBy' = mintedBy
           \/ \E s \in Setup, k \in Key :
                /\ mintedBy' = [mintedBy EXCEPT ![k] = s]
                /\ setup[s].status = "approved" /\ setup'[s].status = "exchanged"
<1>1. ASSUME NEW s \in Setup, NEW k \in Key, ExchangeConnect(s, k) \/ ExchangeRotate(s, k)
      PROVE  /\ mintedBy' = [mintedBy EXCEPT ![k] = s]
             /\ setup[s].status = "approved" /\ setup'[s].status = "exchanged"
  <2>1. setup' = [setup EXCEPT ![s].status = "exchanged"]
    BY <1>1 DEF ExchangeConnect, ExchangeRotate, Mint, UseUp, SetStatus
  <2>2. mintedBy' = [mintedBy EXCEPT ![k] = s] /\ setup[s].status = "approved"
    BY <1>1 DEF ExchangeConnect, ExchangeRotate, Exchangeable, Mint
  <2> QED
    BY <2>1, <2>2 DEF CredentialsTypeOK, SetupRow
<1> QED
  BY <1>1 DEF CredentialsNext, StartSetup, Approve, Deny, DevicePoll, MarkExpired, Activate,
              Abort, ExpireKey, ConfirmRevoke, Lapse, Age, AgeCaller, PruneSetup, PruneCaller

\* Every credential came from a person's approval of its own, which is used up
\* (CallerCredentials.OneKeyPerApproval).
THEOREM KeysFromApprovals == CredentialsSpec => []OneKeyPerApproval
<1>1. CredentialsInit => OneKeyPerApproval
  BY DEF CredentialsInit, InitWith, OneKeyPerApproval
<1>2. ASSUME CredentialsTypeOK, OneKeyPerApproval, [CredentialsNext]_credentialVars
      PROVE  OneKeyPerApproval'
  <2>1. CASE UNCHANGED credentialVars
    BY <1>2, <2>1 DEF credentialVars, OneKeyPerApproval
  <2>2. CASE CredentialsNext
    <3>1. \A k \in Key : mintedBy[k] \in Setup \cup {NoSetup}
      BY <1>2 DEF CredentialsTypeOK
    <3>2. CASE mintedBy' = mintedBy
      BY <1>2, <2>2, <3>1, <3>2, UsedUp DEF OneKeyPerApproval
    <3>3. ASSUME NEW s \in Setup, NEW k \in Key, mintedBy' = [mintedBy EXCEPT ![k] = s],
                 setup[s].status = "approved", setup'[s].status = "exchanged"
          PROVE  OneKeyPerApproval'
      <4>1. mintedBy'[k] = s /\ \A j \in Key : j # k => mintedBy'[j] = mintedBy[j]
        BY <1>2, <3>3 DEF CredentialsTypeOK
      <4>2. \A j \in Key : mintedBy[j] # s
        BY <1>2, <3>3, CredentialsAssumption DEF OneKeyPerApproval
      <4>3. ASSUME NEW j \in Key, mintedBy'[j] # NoSetup
            PROVE  setup'[mintedBy'[j]].status \in {"exchanged", "pruned"}
        <5>1. CASE j = k
          BY <3>3, <4>1, <5>1
        <5>2. CASE j # k
          <6>1. mintedBy[j] \in Setup /\ mintedBy'[j] = mintedBy[j]
            BY <3>1, <4>1, <4>3, <5>2
          <6>2. setup[mintedBy[j]].status \in {"exchanged", "pruned"}
            BY <1>2, <4>3, <6>1 DEF OneKeyPerApproval
          <6> QED
            BY <1>2, <2>2, <6>1, <6>2, UsedUp
        <5> QED
          BY <5>1, <5>2
      <4>4. ASSUME NEW i \in Key, NEW j \in Key, mintedBy'[i] # NoSetup, mintedBy'[j] = mintedBy'[i]
            PROVE  j = i
        BY <1>2, <4>1, <4>2, <4>4 DEF OneKeyPerApproval
      <4> QED
        BY <4>3, <4>4 DEF OneKeyPerApproval
    <3> QED
      BY <1>2, <2>2, <3>2, <3>3, MintRecorded
  <2> QED
    BY <1>2, <2>1, <2>2
<1>3. CredentialsTypeOK /\ OneKeyPerApproval /\ [CredentialsNext]_credentialVars
         => OneKeyPerApproval'
  BY <1>2
<1> QED
  BY <1>1, <1>3, CredentialTypes, PTL DEF CredentialsSpec

---------------------------------------------------------------------------
(* The audit log                                                           *)

Last(c) == audit[c][Len(audit[c])]

\* One event more in the log of a caller, and none in another's.
LEMMA Logged ==
    ASSUME CredentialsTypeOK, NEW c \in Caller, NEW event, Log(c, event)
    PROVE  /\ audit'[c] # <<>> /\ audit'[c][Len(audit'[c])] = event
           /\ \A d \in Caller : d # c => audit'[d] = audit[d]
<1> DEFINE Event == {"registered", "rotated", "revoked"}
<1>1. audit[c] \in Seq(Event) /\ audit'[c] = Append(audit[c], event)
      /\ \A d \in Caller : d # c => audit'[d] = audit[d]
  BY DEF Log, CredentialsTypeOK
<1>2. Len(audit[c]) \in Nat
  BY <1>1
<1> HIDE DEF Event
<1>3. Len(audit'[c]) = Len(audit[c]) + 1
  BY <1>1
<1>4. audit'[c][Len(audit[c]) + 1] = event
  BY <1>1, <1>2
<1>5. audit'[c] # <<>>
  BY <1>2, <1>3
<1> QED
  BY <1>1, <1>3, <1>4, <1>5

\* The keys of a caller after a step, when none of them changed.
LEMMA SameKeys ==
    ASSUME NEW c,
           \A k \in Key : (cred'[k].status = "active" /\ cred'[k].caller = c)
                           <=> (cred[k].status = "active" /\ cred[k].caller = c)
    PROVE  ActiveKeys(c)' = ActiveKeys(c)
BY DEF ActiveKeys

\* A mint changes no working key.
LEMMA MintKeepsActive ==
    ASSUME KeyInv, NEW s, NEW k \in Key, NEW old, NEW expired,
           Mint(s, k, old, expired),
           \A p \in expired : p \in Key /\ cred[p].status = "pending", NEW c
    PROVE  ActiveKeys(c)' = ActiveKeys(c)
<1>1. k \in DOMAIN Ended(expired, "expired") /\ cred[k].status = "none"
  BY DEF Ended, Mint
<1>2. cred'[k].status = "pending"
  BY <1>1 DEF Mint
<1>3. ASSUME NEW j \in Key, j # k
      PROVE  (cred'[j].status = "active" /\ cred'[j].caller = c)
                 <=> (cred[j].status = "active" /\ cred[j].caller = c)
  <2>1. cred'[j] = Ended(expired, "expired")[j]
    BY <1>3 DEF Mint
  <2> QED
    BY <2>1, EndedShrinks DEF KeyInv
<1> QED
  BY <1>1, <1>2, <1>3, SameKeys

\* The log and the keys of one caller agree.
Tells(c) ==
    /\ ActiveKeys(c) # {} <=> audit[c] # <<>> /\ Last(c) # "revoked"
    /\ caller[c] = "none" => audit[c] = <<>>

LEMMA TellsKeys == AuditTellsKeys <=> \A c \in Caller : Tells(c)
BY DEF AuditTellsKeys, Tells, Last

\* A step that changes neither the log nor a working key.
LEMMA QuietTells ==
    ASSUME NEW c, Tells(c), audit'[c] = audit[c], ActiveKeys(c)' = ActiveKeys(c),
           caller'[c] = "none" => caller[c] = "none" \/ audit[c] = <<>>
    PROVE  Tells(c)'
BY DEF Tells, Last

LEMMA InitTells == CredentialsInit => \A c \in Caller : Tells(c)
<1> SUFFICES ASSUME NEW connected \in SUBSET Caller, NEW key \in [connected -> Key],
                    \A c, d \in connected : key[c] = key[d] => c = d,
                    InitWith(connected, key), NEW c \in Caller
             PROVE  Tells(c)
  BY DEF CredentialsInit
<1>1. CASE c \in connected
  <2> DEFINE k == key[c]
             owner == CHOOSE d \in connected : key[d] = k
  <2>1. k \in Key /\ owner = c
    BY <1>1
  <2>2. cred[k] = [BlankCred("active") EXCEPT !.caller = owner]
    BY <1>1, <2>1 DEF InitWith
  <2> HIDE DEF owner
  <2>3. cred[k].status = "active" /\ cred[k].caller = c
    BY <2>1, <2>2 DEF BlankCred
  <2>4. audit[c] = <<"registered">> /\ caller[c] = "old"
    BY <1>1 DEF InitWith
  <2>5. audit[c] # <<>> /\ Last(c) = "registered"
    BY <2>4 DEF Last
  <2> QED
    BY <2>1, <2>3, <2>4, <2>5 DEF Tells, ActiveKeys
<1>2. CASE c \notin connected
  <2>1. audit[c] = <<>>
    BY <1>2 DEF InitWith
  <2>2. ASSUME NEW k \in Key, cred[k].status = "active" PROVE cred[k].caller # c
    <3>1. CASE \E d \in connected : key[d] = k
      <4> DEFINE owner == CHOOSE d \in connected : key[d] = k
      <4>1. owner \in connected
        BY <3>1
      <4>2. cred[k] = [BlankCred("active") EXCEPT !.caller = owner]
        BY <3>1 DEF InitWith
      <4> HIDE DEF owner
      <4> QED
        BY <1>2, <4>1, <4>2 DEF BlankCred
    <3>2. CASE ~ \E d \in connected : key[d] = k
      BY <2>2, <3>2 DEF InitWith, BlankCred
    <3> QED
      BY <3>1, <3>2
  <2> QED
    BY <2>1, <2>2 DEF Tells, ActiveKeys
<1> QED
  BY <1>1, <1>2

LEMMA TellsKept ==
    ASSUME KeyInv, \A c \in Caller : Tells(c), CredentialsNext, NEW c \in Caller
    PROVE  Tells(c)'
<1>1. ASSUME cred' = cred, audit' = audit, caller'[c] = "none" => caller[c] = "none"
      PROVE  Tells(c)'
  BY <1>1, SameKeys, QuietTells
<1>2. ASSUME NEW s \in Setup, NEW op \in Operation, NEW flow \in Flow, NEW d \in Caller,
             StartSetup(s, op, flow, d)
      PROVE  Tells(c)'
  BY <1>1, <1>2 DEF StartSetup
<1>3. ASSUME NEW s \in Setup, Approve(s) PROVE Tells(c)'
  BY <1>1, <1>3 DEF Approve, KeyInv, CredentialsTypeOK
<1>4. ASSUME NEW s \in Setup,
             Deny(s) \/ DevicePoll(s) \/ MarkExpired(s) \/ Lapse(s) \/ Age(s) \/ PruneSetup(s)
      PROVE  Tells(c)'
  BY <1>1, <1>4 DEF Deny, DevicePoll, MarkExpired, Lapse, Age, PruneSetup
<1>5. ASSUME NEW d \in Caller, AgeCaller(d) PROVE Tells(c)'
  BY <1>1, <1>5 DEF AgeCaller, KeyInv, CredentialsTypeOK
<1>6. ASSUME NEW s \in Setup, NEW k \in Key, ExchangeConnect(s, k) PROVE Tells(c)'
  <2>1. Mint(s, k, NoKey, {})
    BY <1>6 DEF ExchangeConnect
  <2>2. ActiveKeys(c)' = ActiveKeys(c) /\ audit' = audit /\ caller' = caller
    BY <2>1, MintKeepsActive DEF Mint
  <2> QED
    BY <2>2, QuietTells
<1>7. ASSUME NEW s \in Setup, NEW k \in Key, ExchangeRotate(s, k) PROVE Tells(c)'
  <2> DEFINE expired == {p \in PendingOf(setup[s].caller) : KeyLapsed(p) /\ cred[p].replaces # NoKey}
  <2>1. PICK old : Mint(s, k, old, expired)
    BY <1>7 DEF ExchangeRotate
  <2>2. \A p \in expired : p \in Key /\ cred[p].status = "pending"
    BY DEF PendingOf
  <2> HIDE DEF expired
  <2>3. ActiveKeys(c)' = ActiveKeys(c) /\ audit' = audit /\ caller' = caller
    BY <2>1, <2>2, MintKeepsActive DEF Mint
  <2> QED
    BY <2>3, QuietTells
<1>8. ASSUME NEW k \in Key, Activate(k) PROVE Tells(c)'
  <2> DEFINE d == cred[k].caller
             event == IF cred[k].replaces = NoKey THEN "registered" ELSE "rotated"
  <2>1. d \in Caller /\ Log(d, event) /\ caller' = caller /\ event # "revoked"
    BY <1>8, Activation DEF Activate
  <2>2. CASE c = d
    <3>1. audit'[c] # <<>> /\ audit'[c][Len(audit'[c])] # "revoked"
      BY <2>1, <2>2, Logged DEF KeyInv
    <3>2. k \in ActiveKeys(c)' /\ caller[c] # "none"
      BY <1>8, <2>2, Activation DEF ActiveKeys, KeyInv, Owned
    <3> QED
      BY <2>1, <3>1, <3>2 DEF Tells, Last
  <2>3. CASE c # d
    <3>1. audit'[c] = audit[c]
      BY <2>1, <2>3, Logged DEF KeyInv
    <3>2. \A j \in Key : (cred'[j].status = "active" /\ cred'[j].caller = c)
                            <=> (cred[j].status = "active" /\ cred[j].caller = c)
      BY <1>8, <2>3, Activation, CredentialsAssumption
    <3> QED
      BY <2>1, <3>1, <3>2, SameKeys, QuietTells
  <2> QED
    BY <2>2, <2>3
<1>9. ASSUME NEW k \in Key, Abort(k) \/ ExpireKey(k) PROVE Tells(c)'
  <2>1. cred' = Ended({k}, "expired") /\ cred[k].status = "pending"
        /\ audit' = audit /\ caller' = caller
    BY <1>9 DEF Abort, ExpireKey, Verified, Pending
  <2>2. \A j \in Key : (cred'[j].status = "active" /\ cred'[j].caller = c)
                          <=> (cred[j].status = "active" /\ cred[j].caller = c)
    BY <2>1, EndedShrinks DEF KeyInv
  <2> QED
    BY <2>1, <2>2, SameKeys, QuietTells
<1>10. ASSUME NEW s \in Setup, ConfirmRevoke(s) PROVE Tells(c)'
  <2> DEFINE d == setup[s].caller
  <2>1. d \in Caller /\ caller[d] # "none" /\ Log(d, "revoked") /\ caller' = caller
    BY <1>10 DEF ConfirmRevoke, Exchangeable, KeyInv, Bound
  <2>2. CASE c = d
    <3>1. audit'[c] # <<>> /\ audit'[c][Len(audit'[c])] = "revoked"
      BY <2>1, <2>2, Logged DEF KeyInv
    <3>2. ActiveKeys(c)' = {}
      BY <1>10, <2>2, Revocation DEF ActiveKeys, Shrinks
    <3> QED
      BY <2>1, <2>2, <3>1, <3>2 DEF Tells, Last
  <2>3. CASE c # d
    <3>1. audit'[c] = audit[c]
      BY <2>1, <2>3, Logged DEF KeyInv
    <3>2. \A j \in Key : (cred'[j].status = "active" /\ cred'[j].caller = c)
                            <=> (cred[j].status = "active" /\ cred[j].caller = c)
      BY <1>10, <2>3, Revocation DEF Shrinks
    <3> QED
      BY <2>1, <3>1, <3>2, SameKeys, QuietTells
  <2> QED
    BY <2>2, <2>3
<1>11. ASSUME NEW d \in Caller, PruneCaller(d) PROVE Tells(c)'
  <2>1. /\ \A j \in Key : cred'[j] = IF cred[j].caller = d THEN BlankCred("gone") ELSE cred[j]
        /\ \A j \in Key : cred[j].caller = d => cred[j].status # "active"
        /\ audit' = audit /\ audit[d] = <<>>
        /\ c # d => caller'[c] = caller[c]
    BY <1>11 DEF PruneCaller, NeverActivated, KeyInv, CredentialsTypeOK
  <2>2. \A j \in Key : (cred'[j].status = "active" /\ cred'[j].caller = c)
                          <=> (cred[j].status = "active" /\ cred[j].caller = c)
    BY <2>1 DEF BlankCred
  <2> QED
    BY <2>1, <2>2, SameKeys, QuietTells
<1> QED
  BY <1>2, <1>3, <1>4, <1>5, <1>6, <1>7, <1>8, <1>9, <1>10, <1>11 DEF CredentialsNext

\* A caller can call exactly when its last audit event is no revocation, and a
\* caller with a history is never deleted (CallerCredentials.AuditTellsKeys).
THEOREM AuditTells == CredentialsSpec => []AuditTellsKeys
<1> DEFINE Agree == \A c \in Caller : Tells(c)
<1>1. ASSUME KeyInv, Agree, [CredentialsNext]_credentialVars PROVE Agree'
  <2>1. CASE UNCHANGED credentialVars
    BY <1>1, <2>1, SameKeys, QuietTells DEF credentialVars
  <2>2. CASE CredentialsNext
    BY <1>1, <2>2, TellsKept
  <2> QED
    BY <1>1, <2>1, <2>2
<1>2. KeyInv /\ Agree /\ [CredentialsNext]_credentialVars => Agree'
  BY <1>1
<1>3. CredentialsInit => Agree
  BY InitTells
<1>4. Agree => AuditTellsKeys
  BY TellsKeys
<1> HIDE DEF Agree
<1> QED
  BY <1>2, <1>3, <1>4, AlwaysKeyInv, PTL DEF CredentialsSpec

---------------------------------------------------------------------------
(* The lifecycle                                                           *)

\* The refinement mapping of CallerCredentials.Lifecycle.
Working == [c \in Caller |-> TheKey(ActiveKeys(c))]
Offered == [c \in Caller |-> TheKey(PendingOf(c))]
Spent   == {k \in Key : cred[k].status \in {"revoked", "expired", "gone"}}

LEMMA OneKey == ASSUME NEW k PROVE TheKey({k}) = k
BY DEF TheKey

LEMMA NoKeys == TheKey({}) = NoKey
BY DEF TheKey

LEMMA TheKeyOf ==
    ASSUME NEW S \in SUBSET Key, \A j, k \in S : j = k
    PROVE  /\ {TheKey(S)} \ {NoKey} = S
           /\ S = {} => TheKey(S) = NoKey
           /\ S # {} => TheKey(S) \in S
<1>1. CASE S = {}
  BY <1>1, NoKeys
<1>2. CASE S # {}
  <2>1. PICK k \in S : S = {k}
    BY <1>2
  <2> QED
    BY <2>1, OneKey, CredentialsAssumption
<1> QED
  BY <1>1, <1>2

LEMMA Unique ==
    ASSUME KeyInv, NEW c
    PROVE  /\ ActiveKeys(c) \in SUBSET Key /\ PendingOf(c) \in SUBSET Key
           /\ \A j, k \in ActiveKeys(c) : j = k
           /\ \A j, k \in PendingOf(c) : j = k
BY DEF KeyInv, OneActive, OnePending, ActiveKeys, PendingOf

\* How a step moves the sets behind the mapping moves the mapping.
LEMMA MapStep ==
    ASSUME NEW c \in Caller,
           \A d \in Caller : d # c => ActiveKeys(d)' = ActiveKeys(d) /\ PendingOf(d)' = PendingOf(d)
    PROVE  /\ Working' = [Working EXCEPT ![c] = TheKey(ActiveKeys(c)')]
           /\ Offered' = [Offered EXCEPT ![c] = TheKey(PendingOf(c)')]
<1>1. Working' = [d \in Caller |-> TheKey(ActiveKeys(d)')]
  BY DEF Working, TheKey
<1>2. Offered' = [d \in Caller |-> TheKey(PendingOf(d)')]
  BY DEF Offered, TheKey
<1> QED
  BY <1>1, <1>2 DEF Working, Offered

LEMMA InitMaps == CredentialsInit => Lifecycle!Init
<1> SUFFICES ASSUME CredentialsInit PROVE Lifecycle!Init
  OBVIOUS
<1>1. KeyInv /\ \A k \in Key : cred[k].status \in {"none", "active"}
  <2>1. \A k \in Key : cred[k].status \in {"none", "active"}
    BY DEF CredentialsInit, InitWith, BlankCred
  <2> QED
    BY <2>1, InitKeys
<1>2. \A c \in Caller : PendingOf(c) = {}
  BY <1>1 DEF PendingOf
<1>3. Spent = {} /\ Offered = [c \in Caller |-> NoKey]
  BY <1>1, <1>2, NoKeys DEF Spent, Offered
<1>4. \A c \in Caller : Working[c] \in ActiveKeys(c) \cup {NoKey} /\ ActiveKeys(c) \subseteq Key
  BY <1>1, Unique, TheKeyOf DEF Working
<1>5. Working \in [Caller -> Key \cup {NoKey}]
  BY <1>4 DEF Working
<1>6. \A c, d \in Caller : c # d /\ Working[c] = Working[d] => Working[c] = NoKey
  BY <1>4 DEF ActiveKeys
<1> QED
  BY <1>3, <1>5, <1>6 DEF Lifecycle!Init, Working, Offered, Spent

LEMMA MintMaps ==
    ASSUME KeyInv, NEW s \in Setup, NEW k \in Key, NEW old, NEW expired,
           NEW c \in Caller, setup[s].caller = c,
           Mint(s, k, old, expired), expired \subseteq PendingOf(c)
    PROVE  Lifecycle!Offer(c, k)
<1>1. /\ expired = PendingOf(c) /\ cred[k].status = "none"
      /\ \A p \in expired : p \in Key /\ cred[p].status = "pending" /\ cred[p].caller = c
  BY DEF Mint, PendingOf
<1>2. cred'[k].status = "pending" /\ cred'[k].caller = c
  <2>1. k \in DOMAIN Ended(expired, "expired")
    BY DEF Ended
  <2> QED
    BY <2>1 DEF Mint
<1>3. ASSUME NEW j \in Key, j # k
      PROVE  IF j \in expired THEN cred'[j].status = "expired" ELSE cred'[j] = cred[j]
  <2>1. cred'[j] = Ended(expired, "expired")[j]
    BY <1>3 DEF Mint
  <2> QED
    BY <1>1, <2>1, EndedShrinks DEF KeyInv
<1>4. \A d \in Caller : ActiveKeys(d)' = ActiveKeys(d)
  BY <1>1, MintKeepsActive
<1>5. PendingOf(c)' = {k}
  BY <1>1, <1>2, <1>3 DEF PendingOf
<1>6. \A d \in Caller : d # c => PendingOf(d)' = PendingOf(d)
  BY <1>1, <1>2, <1>3 DEF PendingOf
<1>7. Spent' = Spent \cup expired
  BY <1>1, <1>2, <1>3 DEF Spent
<1>8. c \in Caller /\ {Offered[c]} \ {NoKey} = expired
  BY <1>1, Unique, TheKeyOf DEF Offered
<1>9. Working' = [Working EXCEPT ![c] = TheKey(ActiveKeys(c))] /\ Offered' = [Offered EXCEPT ![c] = k]
  BY <1>4, <1>5, <1>6, <1>8, MapStep, OneKey
<1>10. Working' = Working
  BY <1>9, <1>8 DEF Working
<1>11. k \notin {Working[d] : d \in Caller} \cup {Offered[d] : d \in Caller} \cup Spent
  <2>1. k \notin Spent
    BY <1>1 DEF Spent
  <2>2. ASSUME NEW d \in Caller PROVE Working[d] # k /\ Offered[d] # k
    <3>1. k \notin ActiveKeys(d) /\ k \notin PendingOf(d) /\ k # NoKey
      BY <1>1, CredentialsAssumption DEF ActiveKeys, PendingOf
    <3> QED
      BY <3>1, Unique, TheKeyOf DEF Working, Offered
  <2> QED
    BY <2>1, <2>2
<1> QED
  BY <1>7, <1>8, <1>9, <1>10, <1>11
     DEF Lifecycle!Offer, Lifecycle!Known, Working, Offered, Spent

LEMMA ActivateMaps ==
    ASSUME KeyInv, NEW k \in Key, Activate(k), NEW c, cred[k].caller = c
    PROVE  c \in Caller /\ Lifecycle!Adopt(c)
<1> DEFINE old == cred[k].replaces
<1>1. c \in Caller /\ cred[k].status = "pending"
  BY Activation
<1>2. PendingOf(c) = {k}
  BY <1>1 DEF KeyInv, OnePending, PendingOf
<1>3. ActiveKeys(c) = IF old = NoKey THEN {} ELSE {old}
  <2>1. CASE old = NoKey
    BY <1>1, <2>1 DEF KeyInv, FirstKey, ActiveKeys
  <2>2. CASE old # NoKey
    BY <2>2, Activation DEF KeyInv, OneActive, ActiveKeys
  <2> QED
    BY <2>1, <2>2
<1>4. \A j \in Key : j = old => j # k /\ cred[j].status = "active" /\ cred[j].caller = c
  BY Activation, CredentialsAssumption
<1>5. /\ cred'[k].status = "active" /\ cred'[k].caller = c
      /\ \A j \in Key \ {k} :
            /\ cred'[j].caller = cred[j].caller
            /\ cred'[j].status = IF j = old THEN "revoked" ELSE cred[j].status
      /\ old # NoKey => old \in Key
  BY Activation
<1> HIDE DEF old
<1>6. ActiveKeys(c)' = {k}
  <2>1. \A j \in Key : j # k => ~(cred'[j].status = "active" /\ cred'[j].caller = c)
    BY <1>3, <1>5 DEF ActiveKeys
  <2> QED
    BY <1>5, <2>1 DEF ActiveKeys
<1>7. PendingOf(c)' = {}
  BY <1>2, <1>5 DEF PendingOf
<1>8. \A d \in Caller : d # c => ActiveKeys(d)' = ActiveKeys(d) /\ PendingOf(d)' = PendingOf(d)
  <2> SUFFICES ASSUME NEW d \in Caller, d # c
               PROVE  ActiveKeys(d)' = ActiveKeys(d) /\ PendingOf(d)' = PendingOf(d)
    OBVIOUS
  <2> QED
    BY <1>4, <1>5 DEF ActiveKeys, PendingOf
<1>9. Spent' = Spent \cup ActiveKeys(c)
  <2>1. \A j \in Key : j \in ActiveKeys(c) <=> j = old
    BY <1>3, CredentialsAssumption
  <2>2. \A j \in Key : j \in Spent' <=> j \in Spent \/ j \in ActiveKeys(c)
    <3>1. k \notin Spent' /\ k \notin Spent /\ k # old
      BY <1>1, <1>4, <1>5 DEF Spent
    <3>2. \A j \in Key : j # k =>
             (j \in Spent' <=> j \in Spent \/ j = old)
      BY <1>5 DEF Spent
    <3> QED
      BY <2>1, <3>1, <3>2
  <2> QED
    BY <2>2 DEF Spent, ActiveKeys
<1>10. Working[c] = TheKey(ActiveKeys(c)) /\ Offered[c] = k
  BY <1>1, <1>2, OneKey DEF Working, Offered
<1>11. {Working[c]} \ {NoKey} = ActiveKeys(c)
  BY <1>10, Unique, TheKeyOf
<1>12. Working' = [Working EXCEPT ![c] = Offered[c]] /\ Offered' = [Offered EXCEPT ![c] = NoKey]
  BY <1>1, <1>6, <1>7, <1>8, <1>10, MapStep, OneKey, NoKeys
<1>13. Offered[c] # NoKey
  BY <1>10, CredentialsAssumption
<1> QED
  BY <1>1, <1>9, <1>11, <1>12, <1>13 DEF Lifecycle!Adopt, Working, Offered, Spent

\* A caller's pending credential ends and nothing else changes for it.
LEMMA GiveUpMaps ==
    ASSUME KeyInv, NEW c \in Caller, PendingOf(c)' = {},
           \A d \in Caller : ActiveKeys(d)' = ActiveKeys(d),
           \A d \in Caller : d # c => PendingOf(d)' = PendingOf(d),
           Spent' = Spent \cup PendingOf(c)
    PROVE  Lifecycle!GiveUp(c)
<1>1. Working' = [Working EXCEPT ![c] = TheKey(ActiveKeys(c))] /\ Offered' = [Offered EXCEPT ![c] = NoKey]
  BY MapStep, NoKeys
<1>2. Working' = Working
  BY <1>1 DEF Working
<1>3. {Offered[c]} \ {NoKey} = PendingOf(c)
  BY Unique, TheKeyOf DEF Offered
<1> QED
  BY <1>1, <1>2, <1>3 DEF Lifecycle!GiveUp, Working, Offered, Spent

LEMMA EndMaps ==
    ASSUME KeyInv, NEW k \in Key, Abort(k) \/ ExpireKey(k), NEW c, cred[k].caller = c
    PROVE  c \in Caller /\ Lifecycle!GiveUp(c)
<1>1. cred' = Ended({k}, "expired") /\ cred[k].status = "pending"
  BY DEF Abort, ExpireKey, Verified, Pending
<1>2. /\ cred'[k].status = "expired"
      /\ \A j \in Key : j # k => cred'[j] = cred[j]
  BY <1>1, EndedShrinks DEF KeyInv
<1>3. c \in Caller
  BY <1>1 DEF KeyInv, Owned
<1>4. PendingOf(c) = {k}
  BY <1>1 DEF KeyInv, OnePending, PendingOf
<1>5. \A d \in Caller : ActiveKeys(d)' = ActiveKeys(d)
  BY <1>1, <1>2 DEF ActiveKeys
<1>6. PendingOf(c)' = {}
  BY <1>2, <1>4 DEF PendingOf
<1>7. \A d \in Caller : d # c => PendingOf(d)' = PendingOf(d)
  BY <1>1, <1>2 DEF PendingOf
<1>8. Spent' = Spent \cup PendingOf(c)
  BY <1>2, <1>4 DEF Spent
<1> QED
  BY <1>3, <1>5, <1>6, <1>7, <1>8, GiveUpMaps

LEMMA PruneMaps ==
    ASSUME KeyInv, NEW c \in Caller, PruneCaller(c)
    PROVE  Lifecycle!GiveUp(c)
<1>1. \A k \in Key :
        IF cred[k].caller = c
        THEN cred'[k].status = "gone" /\ cred[k].status \in {"pending", "expired", "gone"}
        ELSE cred'[k] = cred[k]
  BY DEF PruneCaller, NeverActivated, BlankCred, KeyInv, Owned, CredentialsTypeOK, CredRow
<1>2. \A d \in Caller : ActiveKeys(d)' = ActiveKeys(d)
  BY <1>1 DEF ActiveKeys
<1>3. PendingOf(c)' = {}
  BY <1>1 DEF PendingOf
<1>4. \A d \in Caller : d # c => PendingOf(d)' = PendingOf(d)
  BY <1>1 DEF PendingOf
<1>5. Spent' = Spent \cup PendingOf(c)
  BY <1>1 DEF Spent, PendingOf
<1> QED
  BY <1>2, <1>3, <1>4, <1>5, GiveUpMaps

LEMMA RevokeMaps ==
    ASSUME KeyInv, NEW s \in Setup, ConfirmRevoke(s), NEW c, setup[s].caller = c
    PROVE  c \in Caller /\ Lifecycle!Revoke(c)
<1>1. c \in Caller
  BY DEF ConfirmRevoke, Exchangeable, KeyInv, Bound
<1>2. \A k \in Key :
        /\ cred'[k].caller = cred[k].caller
        /\ cred'[k].status =
              IF cred[k].caller = c /\ cred[k].status = "active" THEN "revoked"
              ELSE IF cred[k].caller = c /\ cred[k].status = "pending" THEN "expired"
              ELSE cred[k].status
  BY Revocation DEF Shrinks
<1>3. ActiveKeys(c)' = {} /\ PendingOf(c)' = {}
  BY <1>2 DEF ActiveKeys, PendingOf
<1>4. \A d \in Caller : d # c => ActiveKeys(d)' = ActiveKeys(d) /\ PendingOf(d)' = PendingOf(d)
  BY <1>2 DEF ActiveKeys, PendingOf
<1>5. Spent' = Spent \cup ActiveKeys(c) \cup PendingOf(c)
  BY <1>2 DEF Spent, ActiveKeys, PendingOf
<1>6. {Working[c]} \ {NoKey} = ActiveKeys(c) /\ {Offered[c]} \ {NoKey} = PendingOf(c)
  BY <1>1, Unique, TheKeyOf DEF Working, Offered
<1>7. Working' = [Working EXCEPT ![c] = NoKey] /\ Offered' = [Offered EXCEPT ![c] = NoKey]
  BY <1>1, <1>3, <1>4, MapStep, NoKeys
<1>8. Spent' = Spent \cup ({Working[c], Offered[c]} \ {NoKey})
  BY <1>5, <1>6
<1> QED
  BY <1>1, <1>7, <1>8 DEF Lifecycle!Revoke, Working, Offered, Spent

\* A step that leaves the credentials alone is a stutter of the lifecycle.
LEMMA SameMaps ==
    ASSUME cred' = cred
    PROVE  UNCHANGED Lifecycle!lifecycleVars
<1>1. \A c : ActiveKeys(c)' = ActiveKeys(c) /\ PendingOf(c)' = PendingOf(c)
  BY DEF ActiveKeys, PendingOf
<1>2. Working' = Working /\ Offered' = Offered
  <2>1. Working' = [d \in Caller |-> TheKey(ActiveKeys(d)')]
    BY DEF Working, TheKey
  <2>2. Offered' = [d \in Caller |-> TheKey(PendingOf(d)')]
    BY DEF Offered, TheKey
  <2> QED
    BY <1>1, <2>1, <2>2 DEF Working, Offered
<1>3. Spent' = Spent
  BY DEF Spent
<1> QED
  BY <1>2, <1>3 DEF Lifecycle!lifecycleVars, Working, Offered, Spent

\* The credential routes implement the lifecycle a person relies on
\* (CallerCredentials.ImplementsLifecycle).
THEOREM CredentialsImplementLifecycle == CredentialsSpec => ImplementsLifecycle
<1>1. ASSUME KeyInv, [CredentialsNext]_credentialVars
      PROVE  [Lifecycle!Next]_(Lifecycle!lifecycleVars)
  <2>1. ASSUME NEW s \in Setup, NEW k \in Key, ExchangeConnect(s, k) PROVE Lifecycle!Next
    <3>1. Mint(s, k, NoKey, {}) /\ setup[s].caller \in Caller
      BY <1>1, <2>1 DEF ExchangeConnect, Exchangeable, KeyInv, Bound
    <3>2. Lifecycle!Offer(setup[s].caller, k)
      BY <1>1, <3>1, MintMaps
    <3> QED
      BY <3>1, <3>2 DEF Lifecycle!Next
  <2>2. ASSUME NEW s \in Setup, NEW k \in Key, ExchangeRotate(s, k) PROVE Lifecycle!Next
    <3> DEFINE expired == {p \in PendingOf(setup[s].caller) : KeyLapsed(p) /\ cred[p].replaces # NoKey}
    <3>1. PICK old : Mint(s, k, old, expired)
      BY <2>2 DEF ExchangeRotate
    <3>2. setup[s].caller \in Caller /\ expired \subseteq PendingOf(setup[s].caller)
      BY <1>1, <2>2 DEF ExchangeRotate, Exchangeable, KeyInv, Bound
    <3> HIDE DEF expired
    <3>3. Lifecycle!Offer(setup[s].caller, k)
      BY <1>1, <3>1, <3>2, MintMaps
    <3> QED
      BY <3>2, <3>3 DEF Lifecycle!Next
  <2>3. ASSUME NEW k \in Key, Activate(k) PROVE Lifecycle!Next
    BY <1>1, <2>3, ActivateMaps DEF Lifecycle!Next
  <2>4. ASSUME NEW k \in Key, Abort(k) \/ ExpireKey(k) PROVE Lifecycle!Next
    BY <1>1, <2>4, EndMaps DEF Lifecycle!Next
  <2>5. ASSUME NEW s \in Setup, ConfirmRevoke(s) PROVE Lifecycle!Next
    BY <1>1, <2>5, RevokeMaps DEF Lifecycle!Next
  <2>6. ASSUME NEW c \in Caller, PruneCaller(c) PROVE Lifecycle!Next
    BY <1>1, <2>6, PruneMaps DEF Lifecycle!Next
  <2>7. CASE cred' = cred
    BY <2>7, SameMaps
  <2> QED
    BY <1>1, <2>1, <2>2, <2>3, <2>4, <2>5, <2>6, <2>7
       DEF CredentialsNext, credentialVars, StartSetup, Approve, Deny, DevicePoll, MarkExpired,
           Lapse, Age, AgeCaller, PruneSetup
<1>2. KeyInv /\ [CredentialsNext]_credentialVars => [Lifecycle!Next]_(Lifecycle!lifecycleVars)
  BY <1>1
<1> QED
  BY <1>2, InitMaps, AlwaysKeyInv, PTL DEF CredentialsSpec, ImplementsLifecycle, Lifecycle!Spec
=============================================================================
