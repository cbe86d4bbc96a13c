--------------------------- MODULE ReleaseProofs ---------------------------
(***************************************************************************)
(* Properties of Release, proved for every number of runs, tags, commits,  *)
(* jobs, lost answers and rollbacks.                                       *)
(*                                                                         *)
(* The action properties follow from where a job and its signal handler    *)
(* are: what serves then, and what the marker of the draft says.  That     *)
(* traffic is accounted for needs more, and holds while GitHub shows every *)
(* draft under its tag: what serves, and every version that cleanups may   *)
(* go back to from there, has its release, and the way back has no circle. *)
(***************************************************************************)
EXTENDS Release, FiniteSetTheorems, TLAPS

ReleaseType ==
    [run : Run, tag : Tag, sha : Sha, draft : BOOLEAN, named : Named,
     state : {"prepared", "publishing"}, assets : BOOLEAN, prior : Nat, candidate : Nat]

VersionType == [run : Run \cup {NoRun}, release : Nat, sha : Sha, tag : Tag]

PC == {"idle", "draft", "assets", "capture", "record", "exiting", "worker", "persist",
       "stage", "promote", "smoke", "publish", "reconcile", "delete"}

JobType ==
    [kind : {"none", "deploy", "reconcile"}, run : Run \cup {NoRun}, tag : Tag,
     sha : Sha \cup {NoSha}, pc : PC, release : Nat, prior : Nat, candidate : Nat,
     recovering : BOOLEAN]

ReleaseTypeOK ==
    /\ created \in Nat /\ created <= MaxJobs
    /\ DOMAIN releases \subseteq 1 .. created
    /\ \A i \in DOMAIN releases : releases[i] \in ReleaseType
    /\ tags \in [Tag -> Sha \cup {NoSha}]
    /\ versions \in Seq(VersionType) /\ Len(versions) > 0
    /\ live \in [main : DOMAIN versions, staged : {None} \cup DOMAIN versions]
    /\ configured \in BOOLEAN
    /\ job \in JobType
    /\ handler \in [pc : {"none", "reconcile", "delete"}, release : Nat, prior : Nat]
    /\ displaced \in [1 .. MaxJobs -> Nat]
    /\ strays \subseteq Sha
    /\ budget \in [jobs : Nat, doubt : Nat, rollbacks : Nat]

\* A release, and an uploaded version, is the build of a run.
Build(r) == r.run \in Run /\ r.tag = TagOf[r.run] /\ r.sha = ShaOf[r.run]

FirstVersion == [run |-> NoRun, release |-> None, sha |-> FirstSha, tag |-> FirstTag]

\* A version that was uploaded for release i.
BuildOf(v, i) == v \in DOMAIN versions /\ versions[v].release = i /\ versions[v].sha = releases[i].sha

VersionsOK ==
    /\ versions[1] = FirstVersion
    /\ \A v \in DOMAIN versions : v > 1 => Build(versions[v]) /\ versions[v].release \in 1 .. created
    \* Nothing is uploaded for a release before its marker has the prior version.
    /\ \A v \in DOMAIN versions : versions[v].release \in DOMAIN releases =>
          releases[versions[v].release].prior # None
    /\ live.staged # 1

ReleaseOK(i) ==
    /\ Build(releases[i])
    /\ releases[i].candidate # None => BuildOf(releases[i].candidate, i)
    /\ releases[i].prior # None =>
          releases[i].prior \in DOMAIN versions /\ versions[releases[i].prior].release # i
    /\ displaced[i] \in {None, releases[i].prior}

\* The steps of a job between the draft and its publication.
Owning == {"assets", "capture", "record", "exiting", "worker", "persist", "stage", "promote"}

\* The marker of the job's draft has the version the job goes back to.
Recorded == job.release \in DOMAIN releases /\ releases[job.release].prior = job.prior /\ job.prior # None

Alone(v) == live = [main |-> v, staged |-> None]

DeployOK ==
    /\ Build(job)
    /\ job.pc # "idle"
    /\ job.pc \in Owning =>
          IsPrepared(job.release) /\ MarkerMatches(job.release, job.tag, job.sha, job.run)
    /\ job.pc \in {"exiting", "worker", "persist", "stage", "promote"} => Recorded
    /\ job.pc \in {"persist", "stage", "promote"} => BuildOf(job.candidate, job.release)
    /\ (job.pc = "record" /\ handler.pc # "delete") => Alone(job.prior)
    /\ job.pc \in {"worker", "persist", "stage"} => Alone(job.prior)
    /\ job.pc = "promote" => live = [main |-> job.prior, staged |-> job.candidate]
    /\ job.pc = "record" => job.prior # None

\* A draft that is about to be deleted gave way to the version it displaced.
GaveWay(i, prior) == i \in DOMAIN releases => releases[i].prior \in {None, prior}

JobOK ==
    /\ job.kind = "none" => job = Idle
    /\ job.kind = "deploy" => DeployOK
    /\ job.kind = "reconcile" => job.pc \in {"reconcile", "delete"}
    /\ job.pc = "delete" => GaveWay(job.release, job.prior)

HandlerOK ==
    /\ handler.pc = "none" => handler = Quiet
    /\ handler.pc # "none" => job.kind = "deploy" /\ job.pc \in {"record", "exiting"}
    /\ handler.pc = "delete" =>
          /\ handler.release = job.release /\ Alone(handler.prior)
          /\ GaveWay(handler.release, handler.prior)
          /\ releases[job.release].prior = None => handler.prior = job.prior

Books ==
    /\ VersionsOK
    /\ \A i \in DOMAIN releases : ReleaseOK(i)
    /\ \A i \in 1 .. MaxJobs : i > created => displaced[i] = None

ReleaseInv == ReleaseTypeOK /\ Books /\ JobOK /\ HandlerOK

-----------------------------------------------------------------------------
(* Drafts under their tags *)

TagShows(s) == \E v \in DOMAIN versions : versions[v].sha = s /\ tags[versions[v].tag] = s

Accounted(s) ==
    \/ s \in strays
    \/ TagShows(s)
    \/ \E i \in DOMAIN releases : releases[i].sha = s /\ (releases[i].draft => releases[i].prior # None)

OneRelease ==
    /\ \A i, j \in DOMAIN releases : releases[i].tag = releases[j].tag => i = j
    /\ \A i \in DOMAIN releases : releases[i].draft => tags[releases[i].tag] = NoSha
    /\ \A i \in DOMAIN releases : releases[i].prior # None =>
          versions[releases[i].prior].sha # releases[i].sha
    /\ \A s \in strays : \E v \in DOMAIN versions : versions[v].sha = s /\ tags[versions[v].tag] # NoSha
    /\ budget.rollbacks = 0 => strays = {}

\* Commits with a rank serve, or are what a draft with a rank goes back to.
Lives(rank) == rank[LiveSha] > 0 /\ (live.staged # None => rank[versions[live.staged].sha] > 0)

Backed(rank) ==
    /\ \A s \in Sha : rank[s] > 0 => Accounted(s)
    /\ \A i \in DOMAIN releases :
          (IsPrepared(i) /\ releases[i].prior # None /\ rank[releases[i].sha] > 0) =>
             /\ rank[versions[releases[i].prior].sha] > 0
             /\ rank[versions[releases[i].prior].sha] < rank[releases[i].sha]

WayBack == OneRelease /\ \E rank \in [Sha -> Nat] : Lives(rank) /\ Backed(rank)

-----------------------------------------------------------------------------
(* Operators                                                               *)

LEMMA AtMostOne ==
    ASSUME NEW S, IsFiniteSet(S), ~(Cardinality(S) > 1), NEW x \in S, NEW y \in S
    PROVE  x = y
<1> SUFFICES ASSUME x # y
             PROVE  FALSE
  OBVIOUS
<1>1. IsFiniteSet({x}) /\ Cardinality({x}) = 1
  BY FS_Singleton
<1>2. Cardinality({x} \cup {y}) = 2
  <2>1. Cardinality({x} \cup {y}) = IF y \in {x} THEN Cardinality({x}) ELSE Cardinality({x}) + 1
    BY <1>1, FS_AddElement
  <2> QED
    BY <1>1, <2>1
<1>3. Cardinality({x} \cup {y}) <= Cardinality(S)
  BY FS_Subset, {x} \cup {y} \subseteq S
<1>4. Cardinality(S) \in Nat
  BY FS_CardinalityType
<1> QED
  BY <1>2, <1>3, <1>4

LEMMA FiniteReleases ==
    ASSUME ReleaseTypeOK, NEW S, S \subseteq DOMAIN releases
    PROVE  IsFiniteSet(S) /\ Cardinality(S) \in Nat
<1>1. IsFiniteSet(1 .. created)
  BY FS_Interval DEF ReleaseTypeOK
<1> QED
  BY <1>1, FS_Subset, FS_CardinalityType DEF ReleaseTypeOK

\* What the classification of a draft says of it and of the other releases.
Own(i, kind, tag, sha, run) ==
    /\ i \in DOMAIN releases /\ releases[i].draft /\ releases[i].state = kind
    /\ MarkerMatches(i, tag, sha, run)
    /\ \A j \in Drafts(tag, sha, run) : j = i
    /\ \A j \in DOMAIN releases : releases[j].tag = tag => releases[j].draft

LEMMA ClassifiedDraft ==
    ASSUME ReleaseTypeOK, NEW tag, NEW sha, NEW run, NEW kind \in {"prepared", "publishing"},
           Classify(tag, sha, run).kind = kind
    PROVE  /\ Own(Classify(tag, sha, run).release, kind, tag, sha, run)
           /\ Classify(tag, sha, run) = [kind |-> kind, release |-> Classify(tag, sha, run).release]
<1> DEFINE drafts == Drafts(tag, sha, run)
           published == {i \in DOMAIN releases : ~releases[i].draft /\ releases[i].tag = tag}
           other == tags[tag] # NoSha /\ sha # NoSha /\ tags[tag] # sha
           d == CHOOSE x \in drafts : TRUE
           hold == [kind |-> "hold", release |-> None]
<1>1. published = {}
  BY DEF Classify
<1>2. ~(other \/ (tags[tag] # NoSha /\ drafts = {}) \/ Cardinality(drafts) > 1)
  BY <1>1 DEF Classify
<1>3. drafts # {}
  BY <1>1, <1>2 DEF Classify
<1>4. Classify(tag, sha, run) =
        [kind |-> IF MarkerMatches(d, tag, sha, run) THEN releases[d].state ELSE "hold",
         release |-> d]
  BY <1>1, <1>2, <1>3 DEF Classify
<1>5. d \in drafts
  BY <1>3
<1>6. MarkerMatches(d, tag, sha, run) /\ releases[d].state = kind
  BY <1>4
<1>7. \A j \in drafts : j = d
  <2>1. drafts \subseteq DOMAIN releases
    BY DEF Drafts
  <2> HIDE DEF drafts
  <2> QED
    BY <2>1, <1>2, <1>5, FiniteReleases, AtMostOne
<1>8. \A j \in DOMAIN releases : releases[j].tag = tag => releases[j].draft
  BY <1>1
<1> QED
  BY <1>4, <1>5, <1>6, <1>7, <1>8 DEF Own, Drafts

LEMMA Absent ==
    ASSUME NEW tag, NEW sha, NEW run, Classify(tag, sha, run).kind = "absent", ReleaseTypeOK
    PROVE  /\ tags[tag] = NoSha /\ Drafts(tag, sha, run) = {}
           /\ \A j \in DOMAIN releases : releases[j].tag = tag => releases[j].draft
<1> DEFINE drafts == Drafts(tag, sha, run)
           published == {i \in DOMAIN releases : ~releases[i].draft /\ releases[i].tag = tag}
           other == tags[tag] # NoSha /\ sha # NoSha /\ tags[tag] # sha
           d == CHOOSE x \in drafts : TRUE
<1>1. published = {}
  BY DEF Classify
<1>2. ~(other \/ (tags[tag] # NoSha /\ drafts = {}) \/ Cardinality(drafts) > 1)
  BY <1>1 DEF Classify
<1>3. drafts = {}
  <2> SUFFICES ASSUME drafts # {}
               PROVE  FALSE
    OBVIOUS
  <2>1. Classify(tag, sha, run) =
          [kind |-> IF MarkerMatches(d, tag, sha, run) THEN releases[d].state ELSE "hold",
           release |-> d]
    BY <1>1, <1>2 DEF Classify
  <2>2. d \in DOMAIN releases
    BY DEF Drafts
  <2>3. releases[d].state \in {"prepared", "publishing"}
    BY <2>2 DEF ReleaseTypeOK, ReleaseType
  <2> QED
    BY <2>1, <2>3
<1> QED
  BY <1>1, <1>2, <1>3

LEMMA Candidate ==
    ASSUME NEW i \in DOMAIN releases, ReleaseOK(i), CandidateOf(i) # None
    PROVE  BuildOf(CandidateOf(i), i)
<1>1. CASE releases[i].candidate = None
  <2>1. Cardinality(Uploaded(i)) = 1 /\ CandidateOf(i) = CHOOSE v \in Uploaded(i) : TRUE
    BY <1>1 DEF CandidateOf
  <2>2. Uploaded(i) # {}
    BY <2>1, FS_EmptySet
  <2>3. CandidateOf(i) \in Uploaded(i)
    BY <2>1, <2>2
  <2> QED
    BY <2>3 DEF Uploaded, BuildOf
<1>2. CASE releases[i].candidate # None
  BY <1>2 DEF CandidateOf, ReleaseOK
<1> QED
  BY <1>1, <1>2

\* A cleanup goes back to a version that exists, is alone when it was not
\* recorded, and either serves already or gives back what the release took.
Cleans(i, prior, tag, sha, run) ==
    /\ Own(i, "prepared", tag, sha, run)
    /\ prior \in DOMAIN versions /\ versions[prior].release # i
    /\ releases[i].prior \in {None, prior}
    /\ releases[i].prior = None => Alone(prior) /\ LiveSha # releases[i].sha
    /\ LiveSha \in {releases[i].sha, versions[prior].sha}

LEMMA Cleanup ==
    ASSUME ReleaseInv, NEW tag, NEW sha, NEW run, NEW claims, NEW seen \in {NoSha, LiveSha},
           Decide(tag, sha, run, claims, seen).action = "cleanup"
    PROVE  \E i \in DOMAIN releases, prior \in DOMAIN versions :
              /\ Decide(tag, sha, run, claims, seen) =
                    [action |-> "cleanup", release |-> i, prior |-> prior]
              /\ Cleans(i, prior, tag, sha, run)
<1> DEFINE c == Classify(tag, sha, run)
           i == c.release
           p == PriorOf(i, seen)
<1>1. /\ c.kind = "prepared" /\ p # None
      /\ CandidateIsLive(i, seen) \/ PriorIsLive(i, seen)
      /\ Decide(tag, sha, run, claims, seen) = [action |-> "cleanup", release |-> i, prior |-> p]
  <2> DEFINE ok == /\ Disposable(c.kind)
                   /\ CandidateIsClear(i)
                   /\ Agrees(claims.release, i)
                   /\ Agrees(claims.prior, releases[i].prior)
                   /\ Agrees(claims.candidate, CandidateOf(i))
                   /\ p # None
                   /\ CandidateIsLive(i, seen) \/ PriorIsLive(i, seen)
  <2>1. Decide(tag, sha, run, claims, seen) =
          IF ok THEN [action |-> "cleanup", release |-> i, prior |-> p]
          ELSE [action |-> IF c.kind \in {"absent", "committed"} THEN c.kind ELSE "hold",
                release |-> i, prior |-> None]
    BY DEF Decide
  <2>2. ok
    BY <2>1
  <2> QED
    BY <2>1, <2>2 DEF Disposable
<1>2. Own(i, "prepared", tag, sha, run) /\ i \in DOMAIN releases
  BY <1>1, ClassifiedDraft DEF ReleaseInv, Own
<1>3. ReleaseOK(i) /\ live.main \in DOMAIN versions /\ releases[i] \in ReleaseType
  BY <1>2 DEF ReleaseInv, Books, ReleaseTypeOK
<1> HIDE DEF i, c
<1>4. CASE releases[i].prior # None
  <2>1. p = releases[i].prior /\ p \in DOMAIN versions /\ versions[p].release # i
    BY <1>4, <1>3 DEF PriorOf, ReleaseOK
  <2>2. LiveSha \in {releases[i].sha, versions[p].sha}
    <3>1. CASE CandidateIsLive(i, seen)
      <4>1. CASE seen = releases[i].sha
        <5>1. seen # NoSha
          BY <4>1, <1>3, ReleaseAssumption DEF ReleaseType
        <5> QED
          BY <4>1, <5>1
      <4>2. CASE live = [main |-> CandidateOf(i), staged |-> None]
        <5>1. CandidateOf(i) = live.main
          BY <4>2
        <5>2. live.main # None
          BY <1>3 DEF None, ReleaseInv, ReleaseTypeOK
        <5> QED
          BY <1>2, <1>3, <5>1, <5>2, Candidate DEF BuildOf, LiveSha
      <4>3. CASE live = [main |-> p, staged |-> CandidateOf(i)]
        BY <4>3 DEF LiveSha
      <4> QED
        BY <3>1, <4>1, <4>2, <4>3 DEF CandidateIsLive
    <3>2. CASE PriorIsLive(i, seen)
      <4>1. CASE seen = versions[p].sha
        <5>1. versions[p].sha # NoSha
          <6>1. versions[p] \in VersionType
            BY <2>1 DEF ReleaseInv, ReleaseTypeOK
          <6> QED
            BY <6>1, ReleaseAssumption DEF VersionType
        <5> QED
          BY <4>1, <5>1
      <4> QED
        BY <3>2, <4>1 DEF PriorIsLive, LiveSha
    <3> QED
      BY <1>1, <3>1, <3>2
  <2> QED
    BY <1>1, <1>2, <1>4, <2>1, <2>2 DEF Cleans
<1>5. CASE releases[i].prior = None
  <2>1. p = ObservedPrior(i, seen)
    BY <1>5 DEF PriorOf
  <2>2. p = live.main /\ seen \notin {NoSha, releases[i].sha} /\ live.staged = None
    BY <2>1, <1>1 DEF ObservedPrior
  <2>3. versions[p].release # i
    BY <1>2, <1>5, <2>2, <1>3 DEF ReleaseInv, Books, VersionsOK
  <2>4. Alone(p)
    BY <2>2 DEF Alone, ReleaseInv, ReleaseTypeOK
  <2> QED
    BY <1>1, <1>2, <1>3, <1>5, <2>2, <2>3, <2>4 DEF Cleans, LiveSha
<1> QED
  BY <1>4, <1>5

-----------------------------------------------------------------------------
(* Types                                                                   *)

LEMMA IdleType == Idle \in JobType /\ Quiet \in [pc : {"none", "reconcile", "delete"}, release : Nat, prior : Nat]
BY ReleaseAssumption DEF Idle, Quiet, JobType, PC, None

LEMMA FailedType ==
    ASSUME ReleaseTypeOK
    PROVE  Failed \in JobType
BY DEF Failed, ReleaseTypeOK, JobType, PC, None

LEMMA BudgetType ==
    ASSUME ReleaseTypeOK, NEW answered \in BOOLEAN, Lose(answered)
    PROVE  budget' \in [jobs : Nat, doubt : Nat, rollbacks : Nat] /\ budget'.rollbacks = budget.rollbacks
BY DEF Lose, ReleaseTypeOK

LEMMA ChangedType ==
    ASSUME ReleaseTypeOK, NEW i \in DOMAIN releases
    PROVE  /\ [releases[i] EXCEPT !.assets = TRUE] \in ReleaseType
           /\ [releases[i] EXCEPT !.prior = job.prior] \in ReleaseType
           /\ [releases[i] EXCEPT !.candidate = job.candidate] \in ReleaseType
           /\ [releases[i] EXCEPT !.state = "publishing"] \in ReleaseType
           /\ [releases[i] EXCEPT !.draft = FALSE] \in ReleaseType
<1>1. releases[i] \in ReleaseType /\ job.prior \in Nat /\ job.candidate \in Nat
  BY DEF ReleaseTypeOK, JobType
<1> QED
  BY <1>1 DEF ReleaseType

LEMMA Numbers ==
    ASSUME ReleaseTypeOK
    PROVE  /\ created \in Nat /\ created + 1 \in Nat /\ Len(versions) \in Nat
           /\ Len(versions) + 1 \in Nat /\ DOMAIN versions = 1 .. Len(versions)
           /\ live.main \in Nat \ {0} /\ live.main \in DOMAIN versions
           /\ live.staged \in {None} \cup DOMAIN versions
<1>1. created \in Nat /\ Len(versions) \in Nat /\ DOMAIN versions = 1 .. Len(versions)
  BY DEF ReleaseTypeOK
<1>2. live.main \in DOMAIN versions /\ live.staged \in {None} \cup DOMAIN versions
  BY DEF ReleaseTypeOK
<1> QED
  BY <1>1, <1>2

LEMMA StartType ==
    ASSUME ReleaseTypeOK, NEW new \in JobType, Start(new)
    PROVE  ReleaseTypeOK'
BY DEF Start, ReleaseTypeOK, github, cloudflare, ghosts

\* A job that owns its draft has a version to go back to and, once it is
\* known, a candidate.
LEMMA OwningTypes ==
    ASSUME ReleaseInv, job.kind = "deploy", job.pc \in Owning
    PROVE  /\ job.release \in DOMAIN releases /\ job.release \in 1 .. created
           /\ job.release \in 1 .. MaxJobs
           /\ job.pc \in {"record", "worker", "persist", "stage", "promote"} /\ handler.pc # "delete"
                 => job.prior \in DOMAIN versions /\ live.main = job.prior
           /\ job.pc \in {"persist", "stage", "promote"} => job.candidate \in DOMAIN versions
<1>1. DeployOK /\ IsPrepared(job.release)
  BY DEF ReleaseInv, JobOK, DeployOK
<1>2. job.release \in DOMAIN releases /\ job.release \in 1 .. created /\ job.release \in 1 .. MaxJobs
  BY <1>1, ReleaseAssumption DEF IsPrepared, ReleaseInv, ReleaseTypeOK
<1>3. ASSUME job.pc \in {"record", "worker", "persist", "stage", "promote"}, handler.pc # "delete"
      PROVE  job.prior \in DOMAIN versions /\ live.main = job.prior
  BY <1>1, <1>3 DEF DeployOK, Alone, ReleaseInv, ReleaseTypeOK
<1>4. job.pc \in {"persist", "stage", "promote"} => job.candidate \in DOMAIN versions
  BY <1>1 DEF DeployOK, BuildOf
<1> QED
  BY <1>2, <1>3, <1>4

\* The handler runs beside no step but the one that captures the prior version.
LEMMA HandlerIsQuiet ==
    ASSUME ReleaseInv, job.kind = "deploy", job.pc \notin {"record", "exiting"}
    PROVE  handler = Quiet /\ handler.pc = "none"
BY DEF ReleaseInv, HandlerOK, ReleaseTypeOK, Quiet

LEMMA TypeStep ==
    ASSUME ReleaseInv, [ReleaseNext]_vars
    PROVE  ReleaseTypeOK'
<1> USE DEF github, cloudflare, ghosts
<1>t. ReleaseTypeOK
  BY DEF ReleaseInv
<1>1. ASSUME NEW r \in Run, StartDeploy(r)
      PROVE  ReleaseTypeOK'
  <2> DEFINE new == [Idle EXCEPT !.kind = "deploy", !.run = r, !.tag = TagOf[r],
                                 !.sha = ShaOf[r], !.pc = "draft"]
  <2>1. new \in JobType
    BY ReleaseAssumption DEF Idle, JobType, PC, None
  <2>2. Start(new)
    BY <1>1 DEF StartDeploy
  <2> QED
    BY <1>t, <2>1, <2>2, StartType
<1>2. ASSUME NEW t \in Tag, NEW s \in Sha \cup {NoSha}, NEW p \in {None} \cup DOMAIN versions,
             StartReconcile(t, s, p)
      PROVE  ReleaseTypeOK'
  <2> DEFINE new == [Idle EXCEPT !.kind = "reconcile", !.tag = t, !.sha = s,
                                 !.prior = p, !.pc = "reconcile"]
  <2>1. p \in Nat
    BY <1>t DEF ReleaseTypeOK, None
  <2>2. new \in JobType
    BY <2>1, ReleaseAssumption DEF Idle, JobType, PC, None
  <2>3. Start(new)
    BY <1>2 DEF StartReconcile
  <2> QED
    BY <1>t, <2>2, <2>3, StartType
<1>3. CASE StepFails
  BY <1>t, <1>3, FailedType, IdleType DEF StepFails, ReleaseTypeOK
<1>4. CASE Stop
  BY <1>t, <1>4, IdleType DEF Stop, ReleaseTypeOK
<1>5. CASE PrepareDraft
  <2>0. UNCHANGED <<versions, live, configured, handler, displaced, strays>>
    BY <1>5 DEF PrepareDraft
  <2>1. CASE CreateDraft
    <3>1. PICK named \in Named :
             releases' = [i \in DOMAIN releases \cup {created + 1} |->
                 IF i \in DOMAIN releases THEN releases[i]
                 ELSE [run |-> job.run, tag |-> job.tag, sha |-> job.sha, draft |-> TRUE,
                       named |-> named, state |-> "prepared", assets |-> FALSE,
                       prior |-> None, candidate |-> None]]
      BY <2>1 DEF CreateDraft
    <3>2. created' = created + 1 /\ created < MaxJobs
      BY <2>1 DEF CreateDraft
    <3>3. PICK answered \in BOOLEAN :
             /\ Lose(answered)
             /\ job' = IF answered THEN [job EXCEPT !.release = created + 1, !.pc = "assets"]
                       ELSE job
      BY <2>1 DEF CreateDraft
    <3>4. job.run \in Run /\ job.sha \in Sha /\ job.tag \in Tag
      BY <1>5, <1>t, ReleaseAssumption
      DEF PrepareDraft, At, ReleaseInv, JobOK, DeployOK, Build, ReleaseTypeOK, JobType
    <3>5. created' \in Nat /\ created' <= MaxJobs /\ DOMAIN releases' \subseteq 1 .. created'
      BY <3>1, <3>2, <1>t, ReleaseAssumption DEF ReleaseTypeOK
    <3>6. \A i \in DOMAIN releases' : releases'[i] \in ReleaseType
      BY <3>1, <3>4, <1>t DEF ReleaseTypeOK, ReleaseType, None
    <3>7. job' \in JobType
      BY <3>3, <1>t, Numbers DEF ReleaseTypeOK, JobType, PC
    <3>8. tags' = tags
      BY <2>1 DEF CreateDraft
    <3> QED
      BY <2>0, <3>3, <3>5, <3>6, <3>7, <3>8, <1>t, BudgetType DEF ReleaseTypeOK
  <2>2. ASSUME NEW kind \in {"prepared", "publishing", "committed"},
               NEW pc \in {"assets", "smoke", "reconcile"}, Adopt(kind, pc)
        PROVE  ReleaseTypeOK'
    <3>1. Classify(job.tag, job.sha, job.run).release \in Nat
      <4> DEFINE published == {i \in DOMAIN releases : ~releases[i].draft /\ releases[i].tag = job.tag}
                 drafts == Drafts(job.tag, job.sha, job.run)
      <4>1. (CHOOSE p \in published : TRUE) \in Nat \/ published = {}
        BY <1>t DEF ReleaseTypeOK
      <4>2. (CHOOSE p \in drafts : TRUE) \in Nat \/ drafts = {}
        BY <1>t DEF ReleaseTypeOK, Drafts
      <4> QED
        BY <4>1, <4>2 DEF Classify, None
    <3>2. job' \in JobType
      BY <2>2, <3>1, <1>t DEF Adopt, ReleaseTypeOK, JobType, PC
    <3> QED
      BY <2>0, <2>2, <3>2, <1>t DEF Adopt, ReleaseTypeOK
  <2> QED
    BY <1>5, <2>1, <2>2 DEF PrepareDraft
<1>6. CASE UploadAssets
  <2>1. PICK answered \in BOOLEAN : Lose(answered) /\ Then("capture", answered)
    BY <1>6 DEF UploadAssets
  <2>2. job' \in JobType
    BY <2>1, <1>t, FailedType DEF Then, ReleaseTypeOK, JobType, PC
  <2>3. \A i \in DOMAIN releases' : releases'[i] \in ReleaseType
    BY <1>6, <1>t, ChangedType DEF UploadAssets, ReleaseTypeOK
  <2> QED
    BY <1>6, <1>t, <2>1, <2>2, <2>3, BudgetType DEF UploadAssets, ReleaseTypeOK
<1>7. CASE CaptureRollback
  BY <1>t, <1>7, Numbers DEF CaptureRollback, ReleaseTypeOK, JobType, PC
<1>8. CASE RecordPrior
  <2>1. PICK answered \in BOOLEAN :
           /\ Lose(answered)
           /\ Then(IF handler = Quiet THEN "worker" ELSE "exiting", answered)
           /\ handler' = IF answered THEN handler ELSE Quiet
    BY <1>8 DEF RecordPrior
  <2>2. job' \in JobType
    BY <2>1, <1>t, FailedType DEF Then, ReleaseTypeOK, JobType, PC
  <2>3. \A i \in DOMAIN releases' : releases'[i] \in ReleaseType
    BY <1>8, <1>t, ChangedType DEF RecordPrior, ReleaseTypeOK
  <2> QED
    BY <1>8, <1>t, <2>1, <2>2, <2>3, BudgetType, IdleType DEF RecordPrior, ReleaseTypeOK
<1>9. CASE UploadWorker
  <2>1. PICK answered \in BOOLEAN :
           /\ Lose(answered)
           /\ job' = IF answered THEN [job EXCEPT !.candidate = Len(versions) + 1, !.pc = "persist"]
                     ELSE Failed
    BY <1>9 DEF UploadWorker
  <2>2. job' \in JobType
    BY <2>1, <1>t, FailedType, Numbers DEF ReleaseTypeOK, JobType, PC
  <2>3. job.sha \in Sha
    BY <1>9, <1>t, ReleaseAssumption DEF UploadWorker, At, ReleaseInv, JobOK, DeployOK, Build
  <2>4. [run |-> job.run, release |-> job.release, sha |-> job.sha, tag |-> job.tag] \in VersionType
    BY <2>3, <1>t DEF ReleaseTypeOK, JobType, VersionType
  <2>5. versions' \in Seq(VersionType) /\ Len(versions') = Len(versions) + 1
    BY <1>9, <2>4, <1>t DEF UploadWorker, ReleaseTypeOK
  <2>6. live' \in [main : DOMAIN versions', staged : {None} \cup DOMAIN versions']
    BY <1>9, <2>5, <1>t DEF UploadWorker, ReleaseTypeOK
  <2> QED
    BY <1>9, <1>t, <2>1, <2>2, <2>5, <2>6, BudgetType DEF UploadWorker, ReleaseTypeOK
<1>10. CASE RecordCandidate
  <2>1. PICK answered \in BOOLEAN : Lose(answered) /\ Then("stage", answered)
    BY <1>10 DEF RecordCandidate
  <2>2. job' \in JobType
    BY <2>1, <1>t, FailedType DEF Then, ReleaseTypeOK, JobType, PC
  <2>3. \A i \in DOMAIN releases' : releases'[i] \in ReleaseType
    BY <1>10, <1>t, ChangedType DEF RecordCandidate, ReleaseTypeOK
  <2> QED
    BY <1>10, <1>t, <2>1, <2>2, <2>3, BudgetType DEF RecordCandidate, ReleaseTypeOK
<1>11. CASE DeployStaged
  <2>1. PICK answered \in BOOLEAN : Lose(answered) /\ Then("promote", answered)
    BY <1>11 DEF DeployStaged
  <2>2. job' \in JobType
    BY <2>1, <1>t, FailedType DEF Then, ReleaseTypeOK, JobType, PC
  <2>3. handler.pc = "none"
    BY <1>11, HandlerIsQuiet DEF DeployStaged, At
  <2>4. job.prior \in DOMAIN versions /\ job.candidate \in DOMAIN versions
    BY <1>11, <2>3, OwningTypes DEF DeployStaged, At, Owning
  <2>5. live' \in [main : DOMAIN versions', staged : {None} \cup DOMAIN versions']
    BY <1>11, <2>4 DEF DeployStaged
  <2>6. displaced' \in [1 .. MaxJobs -> Nat]
    BY <1>11, <1>t, Numbers DEF DeployStaged, ReleaseTypeOK
  <2> QED
    BY <1>11, <1>t, <2>1, <2>2, <2>5, <2>6, BudgetType DEF DeployStaged, ReleaseTypeOK
<1>12. CASE Promote
  <2>1. PICK answered \in BOOLEAN : Lose(answered) /\ Then("smoke", answered)
    BY <1>12 DEF Promote
  <2>2. job' \in JobType
    BY <2>1, <1>t, FailedType DEF Then, ReleaseTypeOK, JobType, PC
  <2>3. handler.pc = "none"
    BY <1>12, HandlerIsQuiet DEF Promote, At
  <2>4. job.candidate \in DOMAIN versions
    BY <1>12, <2>3, OwningTypes DEF Promote, At, Owning
  <2>5. live' \in [main : DOMAIN versions', staged : {None} \cup DOMAIN versions']
    BY <1>12, <2>4 DEF Promote
  <2> QED
    BY <1>12, <1>t, <2>1, <2>2, <2>5, BudgetType DEF Promote, ReleaseTypeOK
<1>13. CASE SmokeLive
  BY <1>t, <1>13 DEF SmokeLive, ReleaseTypeOK, JobType, PC
<1>14. ASSUME NEW answered \in BOOLEAN, Unproven(answered)
       PROVE  job' \in JobType
  BY <1>14, <1>t DEF Unproven, ReleaseTypeOK, JobType, PC
<1>15. CASE MarkPublishing
  <2>1. PICK answered \in BOOLEAN : Lose(answered) /\ Unproven(answered)
    BY <1>15 DEF MarkPublishing
  <2>2. \A i \in DOMAIN releases' : releases'[i] \in ReleaseType
    BY <1>15, <1>t, ChangedType DEF MarkPublishing, ReleaseTypeOK
  <2> QED
    BY <1>15, <1>t, <1>14, <2>1, <2>2, BudgetType DEF MarkPublishing, ReleaseTypeOK
<1>16. CASE Publish
  <2>1. PICK answered \in BOOLEAN : Lose(answered) /\ Unproven(answered)
    BY <1>16 DEF Publish
  <2>2. \A i \in DOMAIN releases' : releases'[i] \in ReleaseType
    BY <1>16, <1>t, ChangedType DEF Publish, ReleaseTypeOK
  <2>3. tags' \in [Tag -> Sha \cup {NoSha}]
    BY <1>16, <1>t DEF Publish, ReleaseTypeOK, JobType
  <2> QED
    BY <1>16, <1>t, <1>14, <2>1, <2>2, <2>3, BudgetType DEF Publish, ReleaseTypeOK
<1>17. CASE Committed
  BY <1>t, <1>17 DEF Committed, ReleaseTypeOK, JobType, PC
<1>18. CASE TagAppears
  <2>1. PICK i \in DOMAIN releases : tags' = [tags EXCEPT ![releases[i].tag] = releases[i].sha]
    BY <1>18 DEF TagAppears
  <2>2. releases[i] \in ReleaseType
    BY <1>t DEF ReleaseTypeOK
  <2>3. tags' \in [Tag -> Sha \cup {NoSha}]
    BY <2>1, <2>2, <1>t DEF ReleaseTypeOK, ReleaseType
  <2> QED
    BY <1>18, <1>t, <2>3 DEF TagAppears, ReleaseTypeOK
<1>19. CASE Reconcile
  <2> DEFINE D(seen) == Decide(job.tag, job.sha, job.run, Claims, seen)
  <2>1. PICK seen \in {NoSha, LiveSha} :
          \/ /\ D(seen).action # "cleanup"
             /\ job' = Idle
             /\ UNCHANGED <<live, budget>>
          \/ /\ D(seen).action = "cleanup"
             /\ Collapse(D(seen).prior)
             /\ \E answered \in BOOLEAN :
                  /\ Lose(answered)
                  /\ job' = IF answered
                            THEN [job EXCEPT !.pc = "delete", !.release = D(seen).release,
                                             !.prior = D(seen).prior]
                            ELSE Idle
    BY <1>19 DEF Reconcile
  <2>2. UNCHANGED <<releases, created, tags, versions, configured, handler, displaced, strays>>
    BY <1>19 DEF Reconcile
  <2>3. CASE D(seen).action = "cleanup"
    <3>1. PICK i \in DOMAIN releases, prior \in DOMAIN versions :
             D(seen) = [action |-> "cleanup", release |-> i, prior |-> prior]
      BY <2>3, Cleanup
    <3>2. i \in Nat /\ prior \in Nat
      BY <1>t DEF ReleaseTypeOK
    <3>3. live' = [main |-> prior, staged |-> None]
      BY <2>1, <2>3, <3>1 DEF Collapse
    <3>4. PICK answered \in BOOLEAN :
             /\ Lose(answered)
             /\ job' = IF answered THEN [job EXCEPT !.pc = "delete", !.release = i, !.prior = prior]
                       ELSE Idle
      BY <2>1, <2>3, <3>1
    <3>5. job' \in JobType
      BY <3>2, <3>4, <1>t, IdleType DEF ReleaseTypeOK, JobType, PC
    <3> QED
      BY <2>2, <3>3, <3>4, <3>5, <1>t, BudgetType DEF ReleaseTypeOK
  <2>4. CASE D(seen).action # "cleanup"
    BY <2>1, <2>2, <2>4, <1>t, IdleType DEF ReleaseTypeOK
  <2> QED
    BY <2>3, <2>4
<1>20. CASE DeleteDraft
  BY <1>t, <1>20, IdleType DEF DeleteDraft, Without, ReleaseTypeOK
<1>21. CASE Signal
  BY <1>t, <1>21 DEF Signal, ReleaseTypeOK
<1>22. CASE Compensate
  <2> DEFINE D(seen) == Decide(job.tag, job.sha, job.run, NoClaims, seen)
  <2>1. PICK seen \in {NoSha, LiveSha} :
          \/ D(seen).action # "cleanup" /\ Exit /\ UNCHANGED <<live, budget>>
          \/ /\ D(seen).action = "cleanup"
             /\ Collapse(D(seen).prior)
             /\ \E answered \in BOOLEAN :
                  /\ Lose(answered)
                  /\ IF answered
                     THEN /\ handler' = [pc |-> "delete", release |-> D(seen).release,
                                         prior |-> D(seen).prior]
                          /\ UNCHANGED job
                     ELSE Exit
    BY <1>22 DEF Compensate
  <2>2. UNCHANGED <<releases, created, tags, versions, configured, displaced, strays>>
    BY <1>22 DEF Compensate
  <2>3. CASE D(seen).action = "cleanup"
    <3>1. PICK i \in DOMAIN releases, prior \in DOMAIN versions :
             D(seen) = [action |-> "cleanup", release |-> i, prior |-> prior]
      BY <2>3, Cleanup
    <3>2. i \in Nat /\ prior \in Nat
      BY <1>t DEF ReleaseTypeOK
    <3>3. live' = [main |-> prior, staged |-> None]
      BY <2>1, <2>3, <3>1 DEF Collapse
    <3>4. PICK answered \in BOOLEAN :
             /\ Lose(answered)
             /\ IF answered THEN /\ handler' = [pc |-> "delete", release |-> i, prior |-> prior]
                                 /\ UNCHANGED job
                ELSE Exit
      BY <2>1, <2>3, <3>1
    <3>5. job' \in JobType /\ handler' \in [pc : {"none", "reconcile", "delete"}, release : Nat, prior : Nat]
      <4>1. CASE answered
        BY <4>1, <3>2, <3>4, <1>t DEF ReleaseTypeOK
      <4>2. CASE ~answered
        BY <4>2, <3>4, <1>t, FailedType, IdleType DEF Exit
      <4> QED
        BY <4>1, <4>2
    <3> QED
      BY <2>2, <3>3, <3>4, <3>5, <1>t, BudgetType DEF ReleaseTypeOK
  <2>4. CASE D(seen).action # "cleanup"
    BY <2>1, <2>2, <2>4, <1>t, FailedType, IdleType DEF Exit, ReleaseTypeOK
  <2> QED
    BY <2>3, <2>4
<1>23. CASE CompensateDelete
  BY <1>t, <1>23, IdleType, FailedType DEF CompensateDelete, Exit, Without, ReleaseTypeOK
<1>24. ASSUME NEW v \in DOMAIN versions, Rollback(v)
       PROVE  ReleaseTypeOK'
  <2>1. versions[v] \in VersionType
    BY <1>t DEF ReleaseTypeOK
  <2>2. strays' \subseteq Sha
    BY <1>24, <2>1, <1>t DEF Rollback, ReleaseTypeOK, VersionType
  <2>3. live' \in [main : DOMAIN versions', staged : {None} \cup DOMAIN versions']
    BY <1>24 DEF Rollback, Collapse
  <2>4. budget' \in [jobs : Nat, doubt : Nat, rollbacks : Nat]
    BY <1>24, <1>t DEF Rollback, ReleaseTypeOK
  <2> QED
    BY <1>24, <1>t, <2>2, <2>3, <2>4 DEF Rollback, ReleaseTypeOK
<1>25. CASE Reconfigure
  <2>1. configured' \in BOOLEAN
    BY <1>25 DEF Reconfigure
  <2>2. budget' \in [jobs : Nat, doubt : Nat, rollbacks : Nat]
    BY <1>25, <1>t DEF Reconfigure, ReleaseTypeOK
  <2> QED
    BY <1>t, <1>25, <2>1, <2>2 DEF Reconfigure, ReleaseTypeOK
<1>26. CASE UNCHANGED vars
  BY <1>t, <1>26 DEF vars, ReleaseTypeOK
<1> QED
  BY <1>1, <1>2, <1>3, <1>4, <1>5, <1>6, <1>7, <1>8, <1>9, <1>10, <1>11, <1>12, <1>13,
     <1>15, <1>16, <1>17, <1>18, <1>19, <1>20, <1>21, <1>22, <1>23, <1>24, <1>25, <1>26
  DEF ReleaseNext

-----------------------------------------------------------------------------
(* The books of the releases and versions                                  *)

\* A marker keeps what it says, and learns a version only of another release.
Carries(old, new, i) ==
    /\ new.run = old.run /\ new.tag = old.tag /\ new.sha = old.sha
    /\ new.candidate = old.candidate \/ BuildOf(new.candidate, i)
    /\ \/ new.prior = old.prior
       \/ /\ old.prior = None /\ new.prior # None
          /\ new.prior \in DOMAIN versions /\ versions[new.prior].release # i

LEMMA BooksStep ==
    ASSUME ReleaseInv, UNCHANGED <<created, versions, displaced>>, live'.staged # 1,
           DOMAIN releases' \subseteq DOMAIN releases,
           \A i \in DOMAIN releases' : Carries(releases[i], releases'[i], i)
    PROVE  Books'
<1> USE DEF ReleaseInv, Books
<1>1. VersionsOK'
  BY DEF VersionsOK, Carries, Build
<1>2. ASSUME NEW i \in DOMAIN releases'
      PROVE  ReleaseOK(i)'
  <2>1. ReleaseOK(i) /\ Carries(releases[i], releases'[i], i)
    BY <1>2
  <2>2. Build(releases[i])'
    BY <2>1 DEF ReleaseOK, Carries, Build
  <2>3. (releases[i].candidate # None => BuildOf(releases[i].candidate, i))'
    BY <2>1 DEF ReleaseOK, Carries, BuildOf
  <2>4. (releases[i].prior # None =>
           releases[i].prior \in DOMAIN versions /\ versions[releases[i].prior].release # i)'
    BY <2>1 DEF ReleaseOK, Carries
  <2>5. (displaced[i] \in {None, releases[i].prior})'
    BY <2>1 DEF ReleaseOK, Carries
  <2> QED
    BY <2>2, <2>3, <2>4, <2>5 DEF ReleaseOK
<1> QED
  BY <1>1, <1>2

\* Nothing but the traffic, the job, the tags and the counters changes.
LEMMA BooksKeep ==
    ASSUME ReleaseInv, UNCHANGED <<releases, created, versions, displaced>>, live'.staged # 1
    PROVE  Books'
BY BooksStep DEF Carries

LEMMA StagedIsUploaded ==
    ASSUME ReleaseInv
    PROVE  live.staged # 1 /\ None # 1
BY DEF ReleaseInv, Books, VersionsOK, None

-----------------------------------------------------------------------------
(* Where the job and its handler are                                       *)

\* A job that ends, or fails, has nothing more to keep.
LEMMA Ends ==
    ASSUME ReleaseInv, job' = Idle \/ (job.kind = "deploy" /\ job' = Failed), handler' = Quiet
    PROVE  JobOK' /\ HandlerOK'
<1>1. HandlerOK'
  BY DEF HandlerOK, Quiet
<1>2. CASE job' = Idle
  BY <1>1, <1>2 DEF JobOK, Idle
<1>3. CASE job.kind = "deploy" /\ job' = Failed
  <2>1. Build(job) /\ job \in JobType
    BY <1>3 DEF ReleaseInv, ReleaseTypeOK, JobOK, DeployOK
  <2>2. /\ job'.kind = "deploy" /\ job'.pc = "reconcile" /\ job'.run = job.run
        /\ job'.tag = job.tag /\ job'.sha = job.sha
    BY <1>3, <2>1 DEF Failed, JobType
  <2> QED
    BY <1>1, <2>1, <2>2 DEF JobOK, DeployOK, Build, Owning
<1> QED
  BY <1>2, <1>3

\* A deploy job is at a place that asks for nothing.
LEMMA Free ==
    ASSUME ReleaseInv, job.kind = "deploy", job'.kind = "deploy",
           job'.run = job.run, job'.tag = job.tag, job'.sha = job.sha,
           job'.pc \in {"draft", "smoke", "publish", "reconcile"}, handler' = Quiet
    PROVE  JobOK' /\ HandlerOK'
BY DEF ReleaseInv, JobOK, DeployOK, Build, Owning, HandlerOK, Quiet

\* A deploy job moves on with its draft.
LEMMA Moves ==
    ASSUME ReleaseInv, job.kind = "deploy", job'.kind = "deploy",
           job'.run = job.run, job'.tag = job.tag, job'.sha = job.sha, job'.pc \in Owning,
           IsPrepared(job.release)', MarkerMatches(job.release, job.tag, job.sha, job.run)',
           (job.pc \in {"exiting", "worker", "persist", "stage", "promote"} => Recorded)',
           (job.pc \in {"persist", "stage", "promote"} => BuildOf(job.candidate, job.release))',
           (job.pc = "record" /\ handler.pc # "delete" => Alone(job.prior))',
           (job.pc = "record" => job.prior # None)',
           (job.pc \in {"worker", "persist", "stage"} => Alone(job.prior))',
           (job.pc = "promote" => live = [main |-> job.prior, staged |-> job.candidate])'
    PROVE  JobOK'
<1>1. Build(job)'
  BY DEF ReleaseInv, JobOK, DeployOK, Build
<1>2. DeployOK'
  BY <1>1 DEF DeployOK, Owning
<1> QED
  BY <1>2 DEF JobOK, Owning

LEMMA QuietOK ==
    ASSUME handler' = Quiet
    PROVE  HandlerOK'
BY DEF HandlerOK, Quiet

\* The draft of a job that owns it is the one its classification finds.
LEMMA OwnDraft ==
    ASSUME ReleaseInv, job.kind = "deploy", job.pc \in Owning
    PROVE  /\ job.release \in DOMAIN releases /\ IsPrepared(job.release)
           /\ MarkerMatches(job.release, job.tag, job.sha, job.run)
           /\ job.release \in Drafts(job.tag, job.sha, job.run)
BY DEF ReleaseInv, JobOK, DeployOK, IsPrepared, Drafts

LEMMA StartStep ==
    ASSUME ReleaseInv, NEW new, Start(new),
           \/ \E r \in Run : /\ new.kind = "deploy" /\ new.pc = "draft" /\ new.run = r
                             /\ new.tag = TagOf[r] /\ new.sha = ShaOf[r]
           \/ new.kind = "reconcile" /\ new.pc = "reconcile"
    PROVE  Books' /\ JobOK' /\ HandlerOK'
<1>1. /\ UNCHANGED <<releases, created, versions, displaced, live, handler>>
      /\ job = Idle /\ job' = new
  BY DEF Start, github, cloudflare, ghosts
<1>2. Books'
  BY <1>1, BooksKeep, StagedIsUploaded
<1>3. handler' = Quiet
  BY <1>1 DEF ReleaseInv, HandlerOK, Idle, ReleaseTypeOK
<1>4. JobOK'
  BY <1>1 DEF JobOK, DeployOK, Build, Owning
<1> QED
  BY <1>2, <1>3, <1>4, QuietOK

LEMMA EndStep ==
    ASSUME ReleaseInv, StepFails \/ Stop
    PROVE  Books' /\ JobOK' /\ HandlerOK'
<1>1. /\ UNCHANGED <<releases, created, versions, displaced, live>> /\ handler' = Quiet
      /\ job' = Idle \/ (job.kind = "deploy" /\ job' = Failed)
  BY DEF StepFails, Stop, github, cloudflare, ghosts
<1> QED
  BY <1>1, BooksKeep, StagedIsUploaded, Ends

LEMMA CreateStep ==
    ASSUME ReleaseInv, ReleaseTypeOK', PrepareDraft, CreateDraft
    PROVE  Books' /\ JobOK' /\ HandlerOK'
<1>1. /\ UNCHANGED <<versions, live, configured, handler, displaced, strays, tags>>
      /\ job.kind = "deploy" /\ job.pc = "draft"
  BY DEF PrepareDraft, CreateDraft, At, cloudflare, ghosts
<1> DEFINE new == created + 1
<1>2. PICK named \in Named :
         releases' = [i \in DOMAIN releases \cup {new} |->
             IF i \in DOMAIN releases THEN releases[i]
             ELSE [run |-> job.run, tag |-> job.tag, sha |-> job.sha, draft |-> TRUE,
                   named |-> named, state |-> "prepared", assets |-> FALSE,
                   prior |-> None, candidate |-> None]]
  BY DEF CreateDraft
<1>3. created' = new /\ created < MaxJobs /\ new \notin DOMAIN releases /\ new \in 1 .. MaxJobs
  <2>1. created' = new /\ created < MaxJobs
    BY DEF CreateDraft
  <2> QED
    BY <2>1, Numbers, ReleaseAssumption DEF ReleaseInv, ReleaseTypeOK
<1>4. handler' = Quiet
  BY <1>1, HandlerIsQuiet
<1>5. job \in JobType /\ Build(job)
  BY <1>1 DEF ReleaseInv, ReleaseTypeOK, JobOK, DeployOK
<1>6. VersionsOK'
  <2>1. VersionsOK
    BY DEF ReleaseInv, Books
  <2>2. \A v \in DOMAIN versions : v > 1 => versions[v].release \in 1 .. created'
    BY <2>1, <1>3, Numbers DEF VersionsOK, ReleaseInv
  <2>3. \A v \in DOMAIN versions : versions[v].release # new
    <3>1. ASSUME NEW v \in DOMAIN versions
          PROVE  versions[v].release \in 0 .. created
      <4>1. v \in Nat /\ (v = 1 \/ v > 1)
        BY Numbers DEF ReleaseInv
      <4> QED
        BY <2>1, <4>1, Numbers DEF VersionsOK, FirstVersion, None, ReleaseInv
    <3> QED
      BY <3>1, Numbers DEF ReleaseInv
  <2>4. \A v \in DOMAIN versions : versions[v].release \in DOMAIN releases' =>
           releases'[versions[v].release].prior # None
    BY <2>1, <2>3, <1>2 DEF VersionsOK
  <2> QED
    BY <2>1, <2>2, <2>4, <1>1 DEF VersionsOK, Build
<1>7. ASSUME NEW i \in DOMAIN releases'
      PROVE  ReleaseOK(i)'
  <2>1. CASE i \in DOMAIN releases
    <3>1. ReleaseOK(i) /\ releases'[i] = releases[i]
      BY <2>1, <1>2 DEF ReleaseInv, Books
    <3> QED
      BY <3>1, <1>1 DEF ReleaseOK, Build, BuildOf
  <2>2. CASE i \notin DOMAIN releases
    <3>1. i = new /\ displaced[i] = None
      BY <2>2, <1>2, <1>3, Numbers DEF ReleaseInv, Books
    <3>2. /\ releases'[i].run = job.run /\ releases'[i].tag = job.tag /\ releases'[i].sha = job.sha
          /\ releases'[i].prior = None /\ releases'[i].candidate = None
      BY <3>1, <1>2, <1>3
    <3> QED
      BY <3>1, <3>2, <1>1, <1>5 DEF ReleaseOK, Build
  <2> QED
    BY <2>1, <2>2
<1>8. (\A i \in 1 .. MaxJobs : i > created => displaced[i] = None)'
  BY <1>1, <1>3, Numbers DEF ReleaseInv, Books
<1>9. JobOK'
  <2>1. PICK answered \in BOOLEAN :
           job' = IF answered THEN [job EXCEPT !.release = new, !.pc = "assets"] ELSE job
    BY DEF CreateDraft
  <2>2. CASE answered
    <3>1. /\ job'.kind = "deploy" /\ job'.run = job.run /\ job'.tag = job.tag
          /\ job'.sha = job.sha /\ job'.pc = "assets" /\ job'.release = new
      BY <2>1, <2>2, <1>1, <1>5 DEF JobType
    <3>2. /\ releases'[new].draft /\ releases'[new].state = "prepared" /\ new \in DOMAIN releases'
          /\ releases'[new].run = job.run /\ releases'[new].tag = job.tag
          /\ releases'[new].sha = job.sha
      BY <1>2, <1>3
    <3>3. IsPrepared(job.release)' /\ MarkerMatches(job.release, job.tag, job.sha, job.run)'
      BY <3>1, <3>2 DEF IsPrepared, MarkerMatches
    <3> QED
      BY <3>1, <3>3, <1>1, Moves DEF Owning
  <2>3. CASE ~answered
    BY <2>1, <2>3, <1>1, <1>4, Free
  <2> QED
    BY <2>2, <2>3
<1> QED
  BY <1>4, <1>6, <1>7, <1>8, <1>9, QuietOK DEF Books

LEMMA PrepareStep ==
    ASSUME ReleaseInv, ReleaseTypeOK', PrepareDraft
    PROVE  Books' /\ JobOK' /\ HandlerOK'
<1>1. /\ UNCHANGED <<versions, live, handler, displaced>> /\ job.kind = "deploy" /\ job.pc = "draft"
  BY DEF PrepareDraft, At, cloudflare, ghosts
<1>2. handler' = Quiet /\ job \in JobType
  BY <1>1, HandlerIsQuiet DEF ReleaseInv, ReleaseTypeOK
<1>3. ASSUME NEW kind, NEW pc, Adopt(kind, pc)
      PROVE  Books'
  BY <1>1, <1>3, BooksKeep, StagedIsUploaded DEF Adopt, github
<1>4. CASE Adopt("prepared", "assets")
  <2> DEFINE i == Classify(job.tag, job.sha, job.run).release
  <2>1. Own(i, "prepared", job.tag, job.sha, job.run)
    BY <1>4, ClassifiedDraft DEF Adopt, ReleaseInv
  <2> HIDE DEF i
  <2>2. job' = [job EXCEPT !.release = i, !.pc = "assets"] /\ releases' = releases
    BY <1>4 DEF Adopt, github, i
  <2>3. /\ job'.kind = "deploy" /\ job'.run = job.run /\ job'.tag = job.tag
        /\ job'.sha = job.sha /\ job'.pc = "assets" /\ job'.release = i
    BY <2>2, <1>1, <1>2 DEF JobType
  <2>4. IsPrepared(job.release)' /\ MarkerMatches(job.release, job.tag, job.sha, job.run)'
    BY <2>1, <2>2, <2>3 DEF Own, IsPrepared, MarkerMatches
  <2>5. JobOK'
    BY <2>3, <2>4, <1>1, Moves DEF Owning
  <2> QED
    BY <1>2, <1>3, <1>4, <2>5, QuietOK
<1>5. ASSUME NEW kind, NEW pc \in {"smoke", "reconcile"}, Adopt(kind, pc)
      PROVE  JobOK' /\ HandlerOK'
  <2>1. /\ job'.kind = "deploy" /\ job'.run = job.run /\ job'.tag = job.tag
        /\ job'.sha = job.sha /\ job'.pc = pc
    BY <1>1, <1>2, <1>5 DEF Adopt, JobType
  <2> QED
    BY <1>1, <1>2, <2>1, Free
<1> QED
  BY <1>3, <1>4, <1>5, CreateStep DEF PrepareDraft

\* A step that asks for the draft to be prepared has it.
LEMMA Then1 ==
    ASSUME ReleaseInv, job.kind = "deploy", NEW pc, NEW answered \in BOOLEAN, Then(pc, answered)
    PROVE  /\ answered => /\ job'.kind = "deploy" /\ job'.run = job.run /\ job'.tag = job.tag
                          /\ job'.sha = job.sha /\ job'.pc = pc /\ job'.release = job.release
                          /\ job'.prior = job.prior /\ job'.candidate = job.candidate
           /\ ~answered => job' = Failed
<1>1. job \in JobType
  BY DEF ReleaseInv, ReleaseTypeOK
<1> QED
  BY <1>1 DEF Then, JobType

LEMMA AssetsStep ==
    ASSUME ReleaseInv, UploadAssets
    PROVE  Books' /\ JobOK' /\ HandlerOK'
<1>1. /\ job.kind = "deploy" /\ job.pc = "assets"
      /\ UNCHANGED <<created, versions, live, displaced, handler>>
      /\ releases' = [releases EXCEPT ![job.release].assets = TRUE]
  BY DEF UploadAssets, At, cloudflare, ghosts
<1>2. handler' = Quiet
  BY <1>1, HandlerIsQuiet
<1>3. /\ DOMAIN releases' = DOMAIN releases
      /\ \A i \in DOMAIN releases : /\ Carries(releases[i], releases'[i], i)
                                    /\ releases'[i].draft = releases[i].draft
                                    /\ releases'[i].state = releases[i].state
  <2>1. \A i \in DOMAIN releases : releases[i] \in ReleaseType
    BY DEF ReleaseInv, ReleaseTypeOK
  <2> QED
    BY <1>1, <2>1 DEF Carries, ReleaseType
<1>4. Books'
  BY <1>1, <1>3, BooksStep, StagedIsUploaded
<1>5. PICK answered \in BOOLEAN : Then("capture", answered)
  BY DEF UploadAssets
<1>6. CASE answered
  <2>1. /\ job'.kind = "deploy" /\ job'.run = job.run /\ job'.tag = job.tag
        /\ job'.sha = job.sha /\ job'.pc = "capture" /\ job'.release = job.release
    BY <1>1, <1>5, <1>6, Then1
  <2>2. IsPrepared(job.release)' /\ MarkerMatches(job.release, job.tag, job.sha, job.run)'
    <3>1. /\ job.release \in DOMAIN releases /\ IsPrepared(job.release)
          /\ MarkerMatches(job.release, job.tag, job.sha, job.run)
      BY <1>1, OwnDraft DEF Owning
    <3> QED
      BY <1>3, <2>1, <3>1 DEF IsPrepared, MarkerMatches, Carries
  <2>3. JobOK'
    BY <1>1, <2>1, <2>2, Moves DEF Owning
  <2> QED
    BY <1>2, <1>4, <2>3, QuietOK
<1>7. CASE ~answered
  BY <1>1, <1>2, <1>4, <1>5, <1>7, Then1, Ends
<1> QED
  BY <1>6, <1>7

LEMMA CaptureStep ==
    ASSUME ReleaseInv, CaptureRollback
    PROVE  Books' /\ JobOK' /\ HandlerOK'
<1>1. /\ job.kind = "deploy" /\ job.pc = "capture" /\ live.staged = None
      /\ UNCHANGED <<releases, created, versions, live, displaced, handler>>
      /\ job' = [job EXCEPT !.prior = live.main, !.pc = "record"]
  BY DEF CaptureRollback, At, github, cloudflare, ghosts
<1>2. handler' = Quiet /\ job \in JobType
  BY <1>1, HandlerIsQuiet DEF ReleaseInv, ReleaseTypeOK
<1>3. Books'
  BY <1>1, BooksKeep, StagedIsUploaded
<1>4. /\ job'.kind = "deploy" /\ job'.run = job.run /\ job'.tag = job.tag
      /\ job'.sha = job.sha /\ job'.pc = "record" /\ job'.release = job.release
      /\ job'.prior = live.main
  BY <1>1, <1>2 DEF JobType
<1>5. IsPrepared(job.release)' /\ MarkerMatches(job.release, job.tag, job.sha, job.run)'
  BY <1>1, <1>4, OwnDraft DEF Owning, IsPrepared, MarkerMatches
<1>6. Alone(job.prior)' /\ job'.prior # None
  <2>1. live = [main |-> live.main, staged |-> live.staged]
    BY DEF ReleaseInv, ReleaseTypeOK
  <2> QED
    BY <2>1, <1>1, <1>4, Numbers DEF ReleaseInv, Alone, None
<1>7. JobOK'
  BY <1>1, <1>4, <1>5, <1>6, Moves DEF Owning
<1> QED
  BY <1>2, <1>3, <1>7, QuietOK

\* What the job captured is what serves, or the handler went back to it.
LEMMA CapturedIsLive ==
    ASSUME ReleaseInv, At("record"), releases[job.release].prior = None
    PROVE  Alone(job.prior) /\ job.prior \in DOMAIN versions
<1>1. Alone(job.prior)
  <2>1. CASE handler.pc = "delete"
    BY <2>1 DEF ReleaseInv, HandlerOK
  <2>2. CASE handler.pc # "delete"
    BY <2>2 DEF At, ReleaseInv, JobOK, DeployOK
  <2> QED
    BY <2>1, <2>2
<1> QED
  BY <1>1, Numbers DEF Alone, ReleaseInv

LEMMA RecordStep ==
    ASSUME ReleaseInv, RecordPrior
    PROVE  Books' /\ JobOK' /\ HandlerOK'
<1> DEFINE r == releases[job.release]
<1>1. /\ job.kind = "deploy" /\ job.pc = "record" /\ At("record")
      /\ UNCHANGED <<created, versions, live, displaced>>
      /\ releases' = [releases EXCEPT ![job.release].prior = job.prior]
      /\ r.prior = None \/ r.prior = job.prior
  BY DEF RecordPrior, At, cloudflare, ghosts, PriorMatches, Agrees
<1>2. /\ job.release \in DOMAIN releases /\ IsPrepared(job.release)
      /\ MarkerMatches(job.release, job.tag, job.sha, job.run)
  BY <1>1, OwnDraft DEF Owning
<1>3. job.prior # None
  BY <1>1 DEF ReleaseInv, JobOK, DeployOK
<1>4. r.prior = None => job.prior \in DOMAIN versions /\ versions[job.prior].release # job.release
  BY <1>1, <1>2, CapturedIsLive DEF ReleaseInv, Books, VersionsOK
<1>5. /\ DOMAIN releases' = DOMAIN releases /\ releases'[job.release].prior = job.prior
      /\ \A i \in DOMAIN releases : /\ Carries(releases[i], releases'[i], i)
                                    /\ releases'[i].draft = releases[i].draft
                                    /\ releases'[i].state = releases[i].state
  <2>1. \A i \in DOMAIN releases : releases[i] \in ReleaseType
    BY DEF ReleaseInv, ReleaseTypeOK
  <2>2. DOMAIN releases' = DOMAIN releases /\ releases'[job.release].prior = job.prior
    BY <1>1, <1>2, <2>1 DEF ReleaseType
  <2>3. ASSUME NEW i \in DOMAIN releases
        PROVE  /\ Carries(releases[i], releases'[i], i)
               /\ releases'[i].draft = releases[i].draft
               /\ releases'[i].state = releases[i].state
    <3>1. CASE i = job.release
      <4>1. /\ releases'[i].run = r.run /\ releases'[i].tag = r.tag /\ releases'[i].sha = r.sha
            /\ releases'[i].candidate = r.candidate /\ releases'[i].draft = r.draft
            /\ releases'[i].state = r.state /\ releases'[i].prior = job.prior
        BY <1>1, <1>2, <3>1, <2>1 DEF ReleaseType
      <4> QED
        BY <4>1, <3>1, <1>1, <1>3, <1>4 DEF Carries
    <3>2. CASE i # job.release
      BY <1>1, <3>2 DEF Carries
    <3> QED
      BY <3>1, <3>2
  <2> QED
    BY <2>2, <2>3
<1>6. Books'
  BY <1>1, <1>5, BooksStep, StagedIsUploaded
<1>7. PICK answered \in BOOLEAN :
         /\ Then(IF handler = Quiet THEN "worker" ELSE "exiting", answered)
         /\ handler' = IF answered THEN handler ELSE Quiet
  BY DEF RecordPrior
<1>8. CASE answered
  <2>1. /\ job'.kind = "deploy" /\ job'.run = job.run /\ job'.tag = job.tag
        /\ job'.sha = job.sha /\ job'.pc = (IF handler = Quiet THEN "worker" ELSE "exiting")
        /\ job'.release = job.release /\ job'.prior = job.prior /\ handler' = handler
    BY <1>1, <1>7, <1>8, Then1
  <2>2. IsPrepared(job.release)' /\ MarkerMatches(job.release, job.tag, job.sha, job.run)'
    BY <1>2, <1>5, <2>1 DEF IsPrepared, MarkerMatches, Carries
  <2>3. Recorded'
    BY <1>2, <1>3, <1>5, <2>1 DEF Recorded
  <2>4. handler = Quiet => Alone(job.prior)'
    <3>1. handler = Quiet => handler.pc # "delete"
      BY DEF Quiet
    <3> QED
      BY <3>1, <1>1, <2>1 DEF ReleaseInv, JobOK, DeployOK, Alone
  <2>5. JobOK'
    BY <1>1, <2>1, <2>2, <2>3, <2>4, Moves DEF Owning
  <2>6. HandlerOK'
    <3>1. CASE handler = Quiet
      BY <3>1, <2>1, QuietOK
    <3>2. CASE handler # Quiet
      <4>1. handler.pc # "none"
        BY <3>2 DEF ReleaseInv, HandlerOK
      <4>2. handler.pc = "delete" =>
              /\ handler.release = job.release /\ Alone(handler.prior)
              /\ handler.prior = job.prior
        BY <1>1, <1>2, <1>3 DEF ReleaseInv, HandlerOK, GaveWay
      <4>3. (handler.pc = "delete" =>
              /\ handler.release = job.release /\ Alone(handler.prior)
              /\ GaveWay(handler.release, handler.prior)
              /\ releases[job.release].prior = None => handler.prior = job.prior)'
        BY <4>2, <2>1, <1>1, <1>5 DEF Alone, GaveWay
      <4> QED
        BY <4>1, <4>3, <2>1, <3>2 DEF HandlerOK
    <3> QED
      BY <3>1, <3>2
  <2> QED
    BY <1>6, <2>5, <2>6
<1>9. CASE ~answered
  BY <1>1, <1>6, <1>7, <1>9, Then1, Ends
<1> QED
  BY <1>8, <1>9

LEMMA UploadStep ==
    ASSUME ReleaseInv, UploadWorker
    PROVE  Books' /\ JobOK' /\ HandlerOK'
<1> DEFINE new == [run |-> job.run, release |-> job.release, sha |-> job.sha, tag |-> job.tag]
           N == Len(versions) + 1
<1>1. /\ job.kind = "deploy" /\ job.pc = "worker"
      /\ UNCHANGED <<releases, created, live, displaced, handler>>
      /\ versions' = Append(versions, new)
  BY DEF UploadWorker, At, github, ghosts
<1>2. handler' = Quiet
  BY <1>1, HandlerIsQuiet
<1>3. /\ job.release \in DOMAIN releases /\ IsPrepared(job.release) /\ job.release \in 1 .. created
      /\ MarkerMatches(job.release, job.tag, job.sha, job.run) /\ Build(job) /\ Recorded
      /\ Alone(job.prior) /\ job \in JobType
  BY <1>1, OwnDraft, OwningTypes DEF Owning, ReleaseInv, JobOK, DeployOK, ReleaseTypeOK
<1>4. /\ \A v \in DOMAIN versions : versions'[v] = versions[v]
      /\ DOMAIN versions' = DOMAIN versions \cup {N} /\ versions'[N] = new
      /\ N \in Nat \ {0} /\ 1 \in DOMAIN versions /\ N > 1
  <2>1. versions \in Seq(VersionType) /\ Len(versions) \in Nat /\ Len(versions) > 0
    BY DEF ReleaseInv, ReleaseTypeOK
  <2>2. Len(versions') = N /\ DOMAIN versions' = 1 .. N /\ DOMAIN versions = 1 .. Len(versions)
    BY <1>1, <2>1
  <2> QED
    BY <1>1, <2>1, <2>2
<1>5. job.sha = releases[job.release].sha
  BY <1>3, ReleaseAssumption DEF MarkerMatches, Build
<1>6. VersionsOK'
  <2>1. VersionsOK
    BY DEF ReleaseInv, Books
  <2>2. (\A v \in DOMAIN versions : v > 1 => Build(versions[v]) /\ versions[v].release \in 1 .. created)'
    BY <2>1, <1>1, <1>3, <1>4 DEF VersionsOK, Build
  <2>3. (\A v \in DOMAIN versions : versions[v].release \in DOMAIN releases =>
            releases[versions[v].release].prior # None)'
    BY <2>1, <1>1, <1>3, <1>4 DEF VersionsOK, Recorded
  <2> QED
    BY <2>1, <2>2, <2>3, <1>1, <1>4 DEF VersionsOK
<1>7. ASSUME NEW i \in DOMAIN releases'
      PROVE  ReleaseOK(i)'
  <2>1. ReleaseOK(i)
    BY <1>1, <1>7 DEF ReleaseInv, Books
  <2> QED
    BY <2>1, <1>1, <1>4 DEF ReleaseOK, Build, BuildOf
<1>8. Books'
  BY <1>1, <1>6, <1>7 DEF Books, ReleaseInv
<1>9. PICK answered \in BOOLEAN :
         job' = IF answered THEN [job EXCEPT !.candidate = N, !.pc = "persist"] ELSE Failed
  BY DEF UploadWorker
<1>10. CASE answered
  <2>1. /\ job'.kind = "deploy" /\ job'.run = job.run /\ job'.tag = job.tag
        /\ job'.sha = job.sha /\ job'.pc = "persist" /\ job'.release = job.release
        /\ job'.prior = job.prior /\ job'.candidate = N
    BY <1>1, <1>3, <1>9, <1>10 DEF JobType
  <2>2. BuildOf(job.candidate, job.release)'
    BY <1>1, <1>4, <1>5, <2>1 DEF BuildOf
  <2>3. /\ IsPrepared(job.release)' /\ MarkerMatches(job.release, job.tag, job.sha, job.run)'
        /\ Recorded' /\ Alone(job.prior)'
    BY <1>1, <1>3, <2>1 DEF IsPrepared, MarkerMatches, Recorded, Alone
  <2>4. JobOK'
    BY <1>1, <2>1, <2>2, <2>3, Moves DEF Owning
  <2> QED
    BY <1>2, <1>8, <2>4, QuietOK
<1>11. CASE ~answered
  BY <1>1, <1>2, <1>8, <1>9, <1>11, Ends
<1> QED
  BY <1>10, <1>11

LEMMA CandidateStep ==
    ASSUME ReleaseInv, RecordCandidate
    PROVE  Books' /\ JobOK' /\ HandlerOK'
<1> DEFINE r == releases[job.release]
<1>1. /\ job.kind = "deploy" /\ job.pc = "persist"
      /\ UNCHANGED <<created, versions, live, displaced, handler>>
      /\ releases' = [releases EXCEPT ![job.release].candidate = job.candidate]
  BY DEF RecordCandidate, At, cloudflare, ghosts
<1>2. handler' = Quiet
  BY <1>1, HandlerIsQuiet
<1>3. /\ job.release \in DOMAIN releases /\ IsPrepared(job.release)
      /\ MarkerMatches(job.release, job.tag, job.sha, job.run)
      /\ Recorded /\ Alone(job.prior) /\ BuildOf(job.candidate, job.release)
  BY <1>1, OwnDraft DEF Owning, ReleaseInv, JobOK, DeployOK
<1>4. /\ DOMAIN releases' = DOMAIN releases
      /\ \A i \in DOMAIN releases : /\ Carries(releases[i], releases'[i], i)
                                    /\ releases'[i].draft = releases[i].draft
                                    /\ releases'[i].state = releases[i].state
                                    /\ releases'[i].prior = releases[i].prior
  <2>1. \A i \in DOMAIN releases : releases[i] \in ReleaseType
    BY DEF ReleaseInv, ReleaseTypeOK
  <2> QED
    BY <1>1, <1>3, <2>1 DEF Carries, ReleaseType
<1>5. Books'
  BY <1>1, <1>4, BooksStep, StagedIsUploaded
<1>6. PICK answered \in BOOLEAN : Then("stage", answered)
  BY DEF RecordCandidate
<1>7. CASE answered
  <2>1. /\ job'.kind = "deploy" /\ job'.run = job.run /\ job'.tag = job.tag
        /\ job'.sha = job.sha /\ job'.pc = "stage" /\ job'.release = job.release
        /\ job'.prior = job.prior /\ job'.candidate = job.candidate
    BY <1>1, <1>6, <1>7, Then1
  <2>2. IsPrepared(job.release)' /\ MarkerMatches(job.release, job.tag, job.sha, job.run)'
    BY <1>3, <1>4, <2>1 DEF IsPrepared, MarkerMatches, Carries
  <2>3. Recorded' /\ Alone(job.prior)' /\ BuildOf(job.candidate, job.release)'
    BY <1>1, <1>3, <1>4, <2>1 DEF Recorded, Alone, BuildOf, Carries
  <2>4. JobOK'
    BY <1>1, <2>1, <2>2, <2>3, Moves DEF Owning
  <2> QED
    BY <1>2, <1>5, <2>4, QuietOK
<1>8. CASE ~answered
  BY <1>1, <1>2, <1>5, <1>6, <1>8, Then1, Ends
<1> QED
  BY <1>7, <1>8

LEMMA StageStep ==
    ASSUME ReleaseInv, ReleaseTypeOK', DeployStaged
    PROVE  Books' /\ JobOK' /\ HandlerOK'
<1>1. /\ job.kind = "deploy" /\ job.pc = "stage"
      /\ UNCHANGED <<releases, created, versions, handler>>
      /\ live' = [main |-> job.prior, staged |-> job.candidate]
      /\ displaced' = [displaced EXCEPT ![job.release] = IF @ = None THEN live.main ELSE @]
  BY DEF DeployStaged, At, github
<1>2. handler' = Quiet /\ handler.pc = "none"
  BY <1>1, HandlerIsQuiet
<1>3. /\ job.release \in DOMAIN releases /\ job.release \in 1 .. created /\ job.release \in 1 .. MaxJobs
      /\ IsPrepared(job.release) /\ MarkerMatches(job.release, job.tag, job.sha, job.run)
      /\ Recorded /\ Alone(job.prior) /\ BuildOf(job.candidate, job.release)
      /\ live.main = job.prior
  BY <1>1, <1>2, OwnDraft, OwningTypes DEF Owning, ReleaseInv, JobOK, DeployOK
<1>4. job.candidate # 1
  BY <1>3, Numbers DEF BuildOf, ReleaseInv, Books, VersionsOK, FirstVersion, None
<1>5. VersionsOK'
  BY <1>1, <1>4 DEF ReleaseInv, Books, VersionsOK, Build
<1>6. displaced \in [1 .. MaxJobs -> Nat]
  BY DEF ReleaseInv, ReleaseTypeOK
<1>7. ASSUME NEW i \in DOMAIN releases'
      PROVE  ReleaseOK(i)'
  <2>1. ReleaseOK(i) /\ i \in 1 .. MaxJobs
    BY <1>1, <1>7, Numbers, ReleaseAssumption DEF ReleaseInv, Books, ReleaseTypeOK
  <2>2. (displaced[i] \in {None, releases[i].prior})'
    BY <2>1, <1>1, <1>3, <1>6 DEF ReleaseOK, Recorded
  <2> QED
    BY <2>1, <2>2, <1>1 DEF ReleaseOK, Build, BuildOf
<1>8. (\A i \in 1 .. MaxJobs : i > created => displaced[i] = None)'
  <2>1. ~(job.release > created)
    BY <1>3, Numbers DEF ReleaseInv
  <2> QED
    BY <2>1, <1>1, <1>6 DEF ReleaseInv, Books
<1>9. Books'
  BY <1>5, <1>7, <1>8 DEF Books
<1>10. PICK answered \in BOOLEAN : Then("promote", answered)
  BY DEF DeployStaged
<1>11. CASE answered
  <2>1. /\ job'.kind = "deploy" /\ job'.run = job.run /\ job'.tag = job.tag
        /\ job'.sha = job.sha /\ job'.pc = "promote" /\ job'.release = job.release
        /\ job'.prior = job.prior /\ job'.candidate = job.candidate
    BY <1>1, <1>10, <1>11, Then1
  <2>2. IsPrepared(job.release)' /\ MarkerMatches(job.release, job.tag, job.sha, job.run)'
    BY <1>1, <1>3, <2>1 DEF IsPrepared, MarkerMatches
  <2>3. Recorded' /\ BuildOf(job.candidate, job.release)'
    BY <1>1, <1>3, <2>1 DEF Recorded, BuildOf
  <2>4. JobOK'
    BY <1>1, <2>1, <2>2, <2>3, Moves DEF Owning
  <2> QED
    BY <1>2, <1>9, <2>4, QuietOK
<1>12. CASE ~answered
  BY <1>1, <1>2, <1>9, <1>10, <1>12, Then1, Ends
<1> QED
  BY <1>11, <1>12

LEMMA PromoteStep ==
    ASSUME ReleaseInv, Promote
    PROVE  Books' /\ JobOK' /\ HandlerOK'
<1>1. /\ job.kind = "deploy" /\ job.pc = "promote"
      /\ UNCHANGED <<releases, created, versions, displaced, handler>>
      /\ live' = [main |-> job.candidate, staged |-> None]
  BY DEF Promote, At, github, ghosts
<1>2. handler' = Quiet
  BY <1>1, HandlerIsQuiet
<1>3. Books'
  BY <1>1, BooksKeep, StagedIsUploaded
<1>4. PICK answered \in BOOLEAN : Then("smoke", answered)
  BY DEF Promote
<1>5. CASE answered
  BY <1>1, <1>2, <1>3, <1>4, <1>5, Then1, Free
<1>6. CASE ~answered
  BY <1>1, <1>2, <1>3, <1>4, <1>6, Then1, Ends
<1> QED
  BY <1>5, <1>6

\* The steps after the promotion rely on nothing but what they read.
LEMMA PublicationStep ==
    ASSUME ReleaseInv, SmokeLive \/ MarkPublishing \/ Publish \/ Committed
    PROVE  Books' /\ JobOK' /\ HandlerOK'
<1>1. /\ job.kind = "deploy" /\ job.pc \in {"smoke", "publish"}
      /\ UNCHANGED <<created, versions, live, displaced, handler>>
  BY DEF SmokeLive, MarkPublishing, Publish, Committed, MayPublish, At, cloudflare, ghosts, github
<1>2. handler' = Quiet /\ job \in JobType
  BY <1>1, HandlerIsQuiet DEF ReleaseInv, ReleaseTypeOK
<1>3. /\ DOMAIN releases' = DOMAIN releases
      /\ \A i \in DOMAIN releases : Carries(releases[i], releases'[i], i)
  <2>1. \A i \in DOMAIN releases : releases[i] \in ReleaseType
    BY DEF ReleaseInv, ReleaseTypeOK
  <2>2. CASE SmokeLive \/ Committed
    BY <2>2 DEF SmokeLive, Committed, github, Carries
  <2>3. CASE MarkPublishing
    BY <2>1, <2>3 DEF MarkPublishing, Carries, ReleaseType
  <2>4. CASE Publish
    BY <2>1, <2>4 DEF Publish, Carries, ReleaseType
  <2> QED
    BY <2>2, <2>3, <2>4
<1>4. Books'
  BY <1>1, <1>3, BooksStep, StagedIsUploaded
<1>5. /\ job'.kind = "deploy" /\ job'.run = job.run /\ job'.tag = job.tag /\ job'.sha = job.sha
      /\ job'.pc \in {"publish", "reconcile"}
  <2>1. CASE SmokeLive
    BY <2>1, <1>1, <1>2 DEF SmokeLive, JobType
  <2>2. CASE Committed
    BY <2>2, <1>1, <1>2 DEF Committed, JobType
  <2>3. CASE MarkPublishing \/ Publish
    <3>1. PICK answered \in BOOLEAN : Unproven(answered)
      BY <2>3 DEF MarkPublishing, Publish
    <3>2. job.pc = "publish"
      BY <2>3 DEF MarkPublishing, Publish, MayPublish, At
    <3> QED
      BY <3>1, <3>2, <1>1, <1>2 DEF Unproven, JobType
  <2> QED
    BY <2>1, <2>2, <2>3
<1> QED
  BY <1>1, <1>2, <1>4, <1>5, Free

LEMMA ElsewhereStep ==
    ASSUME ReleaseInv, TagAppears \/ Reconfigure \/ UNCHANGED vars
    PROVE  Books' /\ JobOK' /\ HandlerOK'
<1>1. UNCHANGED <<releases, created, versions, live, job, handler, displaced>>
  BY DEF TagAppears, Reconfigure, vars, github, cloudflare, ghosts
<1>2. Books'
  BY <1>1, BooksKeep, StagedIsUploaded
<1>3. JobOK'
  BY <1>1 DEF ReleaseInv, JobOK, DeployOK, Build, IsPrepared, MarkerMatches, Recorded,
              BuildOf, Alone, GaveWay
<1>4. HandlerOK'
  BY <1>1 DEF ReleaseInv, HandlerOK, Alone, GaveWay
<1> QED
  BY <1>2, <1>3, <1>4

LEMMA RollbackStep ==
    ASSUME ReleaseInv, NEW v \in DOMAIN versions, Rollback(v)
    PROVE  Books' /\ JobOK' /\ HandlerOK'
<1>1. /\ UNCHANGED <<releases, created, versions, displaced, job, handler>>
      /\ job = Idle /\ live' = [main |-> v, staged |-> None]
  BY DEF Rollback, Collapse, github
<1>2. handler = Quiet
  BY <1>1 DEF ReleaseInv, HandlerOK, ReleaseTypeOK, Idle
<1> QED
  BY <1>1, <1>2, BooksKeep, StagedIsUploaded, Ends

LEMMA DeleteStep ==
    ASSUME ReleaseInv, DeleteDraft \/ CompensateDelete
    PROVE  Books' /\ JobOK' /\ HandlerOK'
<1>1. UNCHANGED <<created, versions, live, displaced>>
  BY DEF DeleteDraft, CompensateDelete, cloudflare, ghosts
<1>2. \E i : releases' = Without(i)
  BY DEF DeleteDraft, CompensateDelete
<1>3. /\ DOMAIN releases' \subseteq DOMAIN releases
      /\ \A i \in DOMAIN releases' : Carries(releases[i], releases'[i], i)
  BY <1>2 DEF Without, Carries
<1>4. Books'
  BY <1>1, <1>3, BooksStep, StagedIsUploaded
<1>5. CASE DeleteDraft
  <2>1. job' = Idle /\ handler' = handler /\ job.pc = "delete"
    BY <1>5 DEF DeleteDraft
  <2>2. handler = Quiet
    BY <2>1 DEF ReleaseInv, HandlerOK, ReleaseTypeOK
  <2> QED
    BY <1>4, <2>1, <2>2, Ends
<1>6. CASE CompensateDelete
  <2>1. job' = Failed /\ handler' = Quiet /\ job.kind = "deploy"
    BY <1>6 DEF CompensateDelete, Exit, ReleaseInv, HandlerOK
  <2> QED
    BY <1>4, <2>1, Ends
<1> QED
  BY <1>5, <1>6

LEMMA SignalStep ==
    ASSUME ReleaseInv, Signal
    PROVE  Books' /\ JobOK' /\ HandlerOK'
<1>1. /\ UNCHANGED <<releases, created, versions, live, job, displaced>>
      /\ job.kind = "deploy" /\ job.pc = "record" /\ handler = Quiet
      /\ handler' = [handler EXCEPT !.pc = "reconcile"]
  BY DEF Signal, At, github, cloudflare, ghosts
<1>2. Books'
  BY <1>1, BooksKeep, StagedIsUploaded
<1>3. handler.pc = "none" /\ handler'.pc = "reconcile"
  BY <1>1 DEF Quiet
<1>4. JobOK'
  BY <1>1, <1>3 DEF ReleaseInv, JobOK, DeployOK, Build, IsPrepared, MarkerMatches, Recorded,
                    BuildOf, Alone, GaveWay
<1> QED
  BY <1>1, <1>2, <1>3, <1>4 DEF HandlerOK

LEMMA ReconcileStep ==
    ASSUME ReleaseInv, Reconcile
    PROVE  Books' /\ JobOK' /\ HandlerOK'
<1> DEFINE D(seen) == Decide(job.tag, job.sha, job.run, Claims, seen)
<1>1. PICK seen \in {NoSha, LiveSha} :
        \/ D(seen).action # "cleanup" /\ job' = Idle /\ UNCHANGED live
        \/ /\ D(seen).action = "cleanup"
           /\ live' = [main |-> D(seen).prior, staged |-> None]
           /\ \E answered \in BOOLEAN :
                 job' = IF answered
                        THEN [job EXCEPT !.pc = "delete", !.release = D(seen).release,
                                         !.prior = D(seen).prior]
                        ELSE Idle
  BY DEF Reconcile, Collapse
<1>2. UNCHANGED <<releases, created, versions, handler, displaced>> /\ job.pc = "reconcile"
  BY DEF Reconcile, github, ghosts
<1>3. handler' = Quiet /\ job \in JobType
  BY <1>2 DEF ReleaseInv, HandlerOK, ReleaseTypeOK
<1>4. Books'
  BY <1>1, <1>2, BooksKeep, StagedIsUploaded
<1>5. CASE D(seen).action = "cleanup"
  <2>1. PICK i \in DOMAIN releases, prior \in DOMAIN versions :
           /\ D(seen) = [action |-> "cleanup", release |-> i, prior |-> prior]
           /\ Cleans(i, prior, job.tag, job.sha, job.run)
    BY <1>5, Cleanup
  <2>2. PICK answered \in BOOLEAN :
           job' = IF answered THEN [job EXCEPT !.pc = "delete", !.release = i, !.prior = prior]
                  ELSE Idle
    BY <1>1, <1>5, <2>1
  <2>3. CASE answered
    <3>1. /\ job'.kind = job.kind /\ job'.run = job.run /\ job'.tag = job.tag
          /\ job'.sha = job.sha /\ job'.pc = "delete" /\ job'.release = i /\ job'.prior = prior
      BY <2>2, <2>3, <1>3 DEF JobType
    <3>2. job.kind = "deploy" \/ job.kind = "reconcile"
      BY <1>2, <1>3 DEF ReleaseInv, JobOK, JobType, Idle
    <3>3. job.kind = "deploy" => Build(job)'
      BY <3>1 DEF ReleaseInv, JobOK, DeployOK, Build
    <3>4. GaveWay(job.release, job.prior)'
      BY <2>1, <1>2, <3>1 DEF Cleans, GaveWay
    <3>5. JobOK'
      BY <3>1, <3>2, <3>3, <3>4 DEF JobOK, DeployOK, Owning
    <3> QED
      BY <1>3, <1>4, <3>5, QuietOK
  <2>4. CASE ~answered
    BY <2>2, <2>4, <1>3, <1>4, Ends
  <2> QED
    BY <2>3, <2>4
<1>6. CASE D(seen).action # "cleanup"
  BY <1>1, <1>3, <1>4, <1>6, Ends
<1> QED
  BY <1>5, <1>6

LEMMA CompensateStep ==
    ASSUME ReleaseInv, Compensate
    PROVE  Books' /\ JobOK' /\ HandlerOK'
<1> DEFINE D(seen) == Decide(job.tag, job.sha, job.run, NoClaims, seen)
<1>1. PICK seen \in {NoSha, LiveSha} :
        \/ D(seen).action # "cleanup" /\ Exit /\ UNCHANGED live
        \/ /\ D(seen).action = "cleanup"
           /\ live' = [main |-> D(seen).prior, staged |-> None]
           /\ \E answered \in BOOLEAN :
                 IF answered
                 THEN /\ handler' = [pc |-> "delete", release |-> D(seen).release,
                                     prior |-> D(seen).prior]
                      /\ UNCHANGED job
                 ELSE Exit
  BY DEF Compensate, Collapse
<1>2. UNCHANGED <<releases, created, versions, displaced>> /\ handler.pc = "reconcile"
  BY DEF Compensate, github, ghosts
<1>3. job.kind = "deploy" /\ job.pc \in {"record", "exiting"}
  BY <1>2 DEF ReleaseInv, HandlerOK
<1>4. Books'
  BY <1>1, <1>2, BooksKeep, StagedIsUploaded
<1>5. ASSUME Exit
      PROVE  JobOK' /\ HandlerOK'
  BY <1>3, <1>5, Ends DEF Exit
<1>6. ASSUME D(seen).action = "cleanup", ~Exit
      PROVE  JobOK' /\ HandlerOK'
  <2>1. PICK i \in DOMAIN releases, prior \in DOMAIN versions :
           /\ D(seen) = [action |-> "cleanup", release |-> i, prior |-> prior]
           /\ Cleans(i, prior, job.tag, job.sha, job.run)
    BY <1>6, Cleanup
  <2>2. /\ handler' = [pc |-> "delete", release |-> i, prior |-> prior] /\ job' = job
        /\ live' = [main |-> prior, staged |-> None]
    BY <1>1, <1>6, <2>1
  <2>3. i = job.release
    BY <2>1, <1>3, OwnDraft DEF Cleans, Own, Owning
  <2>4. releases[i].prior = None => prior = job.prior
    <3> SUFFICES ASSUME releases[i].prior = None
                 PROVE  prior = job.prior
      OBVIOUS
    <3>1. job.pc = "record"
      BY <1>3, <2>3 DEF ReleaseInv, JobOK, DeployOK, Recorded
    <3>2. Alone(job.prior) /\ Alone(prior)
      BY <1>3, <2>1, <2>3, <3>1, CapturedIsLive DEF At, Cleans
    <3> QED
      BY <3>2 DEF Alone
  <2>5. JobOK'
    <3>1. DeployOK /\ job.pc # "delete"
      BY <1>3 DEF ReleaseInv, JobOK
    <3>2. DeployOK'
      BY <1>2, <1>3, <2>2, <3>1 DEF DeployOK, Build, IsPrepared, MarkerMatches, Recorded, BuildOf
    <3> QED
      BY <1>3, <2>2, <3>1, <3>2 DEF JobOK
  <2>6. HandlerOK'
    BY <1>2, <1>3, <2>1, <2>2, <2>3, <2>4 DEF HandlerOK, Alone, GaveWay, Cleans
  <2> QED
    BY <2>5, <2>6
<1> QED
  BY <1>1, <1>4, <1>5, <1>6

-----------------------------------------------------------------------------
(* The invariant                                                           *)

LEMMA InitInv == ReleaseInit => ReleaseInv
<1> SUFFICES ASSUME ReleaseInit
             PROVE  ReleaseInv
  OBVIOUS
<1> USE DEF ReleaseInit
<1>1. FirstVersion \in VersionType
  BY ReleaseAssumption DEF FirstVersion, VersionType, None
<1>2. versions = <<FirstVersion>>
  BY DEF FirstVersion
<1>3. versions \in Seq(VersionType) /\ Len(versions) = 1 /\ DOMAIN versions = {1}
  BY <1>1, <1>2
<1>4. DOMAIN releases = {}
  BY DEF ReleaseInit
<1>5. ReleaseTypeOK
  <2>1. tags \in [Tag -> Sha \cup {NoSha}]
    BY ReleaseAssumption
  <2>2. displaced \in [1 .. MaxJobs -> Nat]
    BY DEF None
  <2>3. live \in [main : DOMAIN versions, staged : {None} \cup DOMAIN versions]
    BY <1>3
  <2>4. created \in Nat /\ created <= MaxJobs
    BY ReleaseAssumption
  <2>5. job \in JobType /\ handler \in [pc : {"none", "reconcile", "delete"}, release : Nat, prior : Nat]
    BY IdleType
  <2>6. budget \in [jobs : Nat, doubt : Nat, rollbacks : Nat]
    OBVIOUS
  <2> QED
    BY <1>3, <1>4, <2>1, <2>2, <2>3, <2>4, <2>5, <2>6 DEF ReleaseTypeOK
<1>6. VersionsOK
  BY <1>2, <1>3, <1>4 DEF VersionsOK, None
<1>7. Books
  BY <1>4, <1>6 DEF Books
<1>8. JobOK /\ HandlerOK
  BY DEF JobOK, HandlerOK, Idle, Quiet
<1> QED
  BY <1>5, <1>7, <1>8 DEF ReleaseInv

LEMMA NextInv == ReleaseInv /\ [ReleaseNext]_vars => ReleaseInv'
<1> SUFFICES ASSUME ReleaseInv, [ReleaseNext]_vars
             PROVE  ReleaseInv'
  OBVIOUS
<1>t. ReleaseTypeOK'
  BY TypeStep
<1>1. ASSUME NEW r \in Run, StartDeploy(r)
      PROVE  Books' /\ JobOK' /\ HandlerOK'
  <2> DEFINE new == [Idle EXCEPT !.kind = "deploy", !.run = r, !.tag = TagOf[r],
                                 !.sha = ShaOf[r], !.pc = "draft"]
  <2>1. Start(new)
    BY <1>1 DEF StartDeploy
  <2>2. /\ new.kind = "deploy" /\ new.pc = "draft" /\ new.run = r
        /\ new.tag = TagOf[r] /\ new.sha = ShaOf[r]
    BY DEF Idle
  <2> HIDE DEF new
  <2> QED
    BY <2>1, <2>2, StartStep
<1>2. ASSUME NEW t \in Tag, NEW s \in Sha \cup {NoSha}, NEW p \in {None} \cup DOMAIN versions,
             StartReconcile(t, s, p)
      PROVE  Books' /\ JobOK' /\ HandlerOK'
  <2> DEFINE new == [Idle EXCEPT !.kind = "reconcile", !.tag = t, !.sha = s,
                                 !.prior = p, !.pc = "reconcile"]
  <2>1. Start(new)
    BY <1>2 DEF StartReconcile
  <2>2. new.kind = "reconcile" /\ new.pc = "reconcile"
    BY DEF Idle
  <2> HIDE DEF new
  <2> QED
    BY <2>1, <2>2, StartStep
<1>3. Books' /\ JobOK' /\ HandlerOK'
  BY <1>t, <1>1, <1>2, EndStep, PrepareStep, AssetsStep, CaptureStep, RecordStep, UploadStep,
     CandidateStep, StageStep, PromoteStep, PublicationStep, ElsewhereStep, ReconcileStep,
     DeleteStep, SignalStep, CompensateStep, RollbackStep
  DEF ReleaseNext
<1> QED
  BY <1>t, <1>3 DEF ReleaseInv

\* Where a job and its handler are says what serves and what the marker of its
\* draft holds, wherever earlier jobs stopped.
THEOREM ReleaseInvariant == ReleaseSpec => []ReleaseInv
BY InitInv, NextInv, PTL DEF ReleaseSpec

-----------------------------------------------------------------------------
(* Cleanups and publications                                               *)

\* A draft is deleted only when the version it once displaced serves alone
\* again, and none of its own versions serves (cleanupOwnedPreparedDraft).
THEOREM CleanupsRestore == ReleaseSpec => CleanupRestores
<1>1. ASSUME ReleaseInv, [ReleaseNext]_vars, NEW i \in DOMAIN releases \ DOMAIN releases'
      PROVE  /\ live.staged = None
             /\ versions[live.main].release # i
             /\ displaced[i] \in {None, live.main}
  <2>1. DeleteDraft \/ CompensateDelete
    <3>1. CASE PrepareDraft
      BY <3>1, <1>1 DEF PrepareDraft, CreateDraft, Adopt, github
    <3>2. CASE UNCHANGED releases
      BY <3>2, <1>1
    <3>3. CASE UploadAssets \/ RecordPrior \/ RecordCandidate \/ MarkPublishing \/ Publish
      BY <3>3, <1>1 DEF UploadAssets, RecordPrior, RecordCandidate, MarkPublishing, Publish
    <3> QED
      BY <1>1, <3>1, <3>2, <3>3
      DEF ReleaseNext, StartDeploy, StartReconcile, Start, StepFails, Stop, CaptureRollback,
          UploadWorker, DeployStaged, Promote, SmokeLive, Committed, TagAppears, Reconcile,
          Signal, Compensate, Rollback, Reconfigure, vars, github
  <2>2. PICK prior : /\ live = [main |-> prior, staged |-> None]
                     /\ releases' = Without(i) /\ GaveWay(i, prior)
    <3>1. CASE DeleteDraft
      <4>1. i = job.release
        BY <3>1, <1>1 DEF DeleteDraft, Without
      <4> QED
        BY <3>1, <4>1, <1>1 DEF DeleteDraft, MayDelete, ReleaseInv, JobOK
    <3>2. CASE CompensateDelete
      <4>1. i = handler.release
        BY <3>2, <1>1 DEF CompensateDelete, Without
      <4> QED
        BY <3>2, <4>1, <1>1 DEF CompensateDelete, MayDelete, ReleaseInv, HandlerOK
    <3> QED
      BY <2>1, <3>1, <3>2
  <2>3. releases[i].prior \in {None, prior} /\ ReleaseOK(i)
    BY <1>1, <2>2 DEF GaveWay, ReleaseInv, Books
  <2>4. versions[live.main].release # i
    <3>1. CASE releases[i].prior = None
      BY <3>1, <1>1, Numbers DEF ReleaseInv, Books, VersionsOK
    <3>2. CASE releases[i].prior # None
      BY <3>2, <2>2, <2>3 DEF ReleaseOK
    <3> QED
      BY <3>1, <3>2
  <2> QED
    BY <2>2, <2>3, <2>4 DEF ReleaseOK
<1>2. ReleaseInv /\ [ReleaseNext]_vars =>
        [\A i \in DOMAIN releases \ DOMAIN releases' :
            /\ live.staged = None
            /\ versions[live.main].release # i
            /\ displaced[i] \in {None, live.main}]_vars
  BY <1>1
<1> QED
  BY <1>2, ReleaseInvariant, PTL DEF ReleaseSpec, CleanupRestores

\* Builds of one commit have one tag.
LEMMA OneTag ==
    ASSUME NEW r, NEW q, Build(r), Build(q), r.sha = q.sha
    PROVE  r.tag = q.tag
BY ReleaseAssumption DEF Build

\* A cleanup changes the commit that serves only when its draft's own serves.
LEMMA CleanupTakes ==
    ASSUME ReleaseInv, NEW i \in DOMAIN releases, NEW prior \in DOMAIN versions,
           NEW tag, NEW sha, NEW run,
           Cleans(i, prior, tag, sha, run),
           NEW p \in DOMAIN releases, releases[p].state = "publishing", Hidden(p) = {},
           LiveSha = releases[p].sha
    PROVE  versions[prior].sha = LiveSha
<1> SUFFICES ASSUME LiveSha = releases[i].sha
             PROVE  FALSE
  BY DEF Cleans
<1>1. Own(i, "prepared", tag, sha, run) /\ i # p
  BY DEF Cleans, Own
<1>2. releases[p].tag = releases[i].tag /\ releases[i].tag = tag
  <2>1. Build(releases[p]) /\ Build(releases[i])
    BY DEF ReleaseInv, Books, ReleaseOK
  <2>2. releases[p].tag = releases[i].tag
    BY <2>1, OneTag
  <2> QED
    BY <1>1, <2>2 DEF Own, MarkerMatches
<1>3. releases[p].draft
  BY <1>1, <1>2 DEF Own
<1>4. releases[p].named
  BY <1>1, <1>3 DEF Hidden, Own
<1>5. p \in Drafts(tag, sha, run)
  BY <1>2, <1>3, <1>4 DEF Drafts
<1> QED
  BY <1>1, <1>5 DEF Own

\* Once a release is marked as publishing, the commit that serves gives way to
\* a promotion or to a rollback by hand only, unless two dispatches do not see
\* each other's drafts (decideReconciliation, docs/ops/release.md).
THEOREM NoReturn == ReleaseSpec => PointOfNoReturn
<1>1. ASSUME ReleaseInv, [ReleaseNext]_vars, NEW p \in DOMAIN releases,
             releases[p].state = "publishing", Hidden(p) = {},
             LiveSha = releases[p].sha, LiveSha' # LiveSha
      PROVE  job = Idle \/ At("promote")
  <2>1. CASE Reconcile
    <3> DEFINE D(seen) == Decide(job.tag, job.sha, job.run, Claims, seen)
    <3>1. PICK seen \in {NoSha, LiveSha} :
            \/ UNCHANGED live
            \/ D(seen).action = "cleanup" /\ Collapse(D(seen).prior)
      BY <2>1 DEF Reconcile
    <3>2. versions' = versions
      BY <2>1 DEF Reconcile
    <3>3. D(seen).action = "cleanup" /\ Collapse(D(seen).prior)
      BY <1>1, <3>1, <3>2 DEF LiveSha
    <3>4. PICK i \in DOMAIN releases, prior \in DOMAIN versions :
             /\ D(seen) = [action |-> "cleanup", release |-> i, prior |-> prior]
             /\ Cleans(i, prior, job.tag, job.sha, job.run)
      BY <1>1, <3>3, Cleanup
    <3>5. versions[prior].sha = LiveSha
      BY <1>1, <3>4, CleanupTakes
    <3>6. live'.main = prior
      BY <3>3, <3>4 DEF Collapse
    <3> QED
      BY <1>1, <3>2, <3>5, <3>6 DEF LiveSha
  <2>2. CASE Compensate
    <3> DEFINE D(seen) == Decide(job.tag, job.sha, job.run, NoClaims, seen)
    <3>1. PICK seen \in {NoSha, LiveSha} :
            \/ UNCHANGED live
            \/ D(seen).action = "cleanup" /\ Collapse(D(seen).prior)
      BY <2>2 DEF Compensate
    <3>2. versions' = versions
      BY <2>2 DEF Compensate
    <3>3. D(seen).action = "cleanup" /\ Collapse(D(seen).prior)
      BY <1>1, <3>1, <3>2 DEF LiveSha
    <3>4. PICK i \in DOMAIN releases, prior \in DOMAIN versions :
             /\ D(seen) = [action |-> "cleanup", release |-> i, prior |-> prior]
             /\ Cleans(i, prior, job.tag, job.sha, job.run)
      BY <1>1, <3>3, Cleanup
    <3>5. versions[prior].sha = LiveSha
      BY <1>1, <3>4, CleanupTakes
    <3>6. live'.main = prior
      BY <3>3, <3>4 DEF Collapse
    <3> QED
      BY <1>1, <3>2, <3>5, <3>6 DEF LiveSha
  <2>3. CASE DeployStaged
    <3>1. live.main = job.prior /\ live'.main = job.prior /\ versions' = versions
      BY <1>1, <2>3, OwningTypes, HandlerIsQuiet DEF DeployStaged, At, Owning
    <3> QED
      BY <1>1, <3>1 DEF LiveSha
  <2>4. CASE UploadWorker
    <3>1. versions'[live.main] = versions[live.main] /\ live' = live
      BY <1>1, <2>4, Numbers DEF UploadWorker, ReleaseInv, ReleaseTypeOK
    <3> QED
      BY <1>1, <3>1 DEF LiveSha
  <2>5. CASE Promote
    BY <2>5 DEF Promote
  <2>6. ASSUME NEW v \in DOMAIN versions, Rollback(v)
        PROVE  job = Idle
    BY <2>6 DEF Rollback
  <2>7. CASE UNCHANGED <<live, versions>>
    BY <1>1, <2>7 DEF LiveSha
  <2> QED
    BY <1>1, <2>1, <2>2, <2>3, <2>4, <2>5, <2>6, <2>7
    DEF ReleaseNext, StartDeploy, StartReconcile, Start, StepFails, Stop, PrepareDraft,
        UploadAssets, RecordPrior, RecordCandidate, MarkPublishing, Publish,
        CaptureRollback, SmokeLive, Committed, TagAppears, DeleteDraft,
        Signal, CompensateDelete, Reconfigure, vars, cloudflare
<1>2. ReleaseInv /\ [ReleaseNext]_vars =>
        [\A i \in DOMAIN releases :
            /\ releases[i].state = "publishing"
            /\ Hidden(i) = {}
            /\ LiveSha = releases[i].sha
            /\ LiveSha' # LiveSha
            => job = Idle \/ At("promote")]_vars
  BY <1>1
<1> QED
  BY <1>2, ReleaseInvariant, PTL DEF ReleaseSpec, PointOfNoReturn

-----------------------------------------------------------------------------
(* The way back                                                            *)

LEMMA Shas ==
    ASSUME ReleaseInv
    PROVE  /\ LiveSha \in Sha
           /\ \A v \in DOMAIN versions :
                 versions[v].sha \in Sha /\ versions[v].sha # NoSha /\ versions[v].tag \in Tag
           /\ \A i \in DOMAIN releases : releases[i].sha \in Sha /\ releases[i].tag \in Tag
<1>1. \A v \in DOMAIN versions : versions[v] \in VersionType
  BY DEF ReleaseInv, ReleaseTypeOK
<1>2. \A v \in DOMAIN versions :
         versions[v].sha \in Sha /\ versions[v].sha # NoSha /\ versions[v].tag \in Tag
  BY <1>1, ReleaseAssumption DEF VersionType
<1>3. \A i \in DOMAIN releases : releases[i].sha \in Sha /\ releases[i].tag \in Tag
  BY DEF ReleaseInv, ReleaseTypeOK, ReleaseType
<1> QED
  BY <1>2, <1>3, Numbers DEF LiveSha, ReleaseInv

\* A version and a release, or an uploaded version, of one commit have one tag.
LEMMA TagOfVersion ==
    ASSUME ReleaseInv, NEW v \in DOMAIN versions, NEW r, Build(r), versions[v].sha = r.sha
    PROVE  versions[v].tag = r.tag
<1>1. VersionsOK /\ v \in Nat \ {0}
  BY Numbers DEF ReleaseInv, Books
<1>2. v # 1
  BY <1>1, ReleaseAssumption DEF VersionsOK, FirstVersion, Build
<1>3. Build(versions[v])
  BY <1>1, <1>2 DEF VersionsOK
<1> QED
  BY <1>3, OneTag

\* A draft of a commit with a rank knows its prior version.
LEMMA KnowsPrior ==
    ASSUME ReleaseInv, OneRelease, NEW rank \in [Sha -> Nat], Backed(rank),
           NEW i \in DOMAIN releases, releases[i].draft, rank[releases[i].sha] > 0
    PROVE  releases[i].prior # None
<1>1. Build(releases[i]) /\ releases[i].sha \in Sha
  BY Shas DEF ReleaseInv, Books, ReleaseOK
<1>2. tags[releases[i].tag] = NoSha
  BY DEF OneRelease
<1>3. Accounted(releases[i].sha)
  BY <1>1 DEF Backed
<1>4. \A v \in DOMAIN versions : versions[v].sha = releases[i].sha => tags[versions[v].tag] = NoSha
  BY <1>1, <1>2, TagOfVersion
<1>5. releases[i].sha \notin strays
  BY <1>4 DEF OneRelease
<1>6. ~TagShows(releases[i].sha)
  BY <1>4, Shas DEF TagShows
<1>7. PICK j \in DOMAIN releases : /\ releases[j].sha = releases[i].sha
                                   /\ releases[j].draft => releases[j].prior # None
  BY <1>3, <1>5, <1>6 DEF Accounted
<1>8. Build(releases[j])
  BY DEF ReleaseInv, Books, ReleaseOK
<1>9. releases[j].tag = releases[i].tag
  BY <1>1, <1>7, <1>8, OneTag
<1> QED
  BY <1>7, <1>9 DEF OneRelease

\* Versions stay, and tags that can be seen.
Grow ==
    /\ \A v \in DOMAIN versions : v \in DOMAIN versions' /\ versions'[v] = versions[v]
    /\ \A t \in Tag : tags[t] # NoSha => tags'[t] = tags[t]

LEMMA AccountedStays ==
    ASSUME ReleaseInv, Grow, strays \subseteq strays', NEW s, Accounted(s),
           \A i \in DOMAIN releases : releases[i].sha = s =>
              /\ i \in DOMAIN releases' /\ releases'[i].sha = s
              /\ releases'[i].draft => releases[i].draft
              /\ releases[i].prior # None => releases'[i].prior # None
    PROVE  Accounted(s)'
<1>1. CASE s \in strays
  BY <1>1 DEF Accounted
<1>2. CASE TagShows(s)
  <2>1. PICK v \in DOMAIN versions : versions[v].sha = s /\ tags[versions[v].tag] = s
    BY <1>2 DEF TagShows
  <2>2. versions[v].tag \in Tag /\ s # NoSha
    BY <2>1, Shas
  <2>3. v \in DOMAIN versions' /\ versions'[v].sha = s /\ tags'[versions'[v].tag] = s
    BY <2>1, <2>2 DEF Grow
  <2> QED
    BY <2>3 DEF Accounted, TagShows
<1>3. CASE \E i \in DOMAIN releases : /\ releases[i].sha = s
                                      /\ releases[i].draft => releases[i].prior # None
  BY <1>3 DEF Accounted
<1> QED
  BY <1>1, <1>2, <1>3 DEF Accounted

\* A release goes on; a draft without a rank may learn its prior version.
GoesOn(old, new, rank) ==
    /\ new.sha = old.sha /\ new.tag = old.tag
    /\ new.draft => old.draft /\ (new.state = "prepared" => old.state = "prepared")
    /\ \/ new.prior = old.prior
       \/ old.prior = None /\ new.prior # None /\ rank[old.sha] = 0

\* The ranks stay while releases come and go on, and what serves has a rank.
LEMMA RankStays ==
    ASSUME ReleaseInv, NEW rank \in [Sha -> Nat], Backed(rank), Lives(rank)', Grow,
           strays \subseteq strays',
           \A i \in DOMAIN releases : i \in DOMAIN releases' /\ GoesOn(releases[i], releases'[i], rank),
           \A i \in DOMAIN releases' : i \in DOMAIN releases \/ releases'[i].prior = None
    PROVE  (Lives(rank) /\ Backed(rank))'
<1>1. ASSUME NEW s \in Sha, rank[s] > 0
      PROVE  Accounted(s)'
  BY <1>1, AccountedStays DEF Backed, GoesOn
<1>2. ASSUME NEW i \in DOMAIN releases', IsPrepared(i)', releases'[i].prior # None,
             rank[releases'[i].sha] > 0
      PROVE  /\ rank[versions'[releases'[i].prior].sha] > 0
             /\ rank[versions'[releases'[i].prior].sha] < rank[releases'[i].sha]
  <2>1. i \in DOMAIN releases /\ GoesOn(releases[i], releases'[i], rank)
    BY <1>2
  <2>2. releases'[i].prior = releases[i].prior /\ IsPrepared(i) /\ releases'[i].sha = releases[i].sha
    BY <1>2, <2>1, Shas DEF GoesOn, IsPrepared
  <2>3. releases[i].prior \in DOMAIN versions
    BY <1>2, <2>1, <2>2 DEF ReleaseInv, Books, ReleaseOK
  <2>4. versions'[releases[i].prior] = versions[releases[i].prior]
    BY <2>3 DEF Grow
  <2> QED
    BY <1>2, <2>1, <2>2, <2>4 DEF Backed
<1> QED
  BY <1>1, <1>2 DEF Backed

\* A commit that starts to serve gets a rank above what it goes back to.
LEMMA RankRaises ==
    ASSUME ReleaseInv, NEW rank \in [Sha -> Nat], Backed(rank), Lives(rank), NEW s \in Sha,
           UNCHANGED <<releases, tags, versions>>, strays \subseteq strays',
           Accounted(s)', live'.main \in DOMAIN versions,
           live'.staged \in {None} \cup DOMAIN versions,
           \A v \in {live'.main, live'.staged} \ {None} : versions[v].sha \in {s, LiveSha},
           \A i \in DOMAIN releases : (IsPrepared(i) /\ releases[i].prior # None /\ releases[i].sha = s) =>
              versions[releases[i].prior].sha = LiveSha
    PROVE  \E new \in [Sha -> Nat] : (Lives(new) /\ Backed(new))'
<1>0. LiveSha \in Sha /\ rank[LiveSha] \in Nat /\ rank[s] \in Nat /\ live'.main # None
  BY Shas, Numbers DEF None, ReleaseInv
<1>1. PICK new : /\ new \in [Sha -> Nat] /\ new[s] > 0 /\ (rank[s] > 0 => new[s] = rank[s])
                 /\ \A t \in Sha \ {s} : new[t] = rank[t]
                 /\ (rank[s] = 0 => new[s] > rank[LiveSha])
  <2> DEFINE new == [rank EXCEPT ![s] = IF rank[s] > 0 THEN rank[s] ELSE rank[LiveSha] + 1]
  <2>1. /\ new \in [Sha -> Nat] /\ new[s] > 0 /\ (rank[s] > 0 => new[s] = rank[s])
        /\ \A t \in Sha \ {s} : new[t] = rank[t]
        /\ (rank[s] = 0 => new[s] > rank[LiveSha])
    BY <1>0
  <2> QED
    BY <2>1
<1>2. new[LiveSha] > 0 /\ rank[LiveSha] > 0
  BY <1>0, <1>1 DEF Lives
<1>3. Lives(new)'
  <2>1. \A v \in {live'.main, live'.staged} \ {None} : new[versions[v].sha] > 0
    BY <1>1, <1>2
  <2> QED
    BY <2>1, <1>0 DEF Lives, LiveSha
<1>4. Grow
  BY DEF Grow
<1>5. ASSUME NEW t \in Sha, new[t] > 0
      PROVE  Accounted(t)'
  <2>1. CASE t = s
    BY <2>1
  <2>2. CASE t # s
    BY <1>1, <1>4, <1>5, <2>2, AccountedStays DEF Backed
  <2> QED
    BY <2>1, <2>2
<1>6. ASSUME NEW i \in DOMAIN releases', IsPrepared(i)', releases'[i].prior # None,
             new[releases'[i].sha] > 0
      PROVE  /\ new[versions'[releases'[i].prior].sha] > 0
             /\ new[versions'[releases'[i].prior].sha] < new[releases'[i].sha]
  <2> DEFINE a == releases[i].sha
             b == versions[releases[i].prior].sha
  <2>1. i \in DOMAIN releases /\ IsPrepared(i) /\ releases[i].prior # None /\ new[a] > 0
    BY <1>6 DEF IsPrepared
  <2>2. a \in Sha /\ b \in Sha
    BY <2>1, Shas DEF ReleaseInv, Books, ReleaseOK
  <2>3. rank[a] > 0 => rank[b] > 0 /\ rank[b] < rank[a]
    BY <2>1 DEF Backed
  <2>4. a = s => b = LiveSha
    BY <2>1
  <2> HIDE DEF a, b
  <2>5. new[b] > 0 /\ new[b] < new[a]
    <3>1. CASE a = s
      <4>1. CASE rank[s] = 0
        BY <1>0, <1>1, <1>2, <2>4, <3>1, <4>1
      <4>2. CASE rank[s] > 0
        BY <1>0, <1>1, <1>2, <2>2, <2>3, <3>1, <4>2
      <4> QED
        BY <1>0, <4>1, <4>2
    <3>2. CASE a # s
      BY <1>0, <1>1, <2>1, <2>2, <2>3, <3>2
    <3> QED
      BY <3>1, <3>2
  <2> QED
    BY <2>5 DEF a, b
<1>7. Backed(new)'
  BY <1>5, <1>6 DEF Backed
<1> QED
  BY <1>1, <1>3, <1>7

\* A cleanup goes back to a commit with a rank.
LEMMA CleansToRank ==
    ASSUME ReleaseInv, OneRelease, NEW rank \in [Sha -> Nat], Lives(rank), Backed(rank),
           NEW i \in DOMAIN releases, NEW prior \in DOMAIN versions, NEW tag, NEW sha, NEW run,
           Cleans(i, prior, tag, sha, run)
    PROVE  rank[versions[prior].sha] > 0
<1>1. CASE LiveSha = versions[prior].sha
  BY <1>1 DEF Lives
<1>2. CASE LiveSha = releases[i].sha
  <2>1. rank[releases[i].sha] > 0 /\ IsPrepared(i)
    BY <1>2 DEF Lives, Cleans, Own, IsPrepared
  <2>2. releases[i].prior # None
    BY <2>1, KnowsPrior DEF IsPrepared
  <2>3. releases[i].prior = prior
    BY <2>2 DEF Cleans
  <2> QED
    BY <2>1, <2>2, <2>3 DEF Backed
<1> QED
  BY <1>1, <1>2 DEF Cleans

LEMMA NoneIsNoVersion == ReleaseInv => None \notin DOMAIN versions /\ live.main # None
BY Numbers DEF ReleaseInv, None

\* Releases go on, or are deleted, and no tag of a draft appears.
LEMMA OneStays ==
    ASSUME ReleaseInv, OneRelease, NEW rank, Grow, strays' = strays,
           budget'.rollbacks = budget.rollbacks, DOMAIN releases' \subseteq DOMAIN releases,
           \A i \in DOMAIN releases' :
              /\ GoesOn(releases[i], releases'[i], rank)
              /\ releases'[i].draft => tags'[releases[i].tag] = NoSha
              /\ releases'[i].prior # releases[i].prior =>
                    /\ releases'[i].prior \in DOMAIN versions
                    /\ versions[releases'[i].prior].sha # releases[i].sha
    PROVE  OneRelease'
<1>1. (\A i, j \in DOMAIN releases : releases[i].tag = releases[j].tag => i = j)'
  BY DEF OneRelease, GoesOn
<1>2. (\A i \in DOMAIN releases : releases[i].draft => tags[releases[i].tag] = NoSha)'
  BY DEF GoesOn
<1>3. ASSUME NEW i \in DOMAIN releases', releases'[i].prior # None
      PROVE  versions'[releases'[i].prior].sha # releases'[i].sha
  <2>1. releases'[i].sha = releases[i].sha /\ i \in DOMAIN releases
    BY <1>3 DEF GoesOn
  <2>2. releases'[i].prior \in DOMAIN versions /\ versions[releases'[i].prior].sha # releases[i].sha
    <3>1. CASE releases'[i].prior = releases[i].prior
      BY <1>3, <2>1, <3>1 DEF OneRelease, ReleaseInv, Books, ReleaseOK
    <3>2. CASE releases'[i].prior # releases[i].prior
      BY <1>3, <3>2
    <3> QED
      BY <3>1, <3>2
  <2> QED
    BY <2>1, <2>2 DEF Grow
<1>4. ASSUME NEW s \in strays'
      PROVE  (\E v \in DOMAIN versions : versions[v].sha = s /\ tags[versions[v].tag] # NoSha)'
  <2>1. PICK v \in DOMAIN versions : versions[v].sha = s /\ tags[versions[v].tag] # NoSha
    BY <1>4 DEF OneRelease
  <2>2. versions[v].tag \in Tag
    BY Shas
  <2> QED
    BY <2>1, <2>2 DEF Grow
<1>5. (budget.rollbacks = 0 => strays = {})'
  BY DEF OneRelease
<1> QED
  BY <1>1, <1>2, <1>3, <1>4, <1>5 DEF OneRelease

LEMMA WayInit == ReleaseInit => WayBack
<1> SUFFICES ASSUME ReleaseInit
             PROVE  WayBack
  OBVIOUS
<1> USE DEF ReleaseInit
<1>1. DOMAIN releases = {}
  OBVIOUS
<1>2. OneRelease
  BY <1>1 DEF OneRelease
<1>3. /\ DOMAIN versions = {1} /\ versions[1].sha = FirstSha /\ versions[1].tag = FirstTag
      /\ tags[FirstTag] = FirstSha /\ LiveSha = FirstSha /\ live.staged = None
  BY ReleaseAssumption DEF LiveSha
<1> DEFINE rank == [s \in Sha |-> IF s = FirstSha THEN 1 ELSE 0]
<1>4. rank \in [Sha -> Nat] /\ rank[FirstSha] = 1 /\ \A s \in Sha : rank[s] > 0 => s = FirstSha
  BY ReleaseAssumption
<1> HIDE DEF rank
<1>5. Lives(rank)
  BY <1>3, <1>4 DEF Lives
<1>6. Accounted(FirstSha)
  BY <1>3 DEF Accounted, TagShows
<1>7. Backed(rank)
  BY <1>1, <1>4, <1>6 DEF Backed
<1> QED
  BY <1>2, <1>4, <1>5, <1>7 DEF WayBack

LEMMA NewDraftWay ==
    ASSUME Named = {TRUE}, ReleaseInv, WayBack, PrepareDraft, CreateDraft
    PROVE  WayBack'
<1> DEFINE new == created + 1
<1>1. /\ UNCHANGED <<versions, live, strays, tags>> /\ job.kind = "deploy"
      /\ Classify(job.tag, job.sha, job.run).kind = "absent"
  BY DEF PrepareDraft, CreateDraft, At, cloudflare, ghosts
<1>2. PICK named \in Named :
         releases' = [i \in DOMAIN releases \cup {new} |->
             IF i \in DOMAIN releases THEN releases[i]
             ELSE [run |-> job.run, tag |-> job.tag, sha |-> job.sha, draft |-> TRUE,
                   named |-> named, state |-> "prepared", assets |-> FALSE,
                   prior |-> None, candidate |-> None]]
  BY DEF CreateDraft
<1>3. new \notin DOMAIN releases
  BY Numbers DEF ReleaseInv, ReleaseTypeOK
<1>4. /\ \A i \in DOMAIN releases : i \in DOMAIN releases' /\ releases'[i] = releases[i]
      /\ \A i \in DOMAIN releases' : i \in DOMAIN releases \/ i = new
      /\ releases'[new].tag = job.tag /\ releases'[new].prior = None
  BY <1>2, <1>3
<1>5. tags[job.tag] = NoSha /\ \A i \in DOMAIN releases : releases[i].tag # job.tag
  <2>1. \A i \in DOMAIN releases : releases[i].named
    BY DEF ReleaseInv, ReleaseTypeOK, ReleaseType
  <2> QED
    BY <1>1, <2>1, Absent DEF ReleaseInv, Drafts
<1>6. budget'.rollbacks = budget.rollbacks
  BY BudgetType DEF CreateDraft, ReleaseInv
<1>7. OneRelease'
  <2>1. (\A i, j \in DOMAIN releases : releases[i].tag = releases[j].tag => i = j)'
    BY <1>4, <1>5 DEF WayBack, OneRelease
  <2>2. (\A i \in DOMAIN releases : releases[i].draft => tags[releases[i].tag] = NoSha)'
    BY <1>1, <1>4, <1>5 DEF WayBack, OneRelease
  <2>3. (\A i \in DOMAIN releases : releases[i].prior # None =>
           versions[releases[i].prior].sha # releases[i].sha)'
    BY <1>1, <1>4 DEF WayBack, OneRelease
  <2> QED
    BY <1>1, <1>6, <2>1, <2>2, <2>3 DEF WayBack, OneRelease
<1>8. PICK rank \in [Sha -> Nat] : Lives(rank) /\ Backed(rank)
  BY DEF WayBack
<1>9. Lives(rank)' /\ Grow
  BY <1>1, <1>8 DEF Lives, LiveSha, Grow
<1>10. (Lives(rank) /\ Backed(rank))'
  <2>1. \A i \in DOMAIN releases : i \in DOMAIN releases' /\ GoesOn(releases[i], releases'[i], rank)
    BY <1>4 DEF GoesOn
  <2>2. \A i \in DOMAIN releases' : i \in DOMAIN releases \/ releases'[i].prior = None
    BY <1>4
  <2> QED
    BY <1>1, <1>8, <1>9, <2>1, <2>2, RankStays
<1> QED
  BY <1>7, <1>10 DEF WayBack

\* A step that keeps versions and traffic, and lets releases go on.
LEMMA WayStays ==
    ASSUME ReleaseInv, WayBack, strays' = strays, budget'.rollbacks = budget.rollbacks,
           NEW rank \in [Sha -> Nat], Backed(rank), Lives(rank)', Grow,
           DOMAIN releases' = DOMAIN releases,
           \A i \in DOMAIN releases :
              /\ GoesOn(releases[i], releases'[i], rank)
              /\ releases'[i].draft => tags'[releases[i].tag] = NoSha
              /\ releases'[i].prior # releases[i].prior =>
                    /\ releases'[i].prior \in DOMAIN versions
                    /\ versions[releases'[i].prior].sha # releases[i].sha
    PROVE  WayBack'
<1>1. OneRelease'
  BY OneStays DEF WayBack
<1>2. (Lives(rank) /\ Backed(rank))'
  BY RankStays
<1> QED
  BY <1>1, <1>2 DEF WayBack

\* A step that changes neither versions, tags nor releases.
LEMMA TrafficWay ==
    ASSUME ReleaseInv, WayBack, UNCHANGED <<releases, tags, versions, strays>>,
           budget'.rollbacks = budget.rollbacks,
           NEW rank \in [Sha -> Nat], Backed(rank), Lives(rank)'
    PROVE  WayBack'
<1>1. Grow /\ \A i \in DOMAIN releases :
                 /\ GoesOn(releases[i], releases'[i], rank)
                 /\ releases'[i].draft => tags'[releases[i].tag] = NoSha
  BY DEF Grow, GoesOn, WayBack, OneRelease
<1> QED
  BY <1>1, WayStays

\* A step that leaves the traffic, too.
LEMMA NothingMoves ==
    ASSUME ReleaseInv, WayBack, UNCHANGED <<releases, tags, versions, live, strays>>,
           budget'.rollbacks = budget.rollbacks
    PROVE  WayBack'
<1>1. PICK rank \in [Sha -> Nat] : Lives(rank) /\ Backed(rank)
  BY DEF WayBack
<1>2. Lives(rank)'
  BY <1>1 DEF Lives, LiveSha
<1> QED
  BY <1>1, <1>2, TrafficWay

\* Assets, a candidate and the mark leave what a release is of.
LEMMA MarkerWay ==
    ASSUME ReleaseInv, WayBack, UploadAssets \/ RecordCandidate \/ MarkPublishing
    PROVE  WayBack'
<1>1. UNCHANGED <<tags, versions, live, strays>>
  BY DEF UploadAssets, RecordCandidate, MarkPublishing, cloudflare, ghosts
<1>2. budget'.rollbacks = budget.rollbacks
  BY BudgetType DEF UploadAssets, RecordCandidate, MarkPublishing, ReleaseInv
<1>3. PICK rank \in [Sha -> Nat] : Lives(rank) /\ Backed(rank)
  BY DEF WayBack
<1>4. Lives(rank)' /\ Grow
  BY <1>1, <1>3 DEF Lives, LiveSha, Grow
<1>5. /\ DOMAIN releases' = DOMAIN releases
      /\ \A i \in DOMAIN releases : /\ GoesOn(releases[i], releases'[i], rank)
                                    /\ releases'[i].prior = releases[i].prior
                                    /\ releases'[i].draft = releases[i].draft
  <2>1. \A i \in DOMAIN releases : releases[i] \in ReleaseType
    BY DEF ReleaseInv, ReleaseTypeOK
  <2>2. CASE UploadAssets
    BY <2>1, <2>2 DEF UploadAssets, GoesOn, ReleaseType
  <2>3. CASE RecordCandidate
    BY <2>1, <2>3 DEF RecordCandidate, GoesOn, ReleaseType
  <2>4. CASE MarkPublishing
    BY <2>1, <2>4 DEF MarkPublishing, GoesOn, ReleaseType
  <2> QED
    BY <2>2, <2>3, <2>4
<1>6. \A i \in DOMAIN releases : releases[i].draft => tags[releases[i].tag] = NoSha
  BY DEF WayBack, OneRelease
<1> QED
  BY <1>1, <1>2, <1>3, <1>4, <1>5, <1>6, WayStays

\* A draft learns its prior version while that serves, and while its own commit
\* has no rank: so the way back has no circle.
LEMMA RecordWay ==
    ASSUME ReleaseInv, WayBack, RecordPrior
    PROVE  WayBack'
<1> DEFINE r == releases[job.release]
<1>1. /\ UNCHANGED <<tags, versions, live, strays>> /\ At("record")
      /\ releases' = [releases EXCEPT ![job.release].prior = job.prior]
      /\ r.prior = None \/ r.prior = job.prior
      /\ job.release \in DOMAIN releases /\ r.draft /\ job.prior # None
  BY DEF RecordPrior, cloudflare, ghosts, PriorMatches, Agrees, IsPrepared, At, ReleaseInv,
         JobOK, DeployOK
<1>2. budget'.rollbacks = budget.rollbacks
  BY BudgetType DEF RecordPrior, ReleaseInv
<1>3. PICK rank \in [Sha -> Nat] : Lives(rank) /\ Backed(rank)
  BY DEF WayBack
<1>4. Lives(rank)' /\ Grow
  BY <1>1, <1>3 DEF Lives, LiveSha, Grow
<1>5. r.prior = None => /\ rank[r.sha] = 0 /\ job.prior \in DOMAIN versions
                        /\ versions[job.prior].sha # r.sha
  <2> SUFFICES ASSUME r.prior = None
               PROVE  /\ rank[r.sha] = 0 /\ job.prior \in DOMAIN versions
                      /\ versions[job.prior].sha # r.sha
    OBVIOUS
  <2>1. Alone(job.prior) /\ job.prior \in DOMAIN versions
    BY <1>1, CapturedIsLive
  <2>2. rank[r.sha] \in Nat /\ ~(rank[r.sha] > 0)
    BY <1>1, <1>3, Shas, KnowsPrior DEF WayBack
  <2>3. rank[versions[job.prior].sha] > 0
    BY <1>3, <2>1 DEF Lives, LiveSha, Alone
  <2> QED
    BY <2>1, <2>2, <2>3
<1>6. /\ DOMAIN releases' = DOMAIN releases
      /\ \A i \in DOMAIN releases : /\ GoesOn(releases[i], releases'[i], rank)
                                    /\ releases'[i].draft = releases[i].draft
                                    /\ releases'[i].prior # releases[i].prior =>
                                          /\ releases'[i].prior \in DOMAIN versions
                                          /\ versions[releases'[i].prior].sha # releases[i].sha
  <2>1. \A i \in DOMAIN releases : releases[i] \in ReleaseType
    BY DEF ReleaseInv, ReleaseTypeOK
  <2>2. ASSUME NEW i \in DOMAIN releases
        PROVE  /\ GoesOn(releases[i], releases'[i], rank)
               /\ releases'[i].draft = releases[i].draft
               /\ releases'[i].prior # releases[i].prior =>
                     /\ releases'[i].prior \in DOMAIN versions
                     /\ versions[releases'[i].prior].sha # releases[i].sha
    <3>1. CASE i = job.release
      <4>1. /\ releases'[i].sha = r.sha /\ releases'[i].tag = r.tag /\ releases'[i].draft = r.draft
            /\ releases'[i].state = r.state /\ releases'[i].prior = job.prior
        BY <1>1, <2>1, <3>1 DEF ReleaseType
      <4> QED
        BY <4>1, <1>1, <1>5, <3>1 DEF GoesOn
    <3>2. CASE i # job.release
      BY <1>1, <3>2 DEF GoesOn
    <3> QED
      BY <3>1, <3>2
  <2> QED
    BY <1>1, <2>2
<1>7. \A i \in DOMAIN releases : releases[i].draft => tags[releases[i].tag] = NoSha
  BY DEF WayBack, OneRelease
<1> QED
  BY <1>1, <1>2, <1>3, <1>4, <1>6, <1>7, WayStays

LEMMA PublishWay ==
    ASSUME ReleaseInv, WayBack, Publish
    PROVE  WayBack'
<1>1. /\ UNCHANGED <<versions, live, strays>>
      /\ Classify(job.tag, job.sha, job.run) = [kind |-> "publishing", release |-> job.release]
      /\ tags[job.tag] \in {NoSha, job.sha}
      /\ releases' = [releases EXCEPT ![job.release].draft = FALSE]
      /\ tags' \in {tags, [tags EXCEPT ![job.tag] = job.sha]}
  BY DEF Publish, MayPublish, cloudflare, ghosts
<1>2. job.release \in DOMAIN releases /\ releases[job.release].tag = job.tag
  BY <1>1, ClassifiedDraft DEF Own, MarkerMatches, ReleaseInv
<1>3. budget'.rollbacks = budget.rollbacks
  BY BudgetType DEF Publish, ReleaseInv
<1>4. PICK rank \in [Sha -> Nat] : Lives(rank) /\ Backed(rank)
  BY DEF WayBack
<1>5. Lives(rank)'
  BY <1>1, <1>4 DEF Lives, LiveSha
<1>6. Grow
  BY <1>1 DEF Grow, ReleaseInv, ReleaseTypeOK
<1>7. ASSUME NEW i \in DOMAIN releases
      PROVE  /\ GoesOn(releases[i], releases'[i], rank)
             /\ releases'[i].prior = releases[i].prior
             /\ releases'[i].draft => tags'[releases[i].tag] = NoSha
  <2>1. releases[i] \in ReleaseType /\ tags \in [Tag -> Sha \cup {NoSha}]
    BY DEF ReleaseInv, ReleaseTypeOK
  <2>2. CASE i = job.release
    BY <1>1, <1>2, <2>1, <2>2 DEF GoesOn, ReleaseType
  <2>3. CASE i # job.release
    <3>1. releases'[i] = releases[i]
      BY <1>1, <2>3
    <3>2. releases[i].tag # job.tag
      BY <1>2, <2>3 DEF WayBack, OneRelease
    <3>3. tags'[releases[i].tag] = tags[releases[i].tag]
      BY <1>1, <2>1, <3>2 DEF ReleaseType
    <3> QED
      BY <3>1, <3>3 DEF GoesOn, WayBack, OneRelease
  <2> QED
    BY <2>2, <2>3
<1> QED
  BY <1>1, <1>3, <1>4, <1>5, <1>6, <1>7, WayStays

LEMMA TagWay ==
    ASSUME ReleaseInv, WayBack, TagAppears
    PROVE  WayBack'
<1>1. PICK j \in DOMAIN releases : /\ ~releases[j].draft /\ tags[releases[j].tag] = NoSha
                                   /\ tags' = [tags EXCEPT ![releases[j].tag] = releases[j].sha]
  BY DEF TagAppears
<1>2. UNCHANGED <<releases, versions, live, strays, budget>>
  BY DEF TagAppears, cloudflare, ghosts
<1>3. tags \in [Tag -> Sha \cup {NoSha}] /\ \A i \in DOMAIN releases : releases[i].tag \in Tag
  BY Shas DEF ReleaseInv, ReleaseTypeOK
<1>4. Grow
  BY <1>1, <1>2, <1>3 DEF Grow
<1>5. PICK rank \in [Sha -> Nat] : Lives(rank) /\ Backed(rank)
  BY DEF WayBack
<1>6. Lives(rank)'
  BY <1>2, <1>5 DEF Lives, LiveSha
<1>7. \A i \in DOMAIN releases : /\ GoesOn(releases[i], releases'[i], rank)
                                 /\ releases'[i].draft => tags'[releases[i].tag] = NoSha
  BY <1>1, <1>2, <1>3 DEF GoesOn, WayBack, OneRelease
<1> QED
  BY <1>2, <1>4, <1>5, <1>6, <1>7, WayStays

LEMMA UploadWay ==
    ASSUME ReleaseInv, WayBack, UploadWorker
    PROVE  WayBack'
<1>1. /\ UNCHANGED <<releases, tags, live, strays>>
      /\ versions' = Append(versions, [run |-> job.run, release |-> job.release,
                                       sha |-> job.sha, tag |-> job.tag])
  BY DEF UploadWorker, github, ghosts
<1>2. budget'.rollbacks = budget.rollbacks
  BY BudgetType DEF UploadWorker, ReleaseInv
<1>3. \A v \in DOMAIN versions : v \in DOMAIN versions' /\ versions'[v] = versions[v]
  BY <1>1 DEF ReleaseInv, ReleaseTypeOK
<1>4. Grow
  BY <1>1, <1>3 DEF Grow
<1>5. PICK rank \in [Sha -> Nat] : Lives(rank) /\ Backed(rank)
  BY DEF WayBack
<1>6. Lives(rank)'
  <2>1. live.main \in DOMAIN versions /\ live.staged \in {None} \cup DOMAIN versions
    BY Numbers DEF ReleaseInv
  <2> QED
    BY <1>1, <1>3, <1>5, <2>1 DEF Lives, LiveSha
<1>7. \A i \in DOMAIN releases : /\ GoesOn(releases[i], releases'[i], rank)
                                 /\ releases'[i].draft => tags'[releases[i].tag] = NoSha
  BY <1>1 DEF GoesOn, WayBack, OneRelease
<1> QED
  BY <1>1, <1>2, <1>4, <1>5, <1>6, <1>7, WayStays

\* One release of a commit, as its commit has one tag.
LEMMA OneOfCommit ==
    ASSUME ReleaseInv, OneRelease, NEW i \in DOMAIN releases, NEW j \in DOMAIN releases,
           releases[i].sha = releases[j].sha
    PROVE  i = j
<1>1. Build(releases[i]) /\ Build(releases[j])
  BY DEF ReleaseInv, Books, ReleaseOK
<1>2. releases[i].tag = releases[j].tag
  BY <1>1, OneTag
<1> QED
  BY <1>2 DEF OneRelease

\* The candidate is staged beside the version its draft names.
LEMMA StageWay ==
    ASSUME ReleaseInv, WayBack, DeployStaged
    PROVE  WayBack'
<1>1. /\ UNCHANGED <<releases, tags, versions, strays>> /\ job.kind = "deploy" /\ job.pc = "stage"
      /\ live' = [main |-> job.prior, staged |-> job.candidate]
  BY DEF DeployStaged, At, github
<1>2. budget'.rollbacks = budget.rollbacks
  BY BudgetType DEF DeployStaged, ReleaseInv
<1>3. /\ job.release \in DOMAIN releases /\ releases[job.release].prior = job.prior
      /\ job.prior # None /\ live.main = job.prior /\ BuildOf(job.candidate, job.release)
  BY <1>1, OwningTypes, HandlerIsQuiet DEF Owning, ReleaseInv, JobOK, DeployOK, Recorded
<1> PICK s \in Sha : s = releases[job.release].sha
  BY <1>3, Shas
<1>4. Accounted(s)'
  BY <1>1, <1>3 DEF Accounted
<1>5. \A i \in DOMAIN releases : releases[i].sha = s => i = job.release
  BY <1>3, OneOfCommit DEF WayBack
<1>6. \A i \in DOMAIN releases : releases[i].sha = s => versions[releases[i].prior].sha = LiveSha
  BY <1>3, <1>5 DEF LiveSha
<1>7. /\ live'.main \in DOMAIN versions /\ live'.staged \in {None} \cup DOMAIN versions
      /\ \A v \in {live'.main, live'.staged} \ {None} : versions[v].sha \in {s, LiveSha}
  BY <1>1, <1>3, Numbers DEF BuildOf, LiveSha, ReleaseInv
<1>8. PICK rank \in [Sha -> Nat] : Lives(rank) /\ Backed(rank)
  BY DEF WayBack
<1>9. \E new \in [Sha -> Nat] : (Lives(new) /\ Backed(new))'
  BY <1>1, <1>4, <1>6, <1>7, <1>8, RankRaises
<1>10. OneRelease'
  BY <1>1, <1>2 DEF WayBack, OneRelease
<1> QED
  BY <1>9, <1>10 DEF WayBack

LEMMA PromoteWay ==
    ASSUME ReleaseInv, WayBack, Promote
    PROVE  WayBack'
<1>1. /\ UNCHANGED <<releases, tags, versions, strays>> /\ job.kind = "deploy" /\ job.pc = "promote"
      /\ live' = [main |-> job.candidate, staged |-> None] /\ live.staged # None
  BY DEF Promote, At, github, ghosts
<1>2. budget'.rollbacks = budget.rollbacks
  BY BudgetType DEF Promote, ReleaseInv
<1>3. live.staged = job.candidate
  BY <1>1 DEF ReleaseInv, JobOK, DeployOK
<1>4. PICK rank \in [Sha -> Nat] : Lives(rank) /\ Backed(rank)
  BY DEF WayBack
<1>5. Lives(rank)'
  BY <1>1, <1>3, <1>4 DEF Lives, LiveSha
<1> QED
  BY <1>1, <1>2, <1>4, <1>5, TrafficWay

\* A rollback by hand goes to a version whose tag exists, so to no draft's.
LEMMA RollbackWay ==
    ASSUME ReleaseInv, WayBack, NEW v \in DOMAIN versions, Rollback(v)
    PROVE  WayBack'
<1> PICK s \in Sha : s = versions[v].sha
  BY Shas
<1>1. /\ UNCHANGED <<releases, tags, versions>> /\ live' = [main |-> v, staged |-> None]
      /\ strays' = IF s = tags[versions[v].tag] THEN strays ELSE strays \cup {s}
      /\ tags[versions[v].tag] # NoSha /\ budget' = [budget EXCEPT !.rollbacks = @ + 1]
  BY DEF Rollback, Collapse, github
<1>2. v # None
  BY NoneIsNoVersion
<1>3. Accounted(s)'
  BY <1>1 DEF Accounted, TagShows
<1>4. \A i \in DOMAIN releases : releases[i].draft => releases[i].sha # s
  <2>1. \A i \in DOMAIN releases : Build(releases[i])
    BY DEF ReleaseInv, Books, ReleaseOK
  <2>2. \A i \in DOMAIN releases : releases[i].sha = s => releases[i].tag = versions[v].tag
    BY <2>1, TagOfVersion
  <2> QED
    BY <1>1, <2>2 DEF WayBack, OneRelease
<1>5. PICK rank \in [Sha -> Nat] : Lives(rank) /\ Backed(rank)
  BY DEF WayBack
<1>6. \E new \in [Sha -> Nat] : (Lives(new) /\ Backed(new))'
  <2>1. /\ live'.main \in DOMAIN versions /\ live'.staged \in {None} \cup DOMAIN versions
        /\ \A w \in {live'.main, live'.staged} \ {None} : versions[w].sha \in {s, LiveSha}
    BY <1>1
  <2>2. \A i \in DOMAIN releases : (IsPrepared(i) /\ releases[i].prior # None /\ releases[i].sha = s) =>
           versions[releases[i].prior].sha = LiveSha
    BY <1>4 DEF IsPrepared
  <2>3. strays \subseteq strays'
    BY <1>1
  <2> QED
    BY <1>1, <1>2, <1>3, <1>5, <2>1, <2>2, <2>3, RankRaises
<1>7. OneRelease'
  <2>1. (\A t \in strays : \E w \in DOMAIN versions :
            versions[w].sha = t /\ tags[versions[w].tag] # NoSha)'
    BY <1>1 DEF WayBack, OneRelease
  <2>2. budget'.rollbacks # 0
    BY <1>1 DEF ReleaseInv, ReleaseTypeOK
  <2> QED
    BY <1>1, <2>1, <2>2 DEF WayBack, OneRelease
<1> QED
  BY <1>6, <1>7 DEF WayBack

LEMMA CleanupWay ==
    ASSUME ReleaseInv, WayBack, Reconcile \/ Compensate
    PROVE  WayBack'
<1>1. UNCHANGED <<releases, tags, versions, strays>>
  BY DEF Reconcile, Compensate, github, ghosts
<1>2. budget'.rollbacks = budget.rollbacks
  BY BudgetType DEF Reconcile, Compensate, ReleaseInv
<1>3. PICK rank \in [Sha -> Nat] : Lives(rank) /\ Backed(rank)
  BY DEF WayBack
<1>4. \E seen \in {NoSha, LiveSha}, claims \in {Claims, NoClaims} :
         \/ live' = live
         \/ /\ Decide(job.tag, job.sha, job.run, claims, seen).action = "cleanup"
            /\ live' = [main |-> Decide(job.tag, job.sha, job.run, claims, seen).prior,
                        staged |-> None]
  BY DEF Reconcile, Compensate, Collapse
<1>5. Lives(rank)'
  <2>1. CASE live' = live
    BY <1>1, <1>3, <2>1 DEF Lives, LiveSha
  <2>2. CASE live' # live
    <3>1. PICK seen \in {NoSha, LiveSha}, claims \in {Claims, NoClaims} :
             /\ Decide(job.tag, job.sha, job.run, claims, seen).action = "cleanup"
             /\ live' = [main |-> Decide(job.tag, job.sha, job.run, claims, seen).prior,
                         staged |-> None]
      BY <1>4, <2>2
    <3>2. PICK i \in DOMAIN releases, prior \in DOMAIN versions :
             /\ Decide(job.tag, job.sha, job.run, claims, seen) =
                   [action |-> "cleanup", release |-> i, prior |-> prior]
             /\ Cleans(i, prior, job.tag, job.sha, job.run)
      BY <3>1, Cleanup
    <3>3. rank[versions[prior].sha] > 0
      BY <1>3, <3>2, CleansToRank DEF WayBack
    <3>4. live' = [main |-> prior, staged |-> None]
      BY <3>1, <3>2
    <3> QED
      BY <1>1, <3>3, <3>4 DEF Lives, LiveSha
  <2> QED
    BY <2>1, <2>2
<1> QED
  BY <1>1, <1>2, <1>3, <1>5, TrafficWay


\* A deleted draft takes the ranks above what serves along: its own is one.
LEMMA DeleteWay ==
    ASSUME ReleaseInv, WayBack, DeleteDraft \/ CompensateDelete
    PROVE  WayBack'
<1>1. UNCHANGED <<versions, live, strays, tags>> /\ budget' = budget
  BY DEF DeleteDraft, CompensateDelete, cloudflare, ghosts
<1>2. \E i, prior : MayDelete(i, prior) /\ releases' = Without(i) /\ GaveWay(i, prior)
  <2>1. CASE DeleteDraft
    BY <2>1 DEF DeleteDraft, ReleaseInv, JobOK
  <2>2. CASE CompensateDelete
    BY <2>2 DEF CompensateDelete, ReleaseInv, HandlerOK
  <2> QED
    BY <2>1, <2>2
<1>3. PICK i, prior : MayDelete(i, prior) /\ releases' = Without(i) /\ GaveWay(i, prior)
  BY <1>2
<1>4. /\ i \in DOMAIN releases /\ live.main = prior /\ live.staged = None /\ IsPrepared(i) /\ releases[i].draft
      /\ LiveSha = versions[prior].sha
      /\ releases[i].prior \in {None, prior}
  BY <1>3 DEF MayDelete, IsPrepared, GaveWay, LiveSha
<1>5. \A j \in DOMAIN releases' : j \in DOMAIN releases /\ j # i /\ releases'[j] = releases[j]
  BY <1>3 DEF Without
<1>6. \A j \in DOMAIN releases : j # i => j \in DOMAIN releases' /\ releases'[j] = releases[j]
  BY <1>3 DEF Without
<1>7. Grow
  BY <1>1 DEF Grow
<1>8. PICK rank \in [Sha -> Nat] : Lives(rank) /\ Backed(rank)
  BY DEF WayBack
<1>9. OneRelease'
  <2>1. \A j \in DOMAIN releases' : /\ GoesOn(releases[j], releases'[j], rank)
                                    /\ releases'[j].draft => tags'[releases[j].tag] = NoSha
    BY <1>1, <1>5 DEF GoesOn, WayBack, OneRelease
  <2> QED
    BY <1>1, <1>5, <1>7, <2>1, OneStays DEF WayBack
<1>10. LiveSha \in Sha /\ releases[i].sha \in Sha /\ rank[LiveSha] \in Nat \ {0}
  <2>1. LiveSha \in Sha /\ releases[i].sha \in Sha
    BY <1>4, Shas
  <2>2. rank[LiveSha] > 0
    BY <1>8 DEF Lives
  <2> QED
    BY <2>1, <2>2
<1>11. rank[releases[i].sha] > 0 => rank[LiveSha] < rank[releases[i].sha]
  <2> SUFFICES ASSUME rank[releases[i].sha] > 0
               PROVE  rank[LiveSha] < rank[releases[i].sha]
    OBVIOUS
  <2>1. releases[i].prior # None
    BY <1>4, <1>8, KnowsPrior DEF WayBack
  <2> QED
    BY <1>4, <1>8, <2>1 DEF Backed
<1>12. PICK new \in [Sha -> Nat] :
          \A s \in Sha : new[s] = IF rank[s] <= rank[LiveSha] THEN rank[s] ELSE 0
  <2> DEFINE new == [s \in Sha |-> IF rank[s] <= rank[LiveSha] THEN rank[s] ELSE 0]
  <2>1. new \in [Sha -> Nat]
    OBVIOUS
  <2> QED
    BY <2>1
<1>13. Lives(new)'
  <2>1. new[LiveSha] > 0
    BY <1>10, <1>12
  <2> QED
    BY <1>1, <1>4, <2>1 DEF Lives, LiveSha
<1>14. ASSUME NEW s \in Sha, new[s] > 0
       PROVE  Accounted(s)'
  <2>1. rank[s] \in Nat /\ rank[s] > 0 /\ rank[s] <= rank[LiveSha]
    BY <1>12, <1>14
  <2>2. s # releases[i].sha
    BY <1>10, <1>11, <2>1
  <2>3. Accounted(s)
    BY <1>8, <2>1 DEF Backed
  <2> QED
    BY <1>1, <1>6, <1>7, <2>2, <2>3, AccountedStays
<1>15. ASSUME NEW j \in DOMAIN releases', IsPrepared(j)', releases'[j].prior # None,
              new[releases'[j].sha] > 0
       PROVE  /\ new[versions'[releases'[j].prior].sha] > 0
              /\ new[versions'[releases'[j].prior].sha] < new[releases'[j].sha]
  <2>1. PICK a \in Sha, b \in Sha : a = releases[j].sha /\ b = versions[releases[j].prior].sha
    BY <1>5, <1>15, Shas DEF ReleaseInv, Books, ReleaseOK
  <2>2. IsPrepared(j) /\ releases[j].prior # None /\ new[a] > 0
    BY <1>5, <1>15, <2>1 DEF IsPrepared
  <2>3. rank[a] \in Nat /\ rank[b] \in Nat /\ rank[a] > 0 /\ rank[a] <= rank[LiveSha]
    BY <1>12, <2>2
  <2>4. rank[b] > 0 /\ rank[b] < rank[a]
    BY <1>5, <1>8, <1>15, <2>1, <2>2, <2>3 DEF Backed
  <2>5. new[b] > 0 /\ new[b] < new[a]
    BY <1>10, <1>12, <2>3, <2>4
  <2> QED
    BY <1>1, <1>5, <1>15, <2>1, <2>5
<1>16. Backed(new)'
  BY <1>14, <1>15 DEF Backed
<1> QED
  BY <1>9, <1>13, <1>16 DEF WayBack

\* Steps that move the job or its environment only.
LEMMA QuietWay ==
    ASSUME ReleaseInv, WayBack,
           \/ \E new : Start(new)
           \/ StepFails \/ Stop \/ CaptureRollback \/ SmokeLive \/ Committed \/ Signal
           \/ Reconfigure \/ UNCHANGED vars
           \/ PrepareDraft /\ ~CreateDraft
    PROVE  WayBack'
<1>1. UNCHANGED <<releases, tags, versions, live, strays>>
  BY DEF Start, StepFails, Stop, CaptureRollback, SmokeLive, Committed, Signal, Reconfigure,
         PrepareDraft, Adopt, vars, github, cloudflare, ghosts
<1>2. budget'.rollbacks = budget.rollbacks
  <2>1. budget \in [jobs : Nat, doubt : Nat, rollbacks : Nat]
    BY DEF ReleaseInv, ReleaseTypeOK
  <2>2. \/ budget' = budget \/ budget' = [budget EXCEPT !.jobs = @ + 1]
        \/ budget' = [budget EXCEPT !.doubt = @ + 1]
    BY DEF Start, StepFails, Stop, CaptureRollback, SmokeLive, Committed, Signal, Reconfigure,
           PrepareDraft, Adopt, vars
  <2> QED
    BY <2>1, <2>2
<1> QED
  BY <1>1, <1>2, NothingMoves

LEMMA WayNext ==
    ASSUME Named = {TRUE}, ReleaseInv, WayBack, [ReleaseNext]_vars
    PROVE  WayBack'
<1>1. ASSUME NEW r \in Run, StartDeploy(r)
      PROVE  WayBack'
  BY <1>1, QuietWay DEF StartDeploy
<1>2. ASSUME NEW t \in Tag, NEW s \in Sha \cup {NoSha}, NEW p \in {None} \cup DOMAIN versions,
             StartReconcile(t, s, p)
      PROVE  WayBack'
  BY <1>2, QuietWay DEF StartReconcile
<1>3. CASE PrepareDraft /\ CreateDraft
  BY <1>3, NewDraftWay
<1>4. CASE \/ StepFails \/ Stop \/ CaptureRollback \/ SmokeLive \/ Committed \/ Signal
           \/ Reconfigure \/ UNCHANGED vars
           \/ PrepareDraft /\ ~CreateDraft
  BY <1>4, QuietWay
<1>5. CASE UploadAssets \/ RecordCandidate \/ MarkPublishing
  BY <1>5, MarkerWay
<1>6. CASE RecordPrior
  BY <1>6, RecordWay
<1>7. CASE UploadWorker
  BY <1>7, UploadWay
<1>8. CASE DeployStaged
  BY <1>8, StageWay
<1>9. CASE Promote
  BY <1>9, PromoteWay
<1>10. CASE Publish
  BY <1>10, PublishWay
<1>11. CASE TagAppears
  BY <1>11, TagWay
<1>12. CASE Reconcile \/ Compensate
  BY <1>12, CleanupWay
<1>13. CASE DeleteDraft \/ CompensateDelete
  BY <1>13, DeleteWay
<1>14. ASSUME NEW v \in DOMAIN versions, Rollback(v)
       PROVE  WayBack'
  BY <1>14, RollbackWay
<1> QED
  BY <1>1, <1>2, <1>3, <1>4, <1>5, <1>6, <1>7, <1>8, <1>9, <1>10, <1>11, <1>12, <1>13, <1>14
     DEF ReleaseNext

-----------------------------------------------------------------------------
(* Traffic and recovery *)

LEMMA WayAccounts ==
    ASSUME ReleaseInv, WayBack
    PROVE  TrafficIsAccounted
<1> SUFFICES ASSUME NEW v \in {live.main, live.staged} \ {None, 1}
             PROVE  \/ versions[v].sha \in {tags[versions[v].tag]} \cup strays
                    \/ \E i \in DOMAIN releases :
                          /\ releases[i].sha = versions[v].sha
                          /\ releases[i].draft => releases[i].prior # None
  BY DEF TrafficIsAccounted
<1>1. v \in DOMAIN versions /\ v > 1
  BY Numbers DEF ReleaseInv
<1>2. Build(versions[v])
  BY <1>1 DEF ReleaseInv, Books, VersionsOK
<1>3. PICK rank \in [Sha -> Nat] : Lives(rank) /\ Backed(rank)
  BY DEF WayBack
<1>4. rank[versions[v].sha] > 0
  BY <1>3 DEF Lives, LiveSha
<1>5. Accounted(versions[v].sha)
  BY <1>1, <1>3, <1>4, Shas DEF Backed
<1>6. ASSUME TagShows(versions[v].sha)
      PROVE  versions[v].sha = tags[versions[v].tag]
  <2>1. PICK w \in DOMAIN versions :
           versions[w].sha = versions[v].sha /\ tags[versions[w].tag] = versions[v].sha
    BY <1>6 DEF TagShows
  <2>2. versions[w].tag = versions[v].tag
    BY <1>2, <2>1, TagOfVersion
  <2> QED
    BY <2>1, <2>2
<1> QED
  BY <1>5, <1>6 DEF Accounted

\* The only draft of its tag is what a reconciliation of the tag finds.
LEMMA ClassifiesOnly ==
    ASSUME NEW i, DOMAIN releases = {i}, IsPrepared(i), tags[releases[i].tag] = NoSha
    PROVE  Classify(releases[i].tag, NoSha, NoRun) = [kind |-> "prepared", release |-> i]
<1>1. MarkerMatches(i, releases[i].tag, NoSha, NoRun)
  BY DEF MarkerMatches
<1>2. Drafts(releases[i].tag, NoSha, NoRun) = {i}
  BY <1>1 DEF Drafts, IsPrepared
<1>3. {p \in DOMAIN releases : ~releases[p].draft /\ releases[p].tag = releases[i].tag} = {}
  BY DEF IsPrepared
<1>4. Cardinality({i}) = 1 /\ ~(1 > 1)
  BY FS_Singleton
<1>5. (CHOOSE d \in {i} : TRUE) = i
  OBVIOUS
<1>6. releases[i].state = "prepared"
  BY DEF IsPrepared
<1> QED
  BY <1>1, <1>2, <1>3, <1>4, <1>5, <1>6 DEF Classify

LEMMA WayRecovers ==
    ASSUME ReleaseInv, WayBack
    PROVE  Recoverable
<1> SUFFICES ASSUME NEW i \in DOMAIN releases, budget.rollbacks = 0, DOMAIN releases = {i},
                    IsPrepared(i), CandidateIsClear(i),
                    \A v \in DOMAIN versions : versions[v].run \in {NoRun, releases[i].run}
             PROVE  Decide(releases[i].tag, NoSha, NoRun, NoClaims, LiveSha).action = "cleanup"
  BY DEF Recoverable
<1>1. releases[i].draft /\ tags[releases[i].tag] = NoSha /\ Build(releases[i])
  BY DEF IsPrepared, WayBack, OneRelease, ReleaseInv, Books, ReleaseOK
<1>2. ASSUME NEW v \in DOMAIN versions
      PROVE  IF v = 1 THEN versions[v].sha = FirstSha ELSE versions[v].sha = releases[i].sha
  <2>1. CASE v = 1
    BY <2>1 DEF ReleaseInv, Books, VersionsOK, FirstVersion
  <2>2. CASE v # 1
    <3>1. v > 1
      BY <2>2, Numbers DEF ReleaseInv
    <3>2. Build(versions[v])
      BY <3>1 DEF ReleaseInv, Books, VersionsOK
    <3>3. versions[v].run = releases[i].run
      BY <3>2, ReleaseAssumption DEF Build
    <3> QED
      BY <1>1, <2>2, <3>2, <3>3 DEF Build
  <2> QED
    BY <2>1, <2>2
<1>3. PICK rank \in [Sha -> Nat] : Lives(rank) /\ Backed(rank)
  BY DEF WayBack
<1>4. LiveSha \in {FirstSha, releases[i].sha} /\ LiveSha # NoSha
  BY <1>2, Numbers, Shas, ReleaseAssumption DEF LiveSha, ReleaseInv
<1>5. releases[i].prior = None => ObservedPrior(i, LiveSha) = live.main /\ LiveSha # releases[i].sha
  <2> SUFFICES ASSUME releases[i].prior = None
               PROVE  ObservedPrior(i, LiveSha) = live.main /\ LiveSha # releases[i].sha
    OBVIOUS
  <2>1. ~(rank[releases[i].sha] > 0)
    BY <1>1, <1>3, KnowsPrior DEF WayBack
  <2>2. LiveSha # releases[i].sha
    BY <1>3, <2>1 DEF Lives
  <2>3. live.staged = None
    BY <1>2, <1>3, <2>1, Numbers, StagedIsUploaded DEF Lives, ReleaseInv
  <2>4. live.main # CandidateOf(i)
    BY <2>2, Candidate, NoneIsNoVersion DEF BuildOf, LiveSha, ReleaseInv, Books
  <2> QED
    BY <1>1, <1>4, <2>2, <2>3, <2>4 DEF ObservedPrior
<1>6. PriorOf(i, LiveSha) # None
  BY <1>5, NoneIsNoVersion DEF PriorOf
<1>7. CandidateIsLive(i, LiveSha) \/ PriorIsLive(i, LiveSha)
  <2>1. CASE LiveSha = releases[i].sha
    BY <2>1 DEF CandidateIsLive
  <2>2. CASE LiveSha # releases[i].sha /\ releases[i].prior = None
    BY <1>5, <2>2, NoneIsNoVersion DEF PriorIsLive, PriorOf, LiveSha
  <2>3. CASE LiveSha # releases[i].sha /\ releases[i].prior # None
    <3>1. releases[i].prior \in DOMAIN versions
      BY <2>3 DEF ReleaseInv, Books, ReleaseOK
    <3>2. versions[releases[i].prior].sha # releases[i].sha
      BY <2>3 DEF WayBack, OneRelease
    <3>3. versions[releases[i].prior].sha = FirstSha
      BY <1>2, <3>1, <3>2
    <3> QED
      BY <1>4, <2>3, <3>3 DEF PriorIsLive, PriorOf
  <2> QED
    BY <2>1, <2>2, <2>3
<1>8. Classify(releases[i].tag, NoSha, NoRun) = [kind |-> "prepared", release |-> i]
  BY <1>1, ClassifiesOnly
<1> QED
  BY <1>6, <1>7, <1>8 DEF Decide, Disposable, Agrees, NoClaims

\* While GitHub shows every draft under its tag, what serves or is staged has a
\* release, published or with a prior version in its marker, or its tag, or was
\* put there by hand: no crash, lost answer or signal between the calls of
\* scripts/release/phases.mjs leaves a candidate that no draft names.
THEOREM TrafficAccounted ==
    ASSUME Named = {TRUE}
    PROVE  ReleaseSpec => []TrafficIsAccounted
<1>1. ReleaseInit => ReleaseInv /\ WayBack
  BY InitInv, WayInit
<1>2. ReleaseInv /\ WayBack /\ [ReleaseNext]_vars => (ReleaseInv /\ WayBack)'
  BY NextInv, WayNext
<1>3. ReleaseInv /\ WayBack => TrafficIsAccounted
  BY WayAccounts
<1> QED
  BY <1>1, <1>2, <1>3, PTL DEF ReleaseSpec

\* While GitHub shows every draft under its tag, the manual reconciliation, told
\* only the tag, cleans up a draft whose job stopped anywhere, if one run was at
\* work and at most one upload carries its message.
THEOREM AlwaysRecoverable ==
    ASSUME Named = {TRUE}
    PROVE  ReleaseSpec => []Recoverable
<1>1. ReleaseInit => ReleaseInv /\ WayBack
  BY InitInv, WayInit
<1>2. ReleaseInv /\ WayBack /\ [ReleaseNext]_vars => (ReleaseInv /\ WayBack)'
  BY NextInv, WayNext
<1>3. ReleaseInv /\ WayBack => Recoverable
  BY WayRecovers
<1> QED
  BY <1>1, <1>2, <1>3, PTL DEF ReleaseSpec
=============================================================================
