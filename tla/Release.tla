------------------------------ MODULE Release ------------------------------
(***************************************************************************)
(* The production release transaction (scripts/release, run by the deploy, *)
(* reconcile and rollback workflows).  Three systems have to agree and none *)
(* of them has transactions: GitHub (a draft release and a tag), Cloudflare *)
(* (which Worker version serves) and the job that moves both.  The marker   *)
(* in the body of the draft is the write-ahead record of the transaction:   *)
(* the run that owns it, the version that served before, the version that   *)
(* shall serve, and whether publication has begun.                          *)
(*                                                                         *)
(* The three workflows share one concurrency group, so at most one job runs *)
(* at a time.  A job may end between any two calls (a failing step, a lost  *)
(* runner, a timeout), a call may take effect although its answer is lost,  *)
(* and the signal handler of the capture step reconciles beside the step.   *)
(*                                                                         *)
(* Left out: the bytes of assets, migrations, and the retry counts, which   *)
(* only decide when a step gives up: a step may give up at any time here.   *)
(***************************************************************************)
EXTENDS Naturals, Sequences, FiniteSets

CONSTANTS
    Run,            \* dispatched deploy runs; a re-run keeps its run
    Tag, Sha,       \* release tags (package versions) and commits
    TagOf, ShaOf,   \* the tag and the commit of each run
    FirstTag, FirstSha,   \* what serves before the first run
    NoRun, NoSha,
    Named,          \* whether GitHub shows a draft under its tag (untagged-*)
    Window,         \* how many versions `wrangler versions list` returns
    MaxJobs, MaxDoubt, MaxRollbacks   \* bounds: jobs, lost answers, rollbacks

ASSUME ReleaseAssumption ==
    /\ TagOf \in [Run -> Tag] /\ ShaOf \in [Run -> Sha]
    /\ FirstTag \in Tag /\ FirstSha \in Sha
    /\ NoRun \notin Run /\ NoSha \notin Sha
    /\ Named \subseteq BOOLEAN
    /\ Window \in Nat /\ MaxJobs \in Nat /\ MaxDoubt \in Nat /\ MaxRollbacks \in Nat
    \* A commit has one package version, and the first release is not redone.
    /\ \A r, q \in Run : ShaOf[r] = ShaOf[q] => TagOf[r] = TagOf[q]
    /\ \A r \in Run : TagOf[r] # FirstTag /\ ShaOf[r] # FirstSha

VARIABLES
    releases,   \* GitHub: the releases that exist, by id
    created,    \* GitHub: how many releases were ever created
    tags,       \* GitHub: the commit each visible tag points at
    versions,   \* Cloudflare: the uploaded Worker versions, oldest first
    live,       \* Cloudflare: the version at 100% and the one at 0%
    configured, \* whether the serving runtime reports a complete configuration
    job,        \* the job that holds the production-deploy group
    handler,    \* the signal handler of the running step
    displaced,  \* for a release: what served when it first touched traffic
    strays,     \* commits that a rollback set live and its smoke refused
    budget      \* jobs started, answers lost, rollbacks

vars == <<releases, created, tags, versions, live, configured, job, handler,
          displaced, strays, budget>>

github == <<releases, created, tags>>
cloudflare == <<versions, live>>
ghosts == <<displaced, strays>>

None == 0

Idle == [kind |-> "none", run |-> NoRun, tag |-> FirstTag, sha |-> NoSha,
         pc |-> "idle", release |-> None, prior |-> None, candidate |-> None,
         recovering |-> FALSE]
Quiet == [pc |-> "none", release |-> None, prior |-> None]

ReleaseInit ==
    /\ releases = <<>>
    /\ created = 0
    /\ tags = [t \in Tag |-> IF t = FirstTag THEN FirstSha ELSE NoSha]
    /\ versions = <<[run |-> NoRun, release |-> None, sha |-> FirstSha, tag |-> FirstTag]>>
    /\ live = [main |-> 1, staged |-> None]
    /\ configured = TRUE
    /\ job = Idle
    /\ handler = Quiet
    /\ displaced = [i \in 1 .. MaxJobs |-> None]
    /\ strays = {}
    /\ budget = [jobs |-> 0, doubt |-> 0, rollbacks |-> 0]

-----------------------------------------------------------------------------
(* What a job can read                                                     *)

LiveSha == versions[live.main].sha

\* The canary and the runtime smoke prove which commit serves.
Serves(sha) == configured /\ LiveSha = sha

IsPrepared(i) == i \in DOMAIN releases /\ releases[i].draft /\ releases[i].state = "prepared"

\* The marker of draft i fits the run, commit and tag that are asked for.
MarkerMatches(i, tag, sha, run) ==
    /\ releases[i].tag = tag
    /\ sha # NoSha => releases[i].sha = sha
    /\ run # NoRun => releases[i].run = run

\* A draft that GitHub shows as untagged-* belongs to a tag only if its
\* marker matches; run = NoRun stands for requireExactRun: false.
Drafts(tag, sha, run) ==
    {i \in DOMAIN releases : /\ releases[i].draft
                             /\ \/ releases[i].named /\ releases[i].tag = tag
                                \/ MarkerMatches(i, tag, sha, run)}

Classify(tag, sha, run) ==
    LET drafts == Drafts(tag, sha, run)
        published == {i \in DOMAIN releases : ~releases[i].draft /\ releases[i].tag = tag}
        other == tags[tag] # NoSha /\ sha # NoSha /\ tags[tag] # sha
        is(kind, i) == [kind |-> kind, release |-> i]
    IN  IF published # {}
        THEN LET i == CHOOSE p \in published : TRUE
             IN  IF Cardinality(published) > 1 \/ other THEN is("hold", None)
                 ELSE is(IF tags[tag] = NoSha THEN "pending" ELSE "committed", i)
        ELSE IF other \/ (tags[tag] # NoSha /\ drafts = {}) \/ Cardinality(drafts) > 1
        THEN is("hold", None)
        ELSE IF drafts = {} THEN is("absent", None)
        ELSE LET i == CHOOSE d \in drafts : TRUE
             IN  is(IF MarkerMatches(i, tag, sha, run) THEN releases[i].state ELSE "hold", i)

\* The versions that carry the message of draft i, among the most recent ones.
Uploaded(i) ==
    {v \in DOMAIN versions : /\ v + Window > Len(versions)
                             /\ versions[v].run = releases[i].run
                             /\ versions[v].release = i
                             /\ versions[v].sha = releases[i].sha}

CandidateOf(i) ==
    IF releases[i].candidate = None /\ Cardinality(Uploaded(i)) = 1
    THEN CHOOSE v \in Uploaded(i) : TRUE
    ELSE releases[i].candidate

CandidateIsClear(i) == releases[i].candidate # None \/ Cardinality(Uploaded(i)) < 2

\* Mutant of ObservedPrior: only the marker knows the prior version.
MarkerOnly(i, seen) == None

\* The prior version may be taken from what serves only when that is one
\* version, of another commit; seen is the commit the canary reported, if any.
ObservedPrior(i, seen) ==
    IF /\ tags[releases[i].tag] = NoSha
       /\ seen \notin {NoSha, releases[i].sha}
       /\ live.staged = None
       /\ live.main # CandidateOf(i)
    THEN live.main ELSE None

\* Mutant of PriorOf: the observed version wins over the recorded one.
ObservedFirst(i, seen) ==
    IF ObservedPrior(i, seen) # None THEN ObservedPrior(i, seen) ELSE releases[i].prior

PriorOf(i, seen) ==
    IF releases[i].prior # None THEN releases[i].prior ELSE ObservedPrior(i, seen)

CandidateIsLive(i, seen) ==
    \/ seen = releases[i].sha
    \/ live = [main |-> CandidateOf(i), staged |-> None]
    \/ CandidateOf(i) # None /\ live = [main |-> PriorOf(i, seen), staged |-> CandidateOf(i)]

PriorIsLive(i, seen) ==
    \/ seen = versions[PriorOf(i, seen)].sha
    \/ live = [main |-> PriorOf(i, seen), staged |-> None]

\* A claimed identity has to be one that is derived, and replaces none.
Agrees(claim, derived) == claim = None \/ claim = derived

\* Mutant of Disposable: a publishing draft is cleaned up like a prepared one.
AnyDraft(kind) == kind \in {"prepared", "publishing"}

\* Only a prepared draft may be cleaned up.
Disposable(kind) == kind = "prepared"

\* What a reconciliation does: it leaves things alone, holds, or cleans up.
Decide(tag, sha, run, claims, seen) ==
    LET c == Classify(tag, sha, run)
        i == c.release
        cleanup == /\ Disposable(c.kind)
                   /\ CandidateIsClear(i)
                   /\ Agrees(claims.release, i)
                   /\ Agrees(claims.prior, releases[i].prior)
                   /\ Agrees(claims.candidate, CandidateOf(i))
                   /\ PriorOf(i, seen) # None
                   /\ CandidateIsLive(i, seen) \/ PriorIsLive(i, seen)
    IN  IF cleanup THEN [action |-> "cleanup", release |-> i, prior |-> PriorOf(i, seen)]
        ELSE [action |-> IF c.kind \in {"absent", "committed"} THEN c.kind ELSE "hold",
              release |-> i, prior |-> None]

NoClaims == [release |-> None, prior |-> None, candidate |-> None]

-----------------------------------------------------------------------------
(* Jobs                                                                    *)

At(pc) == job.kind = "deploy" /\ job.pc = pc

\* A call of which the answer is lost takes effect all the same.
Lose(answered) ==
    /\ ~answered => budget.doubt < MaxDoubt
    /\ budget' = IF answered THEN budget ELSE [budget EXCEPT !.doubt = @ + 1]

\* Outputs of a step are written when the step succeeds.
Failed == [job EXCEPT !.pc = "reconcile",
                      !.prior = IF job.pc = "record" THEN None ELSE @,
                      !.candidate = IF job.pc = "persist" THEN None ELSE @]
Then(pc, answered) == job' = IF answered THEN [job EXCEPT !.pc = pc] ELSE Failed

Start(new) ==
    /\ job = Idle
    /\ budget.jobs < MaxJobs
    /\ budget' = [budget EXCEPT !.jobs = @ + 1]
    /\ job' = new
    /\ UNCHANGED <<github, cloudflare, configured, handler, ghosts>>

\* A dispatch, or Re-run failed jobs on an earlier one.
StartDeploy(r) ==
    /\ tags[TagOf[r]] \in {NoSha, ShaOf[r]}
    /\ Start([Idle EXCEPT !.kind = "deploy", !.run = r, !.tag = TagOf[r],
                          !.sha = ShaOf[r], !.pc = "draft"])

\* The manual reconciliation, with the identities its operator claims.
StartReconcile(tag, sha, prior) ==
    /\ tag # FirstTag
    /\ Start([Idle EXCEPT !.kind = "reconcile", !.tag = tag, !.sha = sha,
                          !.prior = prior, !.pc = "reconcile"])

\* A step fails; the deploy job goes to its always() reconciliation.
StepFails ==
    /\ job.kind = "deploy" /\ job.pc \notin {"reconcile", "delete"}
    /\ job' = Failed
    /\ handler' = Quiet
    /\ UNCHANGED <<github, cloudflare, configured, ghosts, budget>>

\* The job ends where it is.
Stop ==
    /\ job # Idle
    /\ job' = Idle
    /\ handler' = Quiet
    /\ UNCHANGED <<github, cloudflare, configured, ghosts, budget>>

Adopt(kind, pc) ==
    LET c == Classify(job.tag, job.sha, job.run)
    IN  /\ c.kind = kind
        /\ job' = [job EXCEPT !.release = c.release, !.pc = pc]
        /\ UNCHANGED <<github, budget>>

CreateDraft ==
    /\ Classify(job.tag, job.sha, job.run).kind = "absent"
    /\ created < MaxJobs
    /\ created' = created + 1
    /\ \E named \in Named :
         releases' = [i \in DOMAIN releases \cup {created + 1} |->
             IF i \in DOMAIN releases THEN releases[i]
             ELSE [run |-> job.run, tag |-> job.tag, sha |-> job.sha, draft |-> TRUE,
                   named |-> named, state |-> "prepared", assets |-> FALSE,
                   prior |-> None, candidate |-> None]]
    /\ \E answered \in BOOLEAN :
         /\ Lose(answered)
         /\ job' = IF answered THEN [job EXCEPT !.release = created + 1, !.pc = "assets"]
                   ELSE job
    /\ UNCHANGED tags

PrepareDraft ==
    /\ At("draft")
    /\ \/ CreateDraft
       \/ Adopt("prepared", "assets")
       \/ Adopt("publishing", "smoke")
       \/ Adopt("committed", "reconcile")
    /\ UNCHANGED <<cloudflare, configured, handler, ghosts>>

UploadAssets ==
    /\ At("assets")
    /\ IsPrepared(job.release)
    /\ releases' = [releases EXCEPT ![job.release].assets = TRUE]
    /\ \E answered \in BOOLEAN : Lose(answered) /\ Then("capture", answered)
    /\ UNCHANGED <<created, tags, cloudflare, configured, handler, ghosts>>

\* Exactly one version serves, and reports a configured commit.
CaptureRollback ==
    /\ At("capture")
    /\ live.staged = None /\ configured
    /\ job' = [job EXCEPT !.prior = live.main, !.pc = "record"]
    /\ UNCHANGED <<github, cloudflare, configured, handler, ghosts, budget>>

\* Mutant of PriorMatches: a re-run records what serves now as its prior.
ForkPrior == TRUE

\* A run never forks the version it goes back to.
PriorMatches == Agrees(releases[job.release].prior, job.prior)

RecordPrior ==
    /\ At("record")
    /\ IsPrepared(job.release)
    /\ PriorMatches
    /\ releases' = [releases EXCEPT ![job.release].prior = job.prior]
    /\ \E answered \in BOOLEAN :
         /\ Lose(answered)
         /\ Then(IF handler = Quiet THEN "worker" ELSE "exiting", answered)
         /\ handler' = IF answered THEN handler ELSE Quiet
    /\ UNCHANGED <<created, tags, cloudflare, configured, ghosts>>

\* An answer that does not arrive loses the id of the version.
UploadWorker ==
    /\ At("worker")
    /\ versions' = Append(versions, [run |-> job.run, release |-> job.release,
                                     sha |-> job.sha, tag |-> job.tag])
    /\ \E answered \in BOOLEAN :
         /\ Lose(answered)
         /\ job' = IF answered THEN [job EXCEPT !.candidate = Len(versions) + 1, !.pc = "persist"]
                   ELSE Failed
    /\ UNCHANGED <<github, live, configured, handler, ghosts>>

RecordCandidate ==
    /\ At("persist")
    /\ IsPrepared(job.release)
    /\ releases' = [releases EXCEPT ![job.release].candidate = job.candidate]
    /\ \E answered \in BOOLEAN : Lose(answered) /\ Then("stage", answered)
    /\ UNCHANGED <<created, tags, cloudflare, configured, handler, ghosts>>

DeployStaged ==
    /\ At("stage")
    /\ job.prior # job.candidate
    /\ live' = [main |-> job.prior, staged |-> job.candidate]
    /\ displaced' = [displaced EXCEPT ![job.release] = IF @ = None THEN live.main ELSE @]
    /\ \E answered \in BOOLEAN : Lose(answered) /\ Then("promote", answered)
    /\ UNCHANGED <<github, versions, configured, handler, strays>>

\* After the candidate passed its smoke through the version override.
Promote ==
    /\ At("promote")
    /\ live.staged # None /\ versions[live.staged].sha = job.sha
    /\ live' = [main |-> job.candidate, staged |-> None]
    /\ \E answered \in BOOLEAN : Lose(answered) /\ Then("smoke", answered)
    /\ UNCHANGED <<github, versions, configured, handler, ghosts>>

SmokeLive ==
    /\ At("smoke")
    /\ Serves(job.sha)
    /\ job' = [job EXCEPT !.pc = "publish"]
    /\ UNCHANGED <<github, cloudflare, configured, handler, ghosts, budget>>

-----------------------------------------------------------------------------
(* Publication                                                             *)

\* An unproven publication is tried in one more window, with a fresh smoke.
Unproven(answered) ==
    job' = IF answered THEN job
           ELSE IF job.recovering THEN [job EXCEPT !.pc = "reconcile"]
           ELSE [job EXCEPT !.recovering = TRUE]

MayPublish(kind) ==
    /\ At("publish")
    /\ job.recovering => Serves(job.sha)
    /\ Classify(job.tag, job.sha, job.run) = [kind |-> kind, release |-> job.release]

MarkPublishing ==
    /\ MayPublish("prepared")
    /\ releases' = [releases EXCEPT ![job.release].state = "publishing"]
    /\ \E answered \in BOOLEAN : Lose(answered) /\ Unproven(answered)
    /\ UNCHANGED <<created, tags, cloudflare, configured, handler, ghosts>>

\* The tag of a published release may become visible later.
Publish ==
    /\ MayPublish("publishing")
    /\ tags[job.tag] \in {NoSha, job.sha}
    /\ releases[job.release].assets
    /\ releases' = [releases EXCEPT ![job.release].draft = FALSE]
    /\ tags' \in {tags, [tags EXCEPT ![job.tag] = job.sha]}
    /\ \E answered \in BOOLEAN : Lose(answered) /\ Unproven(answered)
    /\ UNCHANGED <<created, cloudflare, configured, handler, ghosts>>

Committed ==
    /\ At("publish")
    /\ Classify(job.tag, job.sha, job.run).kind = "committed"
    /\ job' = [job EXCEPT !.pc = "reconcile"]
    /\ UNCHANGED <<github, cloudflare, configured, handler, ghosts, budget>>

TagAppears ==
    /\ \E i \in DOMAIN releases :
         /\ ~releases[i].draft
         /\ tags[releases[i].tag] = NoSha
         /\ tags' = [tags EXCEPT ![releases[i].tag] = releases[i].sha]
    /\ UNCHANGED <<releases, created, cloudflare, configured, job, handler, ghosts, budget>>

-----------------------------------------------------------------------------
(* Reconciliation                                                          *)

Claims == [release |-> job.release, prior |-> job.prior, candidate |-> job.candidate]

Collapse(prior) == live' = [main |-> prior, staged |-> None]

\* A publishing draft holds too: here are no certified assets to publish.
Reconcile ==
    /\ job.pc = "reconcile"
    /\ \E seen \in {NoSha, LiveSha} :
         LET d == Decide(job.tag, job.sha, job.run, Claims, seen)
         IN  \/ /\ d.action # "cleanup"
                /\ job' = Idle
                /\ UNCHANGED <<live, budget>>
             \/ /\ d.action = "cleanup"
                /\ Collapse(d.prior)
                /\ \E answered \in BOOLEAN :
                     /\ Lose(answered)
                     /\ job' = IF answered
                               THEN [job EXCEPT !.pc = "delete", !.release = d.release,
                                                !.prior = d.prior]
                               ELSE Idle
    /\ UNCHANGED <<github, versions, configured, handler, ghosts>>

\* Traffic, runtime, draft and tag are proved once more before the draft goes.
MayDelete(release, prior) ==
    /\ live = [main |-> prior, staged |-> None]
    /\ Serves(versions[prior].sha)
    /\ IsPrepared(release)
    /\ tags[releases[release].tag] = NoSha

Without(release) == [i \in DOMAIN releases \ {release} |-> releases[i]]

DeleteDraft ==
    /\ job.pc = "delete"
    /\ MayDelete(job.release, job.prior)
    /\ releases' = Without(job.release)
    /\ job' = Idle
    /\ UNCHANGED <<created, tags, cloudflare, configured, handler, ghosts, budget>>

\* A signal reaches the capture step while it waits for the canary.  (The
\* other steps wait for nothing, or lack a token that a cleanup needs.)
Signal ==
    /\ At("record") /\ handler = Quiet
    /\ handler' = [handler EXCEPT !.pc = "reconcile"]
    /\ UNCHANGED <<github, cloudflare, configured, job, ghosts, budget>>

Exit ==
    /\ job' = Failed
    /\ handler' = Quiet

\* The handler has no outputs to claim, and reads the canary only if it must.
Compensate ==
    /\ handler.pc = "reconcile"
    /\ \E seen \in {NoSha} \cup (IF configured THEN {LiveSha} ELSE {}) :
         LET d == Decide(job.tag, job.sha, job.run, NoClaims, seen)
         IN  /\ seen # NoSha => /\ job.release \in DOMAIN releases
                                /\ releases[job.release].prior = None
             /\ \/ d.action # "cleanup" /\ Exit /\ UNCHANGED <<live, budget>>
                \/ /\ d.action = "cleanup"
                   /\ Collapse(d.prior)
                   /\ \E answered \in BOOLEAN :
                        /\ Lose(answered)
                        /\ IF answered
                           THEN /\ handler' = [pc |-> "delete", release |-> d.release,
                                               prior |-> d.prior]
                                /\ UNCHANGED job
                           ELSE Exit
    /\ UNCHANGED <<github, versions, configured, ghosts>>

CompensateDelete ==
    /\ handler.pc = "delete"
    /\ MayDelete(handler.release, handler.prior)
    /\ releases' = Without(handler.release)
    /\ Exit
    /\ UNCHANGED <<created, tags, cloudflare, configured, ghosts, budget>>

-----------------------------------------------------------------------------
(* Around the jobs                                                         *)

\* The rollback workflow: any version that carries a tag which exists.  Its
\* smoke comes after the rollback, and may refuse the version that now serves.
Rollback(v) ==
    /\ job = Idle
    /\ budget.rollbacks < MaxRollbacks
    /\ tags[versions[v].tag] # NoSha
    /\ Collapse(v)
    /\ strays' = IF versions[v].sha = tags[versions[v].tag] THEN strays
                 ELSE strays \cup {versions[v].sha}
    /\ budget' = [budget EXCEPT !.rollbacks = @ + 1]
    /\ UNCHANGED <<github, versions, configured, job, handler, displaced>>

\* A secret or binding that the runtime needs disappears, or comes back.
Reconfigure ==
    /\ configured => budget.doubt < MaxDoubt
    /\ configured' = ~configured
    /\ budget' = IF configured THEN [budget EXCEPT !.doubt = @ + 1] ELSE budget
    /\ UNCHANGED <<github, cloudflare, job, handler, ghosts>>

ReleaseNext ==
    \/ \E r \in Run : StartDeploy(r)
    \/ \E t \in Tag, s \in Sha \cup {NoSha}, p \in {None} \cup DOMAIN versions :
         StartReconcile(t, s, p)
    \/ StepFails \/ Stop
    \/ PrepareDraft \/ UploadAssets \/ CaptureRollback \/ RecordPrior
    \/ UploadWorker \/ RecordCandidate \/ DeployStaged \/ Promote \/ SmokeLive
    \/ MarkPublishing \/ Publish \/ Committed \/ TagAppears
    \/ Reconcile \/ DeleteDraft
    \/ Signal \/ Compensate \/ CompensateDelete
    \/ \E v \in DOMAIN versions : Rollback(v)
    \/ Reconfigure

ReleaseSpec == ReleaseInit /\ [][ReleaseNext]_vars

-----------------------------------------------------------------------------
(* Properties                                                              *)

\* The marker is a write-ahead record: whatever gets traffic, or is staged for
\* it, is the build of a release that exists, and while that release is a draft
\* its marker names the version to go back to.  A crash, a lost answer or the
\* signal handler never leaves a candidate in production that no draft names.
TrafficIsAccounted ==
    \A v \in {live.main, live.staged} \ {None, 1} :
        \/ versions[v].sha \in {tags[versions[v].tag]} \cup strays
        \/ \E i \in DOMAIN releases : /\ releases[i].sha = versions[v].sha
                                      /\ releases[i].draft => releases[i].prior # None

\* A draft is deleted only when the version it once displaced serves alone
\* again, and none of its own versions serves.
CleanupRestores ==
    [][\A i \in DOMAIN releases \ DOMAIN releases' :
         /\ live.staged = None
         /\ versions[live.main].release # i
         /\ displaced[i] \in {None, live.main}]_vars

\* Another draft of the commit, and one of the two runs cannot see the draft of
\* the other, which GitHub shows as untagged-*.
Hidden(i) ==
    {j \in DOMAIN releases \ {i} : /\ releases[j].draft /\ releases[j].sha = releases[i].sha
                                   /\ ~(releases[i].named /\ releases[j].named)}

\* Publishing is the point of no automatic rollback: the commit that serves then
\* gives way to a rollback by hand or to the next promotion only, unless two
\* dispatches do not see each other's drafts (docs/ops/release.md, step 10).
PointOfNoReturn ==
    [][\A i \in DOMAIN releases :
         /\ releases[i].state = "publishing"
         /\ Hidden(i) = {}
         /\ LiveSha = releases[i].sha
         /\ LiveSha' # LiveSha
         => job = Idle \/ At("promote")]_vars

\* Whatever state a stopped job leaves, a reconciliation without any claim can
\* clean the draft up, unless two uploads carry its message and none is recorded.
\* (While one run is at work; other releases and a rollback may be in the way.)
Recoverable ==
    \A i \in DOMAIN releases :
        /\ job = Idle /\ budget.rollbacks = 0
        /\ DOMAIN releases = {i} /\ IsPrepared(i) /\ CandidateIsClear(i)
        /\ \A v \in DOMAIN versions : versions[v].run \in {NoRun, releases[i].run}
        => Decide(releases[i].tag, NoSha, NoRun, NoClaims, LiveSha).action = "cleanup"
=============================================================================
