------------------------------ MODULE Handover ------------------------------
(***************************************************************************)
(* The weekly run of the upstream handover: tools/handover and the         *)
(* workflow .github/workflows/handover.yml that drives it.                 *)
(*                                                                         *)
(* A run rebases every review/* branch onto upstream, parents first, into  *)
(* a candidate (rebuild), pushes the candidates, tests them, force-pushes  *)
(* those that passed to review/* (promote), and deploys a page whose       *)
(* state.json is the only thing the next run remembers.  Meanwhile         *)
(* upstream moves and merges chunks, maintainers push review branches, and *)
(* any step of the run may fail and leave what it did behind.              *)
(*                                                                         *)
(* Git is reduced to what the run can tell apart: a commit is the upstream *)
(* commit it stands on together with the version of every chunk's work it  *)
(* carries on top (0: none).  Two commits with equal fields are one sha.   *)
(***************************************************************************)
EXTENDS Integers, FiniteSets

CONSTANTS
    N,            \* number of chunks; chunk c is the c-th of Manifest.chunks
    Requires,     \* Requires[c]: the parent chunk, 0 for a root
    HasTests,     \* the chunks that declare test goals
    Carries,      \* the chunks that carry upstream pull requests
    NoBranch,     \* a ref that does not exist
    MaxUpstream,  \* bound on upstream's commits
    MaxWork,      \* bound on the versions of one chunk's work
    MaxFaults     \* bound on conflicts, red tests and infrastructure failures

Chunks == 1..N
Never == -1                  \* verified_at: None
Versions == 0..MaxWork
Upstreams == 0..MaxUpstream
Commit == [up : Upstreams, own : [Chunks -> Versions]]
Ref == Commit \union {NoBranch}

ASSUME ChunksAssumption == N \in Nat \ {0}
\* _order lists a parent before its children.
ASSUME OrderAssumption ==
    Requires \in [Chunks -> 0..N] /\ \A c \in Chunks : Requires[c] < c
ASSUME TestsAssumption == HasTests \subseteq Chunks /\ Carries \subseteq Chunks
ASSUME BoundsAssumption ==
    MaxUpstream \in Nat /\ MaxWork \in Nat \ {0} /\ MaxFaults \in Nat
ASSUME RefAssumption == NoBranch \notin Commit

VARIABLES
    (* The world outside the run.                                          *)
    upstream,  \* the tip of upstream main
    merged,    \* merged[c]: the version of c upstream took, where and how, and
               \* whether it merged the pull requests c carries
    review,    \* review[c]: origin's review/c
    cand,      \* cand[c]: origin's handover-candidate/c
    page,      \* the deployed state.json and each card's status
    faults,    \* failures spent so far
    (* The run.                                                            *)
    phase,     \* the job and step the workflow is at
    at,        \* the chunk the current loop is at
    on,        \* the upstream commit fetched for the rebuild
    seen,      \* origin's review/* as the rebuild checked them out
    st,        \* state.json: one ChunkState per chunk
    results,   \* the result files of the test jobs
    satisfied, \* promote's set of chunks that hold no child back
    moved,     \* chunks promote pushed
    (* What the properties observe; the code keeps none of it.             *)
    by,        \* by[c]: who moved review/c last, a "hand" or the "run"
    work,      \* work[c]: the version of c its maintainer pushed last
    touched,   \* chunks a maintainer pushed since the run checked out
    ran,       \* ran[c]: the commit c's test job really ran on
    green      \* chunks whose review tip is a commit their goals passed on

world == <<upstream, merged, review, cand, page>>
run == <<phase, at, on, seen, st, results, satisfied, moved, ran>>
vars == <<upstream, merged, review, cand, page, faults, phase, at, on, seen,
          st, results, satisfied, moved, by, work, touched, ran, green>>

-----------------------------------------------------------------------------
(* Commits *)

UpstreamAt(u) == [up |-> u, own |-> [d \in Chunks |-> 0]]

\* Upstream at u holds version v of chunk d.
Merged(d, v, u) == merged[d].ver = v /\ merged[d].at <= u /\ v # 0

Squashed(d, v, u) == Merged(d, v, u) /\ merged[d].squash

\* `git rebase new` leaves tip alone: new is already beneath it.
StandsOn(c, tip, new) ==
    /\ tip.up = new.up
    /\ \A d \in Chunks \ {c} : tip.own[d] = new.own[d]

\* Every commit of tip that belongs to another chunk is dropped because the
\* new base, or the upstream under it, already has it.
CopiesDrop(c, tip, new) ==
    \A d \in Chunks \ {c} :
        tip.own[d] \in {0, new.own[d]} \/ Merged(d, tip.own[d], new.up)

\* They are there at least in another version.  If that one only adds commits,
\* the copies are dropped as well; if it alters them, the rebase conflicts.
CopiesMayDrop(c, tip, new) ==
    \A d \in Chunks \ {c} :
        tip.own[d] = 0 \/ new.own[d] # 0 \/ (merged[d].ver # 0 /\ merged[d].at <= new.up)

\* Broken: any merge of c upstream counts as a merge of this version
RebasedAnyVersion(c, tip, new) ==
    [new EXCEPT !.own[c] = IF merged[c].ver # 0 /\ merged[c].at <= new.up THEN 0 ELSE tip.own[c]]

\* The result of a rebase that succeeds: c's own commits on the new base,
\* none of them if upstream already took them.
Rebased(c, tip, new) ==
    [new EXCEPT !.own[c] = IF Merged(c, tip.own[c], new.up) THEN 0 ELSE tip.own[c]]

\* A squash is not patch-equivalent to what it squashed, so a rebase over
\* one may conflict on every run.
MeetsSquash(tip, new) == \E d \in Chunks : Squashed(d, tip.own[d], new.up)

-----------------------------------------------------------------------------
(* ChunkState *)

Failed == {"conflict", "parent-behind"}

Row == [rebase : Failed \union {"ok", "unchanged", "todo"},
        candidate : Ref, published : Ref,
        tests : {"pass", "fail", "none", "pending"},
        promoted : BOOLEAN, landed : BOOLEAN,
        verified_at : Upstreams \union {Never},
        last_good : Upstreams \union {Never}]

\* What upstream took of a chunk.
Merge == [ver : Versions, at : Upstreams, squash : BOOLEAN, pulls : BOOLEAN]

Kinds == {"verified", "behind", "untested", "landed"}

Card == [kind : Kinds,
         verified_at : Upstreams \union {Never},
         last_good : Upstreams \union {Never}]

Blank == [rebase |-> "todo", candidate |-> NoBranch, published |-> NoBranch,
          tests |-> "none", promoted |-> FALSE, landed |-> FALSE,
          verified_at |-> Never, last_good |-> Never]

\* Broken: the previous state is not read
RebuiltAfresh(c, rebase, candidate, tests, landed) ==
    [rebase |-> rebase, candidate |-> candidate, published |-> seen[c],
     tests |-> tests, promoted |-> FALSE, landed |-> landed,
     verified_at |-> Never, last_good |-> Never]

\* A row of the new state.json.  verified_at and last_good are carried over,
\* by chunk id, from the state.json that is deployed.
Rebuilt(c, rebase, candidate, tests, landed) ==
    [rebase |-> rebase, candidate |-> candidate, published |-> seen[c],
     tests |-> tests, promoted |-> FALSE, landed |-> landed,
     verified_at |-> page[c].verified_at, last_good |-> page[c].last_good]

\* Broken: an unchanged chunk is never tested
NeverUntested(c) == FALSE

UntestedUnchanged(c) ==
    st[c].rebase = "unchanged" /\ st[c].verified_at = Never

\* The chunks CI tests in this run.
Matrix ==
    {c \in HasTests : ~st[c].landed /\ (st[c].rebase = "ok" \/ UntestedUnchanged(c))}

Passed(c) == c \in HasTests => results[c] = "pass"

-----------------------------------------------------------------------------
(* Initial state: a first run; the page is not deployed yet (a 404), and   *)
(* no review branch has been seeded.                                       *)

FreshRun ==
    /\ phase = "idle"
    /\ at = 1
    /\ on = 0
    /\ seen = [c \in Chunks |-> NoBranch]
    /\ st = [c \in Chunks |-> Blank]
    /\ results = [c \in Chunks |-> "none"]
    /\ satisfied = {}
    /\ moved = {}
    /\ ran = [c \in Chunks |-> NoBranch]

Init ==
    /\ upstream = 0
    /\ merged = [c \in Chunks |-> [ver |-> 0, at |-> 0, squash |-> FALSE, pulls |-> FALSE]]
    /\ review = [c \in Chunks |-> NoBranch]
    /\ cand = [c \in Chunks |-> NoBranch]
    /\ page = [c \in Chunks |->
                 [kind |-> "behind", verified_at |-> Never, last_good |-> Never]]
    /\ faults = 0
    /\ FreshRun
    /\ by = [c \in Chunks |-> "hand"]
    /\ work = [c \in Chunks |-> 0]
    /\ touched = {}
    /\ green = {}

\* A failure, while the budget lasts.
Fault ==
    /\ faults < MaxFaults
    /\ faults' = faults + 1

NoFault == UNCHANGED faults

-----------------------------------------------------------------------------
(* Upstream and the maintainers *)

UpstreamMoves ==
    /\ upstream < MaxUpstream
    /\ upstream' = upstream + 1
    /\ UNCHANGED <<merged, review, cand, page, faults, run, by, work, touched, green>>

\* Upstream's maintainer takes the work a review branch offers, commit by
\* commit or squashed.
UpstreamTakes(c) ==
    /\ upstream < MaxUpstream
    /\ review[c] # NoBranch
    /\ merged[c].ver = 0
    /\ upstream' = upstream + 1
    /\ \E squash \in BOOLEAN :
          merged' = [merged EXCEPT ![c].ver = review[c].own[c],
                                   ![c].at = upstream + 1, ![c].squash = squash]
    /\ UNCHANGED <<review, cand, page, faults, run, by, work, touched, green>>

\* Upstream merges the pull requests c carries, which is not yet what c made of
\* them.
UpstreamMergesPulls(c) ==
    /\ upstream < MaxUpstream
    /\ c \in Carries
    /\ ~merged[c].pulls
    /\ upstream' = upstream + 1
    /\ merged' = [merged EXCEPT ![c].pulls = TRUE]
    /\ UNCHANGED <<review, cand, page, faults, run, by, work, touched, green>>

\* A maintainer's force-push to review/c, at any moment of a run.
Push(c, new) ==
    /\ review' = [review EXCEPT ![c] = new]
    /\ by' = [by EXCEPT ![c] = "hand"]
    /\ work' = [work EXCEPT ![c] = new.own[c]]
    /\ touched' = IF phase = "idle" THEN touched ELSE touched \union {c}
    /\ green' = green \ {c}
    /\ UNCHANGED <<upstream, merged, cand, page, faults, run>>

\* Where a maintainer builds c by hand: on upstream as it is now, or on the
\* parent's review branch.
HandBase(c) ==
    IF Requires[c] = 0 \/ merged[Requires[c]].ver # 0
    THEN UpstreamAt(upstream) ELSE review[Requires[c]]

\* `make handover-seed` and the first push: it refuses a branch that exists
\* and a child whose parent has none.
Seed(c) ==
    /\ review[c] = NoBranch
    /\ HandBase(c) # NoBranch
    /\ Push(c, [HandBase(c) EXCEPT !.own[c] = 1])

\* New work on the branch as it stands.
Amend(c) ==
    /\ review[c] # NoBranch
    /\ work[c] < MaxWork
    /\ Push(c, [review[c] EXCEPT !.own[c] = work[c] + 1])

\* A rebase done by hand, which resolves what the run could not.
Resolve(c) ==
    /\ review[c] # NoBranch
    /\ HandBase(c) # NoBranch
    /\ ~Merged(c, work[c], upstream)
    /\ ~StandsOn(c, review[c], HandBase(c))
    /\ Push(c, [HandBase(c) EXCEPT !.own[c] = work[c]])

Maintainer == \E c \in Chunks : Seed(c) \/ Amend(c) \/ Resolve(c)

Environment ==
    \/ UpstreamMoves
    \/ \E c \in Chunks : UpstreamTakes(c) \/ UpstreamMergesPulls(c)
    \/ Maintainer

-----------------------------------------------------------------------------
(* The rebuild job *)

\* Checkout, fetch upstream, download the previous state.  A download that
\* fails for any reason but a 404 stops the run here.
StartRun ==
    /\ phase = "idle"
    /\ phase' = "rebuild"
    /\ at' = 1
    /\ on' = upstream
    /\ seen' = review
    /\ touched' = {}
    /\ UNCHANGED <<world, faults, st, results, satisfied, moved, by, work, ran, green>>

NewBase(c) ==
    IF Requires[c] = 0 THEN UpstreamAt(on) ELSE st[Requires[c]].candidate

\* One turn of rebuild's loop over the chunks, parents first.
RebuildTurn(c) == phase = "rebuild" /\ at = c

RebuildChunk(c, row) ==
    /\ st' = [st EXCEPT ![c] = row]
    /\ at' = at + 1
    /\ UNCHANGED <<world, phase, on, seen, results, satisfied, moved, by, work,
                   touched, ran, green>>

ParentFailed(c) == Requires[c] # 0 /\ st[Requires[c]].rebase \in Failed

\* The parent failed: the chunk does not move at all.
RebuildBehind(c) ==
    /\ RebuildTurn(c)
    /\ ParentFailed(c)
    /\ RebuildChunk(c, [Rebuilt(c, "parent-behind", NoBranch, "none", FALSE)
                          EXCEPT !.published = NoBranch])
    /\ NoFault

RebuildMissing(c) ==
    /\ RebuildTurn(c)
    /\ ~ParentFailed(c)
    /\ seen[c] = NoBranch
    /\ RebuildChunk(c, Rebuilt(c, "conflict", NoBranch, "none", FALSE))
    /\ NoFault

\* The new base is already beneath the published tip.
RebuildUnchanged(c) ==
    /\ RebuildTurn(c)
    /\ ~ParentFailed(c)
    /\ seen[c] # NoBranch
    /\ StandsOn(c, seen[c], NewBase(c))
    /\ RebuildChunk(c, Rebuilt(c, "unchanged", seen[c], "none", FALSE))
    /\ NoFault

\* The rebase replayed the chunk, or found that upstream has all of it.
RebuildMoved(c) ==
    /\ RebuildTurn(c)
    /\ ~ParentFailed(c)
    /\ seen[c] # NoBranch
    /\ ~StandsOn(c, seen[c], NewBase(c))
    /\ CopiesMayDrop(c, seen[c], NewBase(c))
    /\ LET new == Rebased(c, seen[c], NewBase(c))
           landed == new.own[c] = 0
       IN  RebuildChunk(c, Rebuilt(c, "ok", new, IF landed THEN "none" ELSE "pending", landed))
    /\ NoFault

\* The rebase stopped and was aborted.  An altered copy of the parent
\* stops it on every run, and a squash may; anything else is a failure.
RebuildConflict(c) ==
    /\ RebuildTurn(c)
    /\ ~ParentFailed(c)
    /\ seen[c] # NoBranch
    /\ ~StandsOn(c, seen[c], NewBase(c))
    /\ IF CopiesDrop(c, seen[c], NewBase(c)) /\ ~MeetsSquash(seen[c], NewBase(c))
       THEN Fault ELSE NoFault
    /\ RebuildChunk(c, Rebuilt(c, "conflict", NoBranch, "none", FALSE))

\* Broken: a candidate branch left by an earlier run is not overwritten
PushNewCandidates ==
    /\ phase = "rebuild"
    /\ at = N + 1
    /\ phase' = "test"
    /\ cand' = [c \in Chunks |-> IF cand[c] = NoBranch THEN st[c].candidate ELSE cand[c]]
    /\ UNCHANGED <<upstream, merged, review, page, faults, at, on, seen, st, results,
                   satisfied, moved, by, work, touched, ran, green>>

\* One forced push of every candidate to its scratch branch.
PushCandidates ==
    /\ phase = "rebuild"
    /\ at = N + 1
    /\ phase' = "test"
    /\ cand' = [c \in Chunks |->
                  IF st[c].candidate # NoBranch THEN st[c].candidate ELSE cand[c]]
    /\ UNCHANGED <<upstream, merged, review, page, faults, at, on, seen, st, results,
                   satisfied, moved, by, work, touched, ran, green>>

-----------------------------------------------------------------------------
(* The test jobs, one per chunk of the matrix, in any order *)

\* The job checks out the candidate by its branch name and runs the goals.
Test(c) ==
    /\ phase = "test"
    /\ c \in Matrix
    /\ results[c] = "none"
    /\ ran' = [ran EXCEPT ![c] = cand[c]]
    /\ \/ /\ results' = [results EXCEPT ![c] = "pass"]
          /\ green' = IF review[c] = cand[c] THEN green \union {c} ELSE green
          /\ NoFault
       \/ /\ results' = [results EXCEPT ![c] = "fail"]
          /\ UNCHANGED green
          /\ Fault
    /\ UNCHANGED <<world, phase, at, on, seen, st, satisfied, moved, by, work, touched>>

-----------------------------------------------------------------------------
(* The publish job *)

\* Every test job is over; one that uploaded no result counts as a failure.
StartPublish ==
    /\ phase = "test"
    /\ phase' = "promote"
    /\ at' = 1
    /\ IF \E c \in Matrix : results[c] = "none" THEN Fault ELSE NoFault
    /\ UNCHANGED <<world, on, seen, st, results, satisfied, moved, by, work, touched, ran, green>>

Settled(c) == st[c].landed \/ st[c].rebase = "unchanged"

\* Broken: a child does not wait for its parent
PromotableAlone(c) == ~Settled(c) /\ st[c].rebase = "ok" /\ Passed(c)

Promotable(c) ==
    /\ ~Settled(c)
    /\ st[c].rebase = "ok"
    /\ Passed(c)
    /\ Requires[c] # 0 => Requires[c] \in satisfied

\* Broken: a plain --force
NoLease(c) == TRUE

\* The push carries --force-with-lease=<branch>:<published>.
LeaseHolds(c) == review[c] = st[c].published

\* Broken: the loop does not keep its place
PromoteAnyTurn(c) ==
    /\ phase = "promote"
    /\ at' = at + 1
    /\ UNCHANGED <<upstream, merged, cand, page, phase, on, seen, st, results, work,
                   touched, ran>>

PromoteTurn(c) ==
    /\ phase = "promote"
    /\ at = c
    /\ at' = at + 1
    /\ UNCHANGED <<upstream, merged, cand, page, phase, on, seen, st, results, work,
                   touched, ran>>

\* Nothing to push, and nothing to hold the children back.
PromoteSettled(c) ==
    /\ PromoteTurn(c)
    /\ Settled(c)
    /\ satisfied' = satisfied \union {c}
    /\ UNCHANGED <<review, by, faults, moved, green>>

PromotePush(c) ==
    /\ PromoteTurn(c)
    /\ Promotable(c)
    /\ LeaseHolds(c)
    /\ review' = [review EXCEPT ![c] = st[c].candidate]
    /\ by' = [by EXCEPT ![c] = "run"]
    /\ satisfied' = satisfied \union {c}
    /\ moved' = moved \union {c}
    /\ green' = IF c \in HasTests /\ results[c] = "pass" /\ ran[c] = st[c].candidate
                THEN green \union {c} ELSE green \ {c}
    /\ UNCHANGED faults

\* The remote refuses the push: the branch moved, or the remote is at fault.
PromoteRefused(c) ==
    /\ PromoteTurn(c)
    /\ Promotable(c)
    /\ IF LeaseHolds(c) THEN Fault ELSE NoFault
    /\ UNCHANGED <<review, by, satisfied, moved, green>>

PromoteHeld(c) ==
    /\ PromoteTurn(c)
    /\ ~Settled(c)
    /\ ~Promotable(c)
    /\ UNCHANGED <<review, by, faults, satisfied, moved, green>>

\* A chunk whose tests passed and whose tip is now the commit they ran on.
Verified(c) == c \in HasTests /\ Passed(c) /\ (st[c].rebase = "unchanged" \/ c \in moved)

\* What promote writes into one row of the state: nothing for a chunk that
\* failed, landed, or is unchanged and was verified before.
Stamped(c) ==
    IF ~(c \in Matrix \/ (st[c].rebase = "ok" /\ ~st[c].landed)) THEN st[c]
    ELSE [st[c] EXCEPT
            !.tests = IF c \notin HasTests THEN "none" ELSE IF Passed(c) THEN "pass" ELSE "fail",
            !.promoted = c \in moved,
            !.verified_at = IF Verified(c) THEN on ELSE @,
            !.last_good = IF Verified(c) THEN on ELSE @]

\* The loop is over: the candidates are deleted, best effort, and only then
\* is the state saved.
FinishPromote ==
    /\ phase = "promote"
    /\ at = N + 1
    /\ phase' = "facts"
    /\ st' = [c \in Chunks |-> Stamped(c)]
    /\ \/ cand' = [c \in Chunks |-> NoBranch] /\ NoFault
       \/ UNCHANGED cand /\ Fault
    /\ UNCHANGED <<upstream, merged, review, page, at, on, seen, results, satisfied,
                   moved, by, work, touched, ran, green>>

\* promote dies between two pushes.  The workflow notes that and goes on, with
\* the state the rebuild wrote.
PromoteDies ==
    /\ phase = "promote"
    /\ phase' = "facts"
    /\ Fault
    /\ UNCHANGED <<world, at, on, seen, st, results, satisfied, moved, by, work, touched,
                   ran, green>>

\* facts: a chunk is also landed when what its branch holds is upstream by now,
\* or when the pull requests it carries are merged.  Upstream was fetched
\* somewhere between the rebuild's fetch and this moment.
\* A squash is recognised by its content, unless upstream edited it since.
Facts ==
    /\ phase = "facts"
    /\ phase' = "deploy"
    /\ \E u \in on..upstream, unrecognised \in SUBSET {c \in Chunks : merged[c].squash} :
          st' = [c \in Chunks |->
                   [st[c] EXCEPT !.landed =
                      \/ @
                      \/ merged[c].pulls
                      \/ /\ review[c] # NoBranch
                         /\ Merged(c, review[c].own[c], u)
                         /\ c \notin unrecognised]]
    /\ UNCHANGED <<world, faults, at, on, seen, results, satisfied, moved, by, work,
                   touched, ran, green>>

\* Broken: a rebased chunk counts as current
IsBehindIfFailed(s) == s.rebase \in Failed \/ s.tests = "fail"

\* render's status: a rebased chunk that was not promoted still has its old
\* review branch.
IsBehind(s) ==
    s.rebase \in Failed \/ s.tests = "fail" \/ (s.rebase = "ok" /\ ~s.promoted)

Status(c) ==
    CASE st[c].landed              -> "landed"
      [] ~st[c].landed /\ IsBehind(st[c]) -> "behind"
      [] ~st[c].landed /\ ~IsBehind(st[c]) /\ c \notin HasTests -> "untested"
      [] OTHER -> IF st[c].verified_at # Never THEN "verified" ELSE "behind"

EndRun ==
    /\ phase' = "idle"
    /\ at' = 1
    /\ on' = 0
    /\ seen' = [c \in Chunks |-> NoBranch]
    /\ st' = [c \in Chunks |-> Blank]
    /\ results' = [c \in Chunks |-> "none"]
    /\ satisfied' = {}
    /\ moved' = {}
    /\ ran' = [c \in Chunks |-> NoBranch]
    /\ touched' = {}

\* render and deploy-pages: the page and its state.json replace the old ones.
Deploy ==
    /\ phase = "deploy"
    /\ page' = [c \in Chunks |->
                  [kind |-> Status(c), verified_at |-> st[c].verified_at,
                   last_good |-> st[c].last_good]]
    /\ EndRun
    /\ UNCHANGED <<upstream, merged, review, cand, faults, by, work, green>>

\* A step that fails, a timeout or a lost runner ends the run.  What it pushed
\* stays pushed; its state is gone.
RunDies ==
    /\ phase # "idle"
    /\ Fault
    /\ EndRun
    /\ UNCHANGED <<world, by, work, green>>

RebuildStep ==
    \E c \in Chunks : \/ RebuildBehind(c) \/ RebuildMissing(c) \/ RebuildUnchanged(c)
                      \/ RebuildMoved(c) \/ RebuildConflict(c)

PromoteStep ==
    \E c \in Chunks : \/ PromoteSettled(c) \/ PromotePush(c)
                      \/ PromoteRefused(c) \/ PromoteHeld(c)

RunStep ==
    \/ StartRun \/ RebuildStep \/ PushCandidates \/ (\E c \in Chunks : Test(c))
    \/ StartPublish \/ PromoteStep \/ FinishPromote \/ Facts \/ Deploy

Next == Environment \/ RunStep \/ PromoteDies \/ RunDies

Spec == Init /\ [][Next]_vars

\* The schedule starts a run every week and GitHub runs its steps; nothing
\* makes upstream or a maintainer act.
FairSpec == Spec /\ WF_vars(RunStep)

-----------------------------------------------------------------------------
(* Properties *)

TypeOK ==
    /\ upstream \in Upstreams
    /\ merged \in [Chunks -> Merge]
    /\ review \in [Chunks -> Ref]
    /\ cand \in [Chunks -> Ref]
    /\ page \in [Chunks -> Card]
    /\ faults \in 0..MaxFaults
    /\ phase \in {"idle", "rebuild", "test", "promote", "facts", "deploy"}
    /\ at \in 1..(N + 1)
    /\ on \in Upstreams
    /\ seen \in [Chunks -> Ref]
    /\ st \in [Chunks -> Row]
    /\ results \in [Chunks -> {"none", "pass", "fail"}]
    /\ satisfied \subseteq Chunks
    /\ moved \subseteq Chunks
    /\ by \in [Chunks -> {"hand", "run"}]
    /\ work \in [Chunks -> Versions]
    /\ touched \subseteq Chunks
    /\ ran \in [Chunks -> Ref]
    /\ green \subseteq Chunks

\* A run never loses work: whatever a run does, and whenever a maintainer
\* pushes, review/c holds the version its maintainer pushed last.  This is
\* what the lease on published, taken at the checkout, is for
\* (rebuild.py _rebase_one, promote.py _push).
NoLostWork == \A c \in Chunks : review[c] # NoBranch => review[c].own[c] = work[c]

\* A branch that has fallen behind says so on its card, and never looks
\* current (the design's first pitfall): when the page is rendered, a branch no
\* maintainer touched during the run, and that is not on the upstream commit
\* the page describes, is shown as behind or landed.
BehindSaysSo ==
    phase = "deploy" =>
        \A c \in Chunks :
            (review[c] = NoBranch \/ review[c].up # on) /\ c \notin touched
                => Status(c) \in {"behind", "landed"}

\* What promote publishes is a stack: after its loop, a chunk it pushed stands
\* exactly on its parent's review branch or, if the parent landed, on what the
\* parent was rebuilt on, unless a maintainer pushed the parent meanwhile.  A
\* child pushed without its parent would break that.
StackConsistent ==
    phase \in {"facts", "deploy"} =>
        \A c \in moved :
            Requires[c] # 0 /\ Requires[c] \notin touched /\ c \notin touched =>
                \/ st[Requires[c]].landed /\ StandsOn(c, review[c], NewBase(Requires[c]))
                \/ /\ review[Requires[c]] # NoBranch
                   /\ StandsOn(c, review[c], review[Requires[c]])

\* A chunk is landed only when upstream has the very version its branch holds,
\* not an earlier one: a landed chunk is neither pushed nor tested, and it lets
\* its children go ahead.  Only the page takes a chunk for landed once the pull
\* requests it carries are merged.
LandedIsUpstream ==
    \A c \in Chunks :
        st[c].landed /\ c \notin touched =>
            Merged(c, work[c], upstream) \/ (phase = "deploy" /\ merged[c].pulls)

\* A chunk's last good verification is never forgotten and never goes back,
\* whatever run fails in between: it lives only in the deployed state.json.
LastGoodKept ==
    [][\A c \in Chunks : page'[c].last_good >= page[c].last_good]_page

\* The detailed run implements what a consumer of review/* is promised.
Branches == INSTANCE ReviewBranch WITH tip <- review
Promise == Branches!Spec

\* Every chunk beneath c, and c.
Stack[c \in Chunks] == {c} \union (IF Requires[c] = 0 THEN {} ELSE Stack[Requires[c]])

\* Nothing but the run stands between c and upstream: every branch beneath it
\* exists, none carries an altered copy of another, none was squashed.
Healthy(c) ==
    /\ merged[c].ver = 0 /\ ~merged[c].pulls
    /\ \A a \in Stack[c] : review[a] # NoBranch
    /\ \A a \in Stack[c] :
          /\ ~merged[a].squash
          /\ review[c].own[a] \in {0, review[a].own[a]}
          /\ merged[a].ver \in {0, review[a].own[a]}

\* Once upstream and the maintainers rest and failures cease, the weekly runs
\* bring every healthy branch onto upstream, and its card to say so, for good.
EventuallyCurrent ==
    <>[](\A c \in Chunks : Healthy(c) =>
            review[c].up = upstream /\ page[c].kind \in {"verified", "untested"})

(* What the page and the plan claim and the run does not keep: runs refute it. *)

\* The page's own words for verified: "rebased and tested at the upstream
\* commit shown".  The tip the card describes need not have been tested at all.
\* It was not after a maintainer resolved a conflict by hand: the branch is
\* unchanged, the stamp of its previous tip is carried over by chunk id, and
\* the matrix leaves the chunk out.
VerifiedWasTested ==
    phase = "deploy" =>
        \A c \in Chunks : Status(c) = "verified" /\ c \notin touched => c \in green

\* The plan's "A chunk whose parent did not move does not move either", of every
\* chunk beneath: what a pushed branch carries of another chunk is published,
\* on the same upstream.  It is not when the parent landed and the chunk under
\* the parent failed its tests: the parent's candidate is then that chunk's,
\* and promote looks at the parent only, which is settled.
AncestorsMoved ==
    phase \in {"facts", "deploy"} =>
        \A c \in moved \ touched, d \in Chunks \ touched :
            review[c].own[d] # 0 => review[d] # NoBranch /\ review[d].up = review[c].up

=============================================================================
