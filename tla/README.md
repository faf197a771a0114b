# A TLA+ model of grafana-ansible-collection's automation

This directory holds TLA+ modules that model the programs this repository runs
unattended, TLC configurations that check them on small instances, and TLAPS
proofs for every instance. Paths below are relative to the repository's root.

The collection is two things: Ansible content (modules and roles) that talks to
Grafana, and a set of tools and workflows that keep a fork alive. The second is
where state lives for weeks, where several actors write the same branches and
boards, and where a step that fails leaves half of its work behind. It comes
first here.

## The system

### Handover run: `tools/handover`, `.github/workflows/handover.yml`

*State.* The branches `review/*` and `handover-candidate/*` on origin; the
deployed `state.json`, one `ChunkState` per chunk, which is all one weekly run
remembers of the last; within a run, `state.json`, the result files of the test
jobs, and promote's set of settled chunks.
*Operations.* `rebuild` rebases each branch onto upstream or onto its parent's
candidate; `push_candidates`; one test job per chunk of `matrix`; `promote`
force-pushes what passed, with a lease on the tip seen at checkout; `facts`
adds what has landed; `render` and the deployment replace page and state.
*Interactions.* Maintainers push `review/*` at any time, upstream moves and
merges, jobs talk through artifacts and branch names.
*Hard.* A run takes hours between reading a branch and pushing it; it can die
between two pushes, or after the pushes and before its state is deployed; a
child must not overtake its parent.
*Correct means* that no maintainer's work is lost, that promoted stacks are
whole, that the page never makes a stale branch look current, that only tested
commits are published, and that the branches catch up once nothing fails.

### Handover manifest: `tools/handover/manifest.py`

*State.* None: every command loads `chunks.yml` anew. *Operations.* `load`
parses, checks and orders the chunks; `children` lists what is below one.
*Hard.* Chunks come in any order, and rings of requirements need not pass
through the first chunk visited. *Correct means* that exactly the consistent
files are accepted, that parents come before children, and that no commit has
two owners: every other command relies on it.

### Handover seed: `tools/handover/seed.py`

*State.* A branch being cherry-picked, git's stopped pick and the queue of its
sequencer, and a marker file that remembers where the human was.
*Operations.* Create a first review branch and pick the chunk's commits onto
it; stop at a conflict; `--continue`. *Interactions.* Between two commands a
human resolves, commits, skips, aborts or goes elsewhere, with git alone.
*Hard.* A command can be killed between any two of its steps, what git keeps
does not say for which chunk, and what is on origin is known from the last
fetch. *Correct means* that a branch holds its chunk's commits in order, that
success without a warning means all of them, that the human ends where they
started, that nothing is overwritten, and that the advice printed leads to an
end.

### Upstream tracker: `tools/upstream-tracker.sh`, `.github/workflows/upstream-tracker.yml`

*State.* The project board's rows with their fields and the tracking issues,
all on GitHub; in a sync, the board, upstream's open items and the fork's open
issues as they were listed.
*Operations.* List, create and add, repair, refresh, mark closed, read again,
mirror. *Interactions.* Maintainers triage rows and close issues between any
two of its API calls; upstream opens, closes, reopens and merges.
*Hard.* No transactions: a row is made in six calls and any of them may be the
last; the board in memory grows stale while it is written.
*Correct means* one row per item, decisions that are the maintainer's, a board
that agrees with upstream's listing and issues that agree with the decisions.

### Role version bumper: `tools/check-role-versions.py`, `tools/bump-role-versions.sh`

*State.* The pins on main, bump branches and pull requests, upstream's releases
and their assets. *Operations.* Compare, branch, push, open a pull request, with
retries. *Hard.* A branch without a pull request after a failure; a release
whose assets are still being uploaded. *Correct means* that every pin behind an
installable release is proposed, once, and none that cannot be installed.

### Grafana and Grafana Cloud modules: `plugins/modules`

*State.* In the server only. *Operations.* `present`, `absent` and
`update_password` as short sequences of requests: create, on conflict look up
and update; look up and delete. *Interactions.* Other clients use the server
between two requests; Ansible runs the same task again and again.
*Hard.* An id that was looked up may be gone, or be somebody else's, when it is
used; a request is refused, or carried out and its answer lost; a refused
lookup can be taken for an answer. *Correct means* that a module that ends well
has done what it was asked, says truthfully whether it changed anything, touches
no object but its own, and that running it again repairs what went wrong.

### Alloy role: `roles/alloy`

*State.* The package, the files and the systemd unit of a host, the running
service, and the handler notifications of one play. *Operations.* The tasks of
a deployment and of a removal. *Interactions.* systemd respawns the service,
the host reboots, the user writes the configuration file that `CONFIG_FILE`
points to, the variables of the play change. *Hard.* A task that fails forgets
the restart an earlier one had queued; a service that crashes answers between
two crashes; whether to look for crashes is decided by other tasks than those
that restart. *Correct means* that a play that ends well leaves running what it
asked for, starts nothing its version rejects, and restarts nothing where
nothing changed, and that no bad play spoils the host for a good one.

### Other service roles and the grafana role: `roles/*`

Loki, Mimir, Tempo and the collector install, template, validate, restart and
wait as alloy does, without its settle check. The grafana role writes files and
calls the modules above.

### Release pipeline: `.github/workflows/galaxy-release.yml`

*State.* The tag, Galaxy's immutable versions, the GitHub release.
*Hard.* The upload is asynchronous and cannot be undone; reruns after a partial
release. *Correct means* that nothing is published ungated, and that a release
on GitHub exists only for a version that Galaxy has.

### The rest

`ci.yml`, `gate.yml`, the test harnesses, the linters and the documentation
checks run once over a tree and keep no state.

## Modules

| module | what it is |
| --- | --- |
| `Handover` | the weekly run, with upstream, the maintainers and failures |
| `ReviewBranch` | what a consumer of `review/*` is promised, without the run |
| `Tracker` | the weekly sync, one API call at a time |
| `RoleVersions` | the weekly version check and bump, with upstream, maintainers and failures |
| `GrafanaObjects` | the objects and tasks of the nine modules, and when a server is as a task asks |
| `Requests` | a module at work: requests, refusals, lost answers, other clients |
| `GrafanaModules`, `CloudModules` | the functions of the modules, in terms of these requests |
| `Modules` | a play that runs one of them again and again, and its properties |
| `PlayTask` | what the author of a play may rely on, without the requests |
| `Manifest` | `load` and `children` as operators, and what they should compute |
| `Seed` | seeding and `--continue` in one clone, on the chunks `Manifest` loads |
| `Alloy` | deployments and removals of Alloy on a Debian host |
| `HandoverProofs`, `ManifestProofs`, `SeedProofs`, `TrackerProofs`, `RoleVersionsProofs`, `ModulesProofs`, `ModulesReasonProofs`, `AlloyProofs` | theorems |
| `MCHandover`, `MCTracker`, `MCRoleVersions`, `MCModules`, `MCSeed`, `MCAlloy` | instances for TLC |

A definition under a comment that begins with "Broken:" is a plausible bug in
the definition it precedes. No specification uses it; each property is known to
fail when it takes that definition's place (`PROJECT.json`, "mutants").

### Handover

A commit is reduced to what the run can tell apart: the upstream commit `up` it
stands on, and for every chunk the version `own[c]` of that chunk's work on top
of it, 0 for none. Two commits with equal fields are one sha. A rebase moves
`up`, keeps `own[c]` unless upstream has that version, and drops the commits of
other chunks that the new base already holds.

`phase` is the job and step of the workflow and `at` the chunk its loop is at;
`st` is `state.json`, a record with the fields of `ChunkState` (a stamp is the
upstream commit in it, its date is left out); `page` is what is deployed. The
rebuild loop has one action per outcome of `_rebase_one`, and promote's loop one
per branch of the loop in `promote`. `Facts`, `Deploy` and the others are whole
commands. Three kinds of variable are not in the code and only watch: `work`
(the version a maintainer pushed last), `by`, `touched`, `ran` and `green` (a
tip that is, commit for commit, one the chunk's goals passed on).

Upstream's commits, a maintainer's pushes and what `git rebase` does are
external: they are modelled from how the tools use them. A rebase stops for
three reasons: an altered copy of another chunk's work (always), a squash
merge beneath it (perhaps), or a failure (within the fault budget).

`ReviewBranch` says what somebody who fetches `review/c` may rely on: people
push what they like, but the pipeline only ever republishes the same work, on
an upstream that is not older, and, for a chunk with tests, only a commit those
tests passed on. `Handover` implements it under the mapping `tip <- review`.

### Tracker

`issue` and `row` are what GitHub holds: the item each tracking issue names in
its title, and the board's fields for it. A sync takes a snapshot (`snap`), and
`Calls(i)` is the sequence of API calls it makes for item `i` in its current
loop, computed from that snapshot and never from the board as it is by then;
`Call` makes the next one. Any of them may be the last (`SyncDies`). A decision
is one of three, since Carry and Fix here, and Done, Not applicable and
Superseded, are treated alike. `yours` remembers a decision taken while no sync
ran, `touched` and `adopted` what people changed by hand.

### RoleVersions

A version is a number and a role needs one artifact of each of two families:
release assets, or packages in two indexes for the roles in `Packages`. `pin` is
main, `tree` the commit the job checked out, `bump[r][v]` the branch
`chore/bump-r-v` with its pull request, all that one run leaves to the next.
The check asks about one role after the other (`CheckApt` and `CheckFound` for a
package, whose two indexes are two requests) and writes the report `behind`; the
bump takes each role of the report through look, push and open. A failure of a
request is within the fault budget, except that a pushed ref that is not visible
yet, as often as the retries allow for, costs nothing. A merge is a squash: a
kept branch that a merge commit made an ancestor of main, which a later push
could fast-forward, is left out. `seen` and `touched` only watch: the versions
that were ever served, and the roles whose branches a maintainer changed during
the run.

### The Grafana modules

A server holds a set of objects of one kind, each an id, a name, a tag and a
value; the table in `GrafanaObjects` says what these are for each kind. `task`
is what the play asks, the same in every run, and `Wish` is the one object all
tasks describe. Every function of a module that sends a request is an action of
`GrafanaModules` or `CloudModules`; its disjuncts are the requests, each with
what the function does with the answer, and `pc` is the request that comes next.
A request is atomic, and between two of them `Others` creates, replaces or
deletes any object. `Requests` has the outcomes of a request: carried out,
refused (the object is gone, a name is taken), or a fault, after which the
server may have carried it out all the same. What a Grafana or Grafana Cloud
server refuses is external.

`named`, `held`, `lacked`, `wrote` and `calm` observe a run: the ids that bore
the task's name at some moment, whether what is asked was done and whether it
was lacking at some moment, whether the server accepted a change, and whether
anybody interfered.

`PlayTask` is the abstract specification: a run ends well only when what it asks
was done at some moment of it, reports its own changes and nobody else's, and
replaces or removes only objects that bore the task's name. `Modules`
implements it, `status` being `pc` with every step of a run called "running".

### Manifest and Seed

`Manifest` translates `load`, `_order` with its recursive `visit`, and
`children`. Each loop is a recursive function of the number of steps made:
`climb[n]` is the path of `visit` after *n* calls, `ordered[n]` and `found[n]`
what the loops of `_order` and `children` hold after *n* chunks. Apart from them
it states, in terms of the ways up through `requires`, which files are
consistent, what an order is, and what is below a chunk. That texts are well
formed and goals allowed is one flag of a chunk; that the lists are lists is
`Shaped`, which every file satisfies.

`Seed` starts with any file. `branch[c]` is what `review/c` starts from and the
commits picked onto it; `head`, `pick`, `todo` and `tree` are git's HEAD,
CHERRY_PICK_HEAD, sequencer queue and work tree, and follow what git does
(external); `marker` is the file in `.git`. `origin` is which review branches
are on origin and `remote` which of them this clone has seen, in its tracking
refs: a push from here (`Publish`) or `Fetch` brings them up to date, a push from
another clone does not, and the commands never fetch. `Seed` and `Continue` are
the two commands, each one action with every point at which it can stop or be
killed among its outcomes, `_finish` included. The human's actions are what git
offers between two commands. Four variables only watch. `home` is where the
human was when seeding a chunk started, which is kept, whatever becomes of the
marker, until a command for the chunk ends well; `astray` are the chunks whose
start was cut before the marker was written, or whose way back was cut or
refused; `owner` is whose commits are queued, and `mixed` are the chunks onto
which another chunk's were picked.

### Alloy

A play is `want`, its variables, and `pc`, the task that comes next; there is one
action per task of `preflight.yml`, `setup-Debian.yml`, `deploy.yml` and
`uninstall.yml` that changes or checks something, and `FlushHandlers` for the
handler. `pkg`, `env`, `config` and `override` are on disk, `unit` is the drop-in
as systemd last read it, and `service` records what the running process was
started with, so that "running" and "installed" can differ. `Accepts` and
`Survives` say which version validates and which stays up with which
configuration. `Mentions` says which versions occur somewhere in what a version
prints for `--version`: the role takes the version asked for as installed when
its text is found anywhere in there (`setup-Debian.yml:7`, `Deployed`), as 1.9.1
is in 1.9.10, or as the version of the compiler may be. Whether to validate is
decided by the version asked for, so that a version too old to validate may be
told to, and fails (`Rejects`). `TaskFails` and `HandlerFails` end a play at any task, before or
after its effect; the restart that was queued is then forgotten (`lost`).

## Runs

| run | instance | what it shows |
| --- | --- | --- |
| `handover` | a parent and its child, both tested, the child carrying a pull request; 1 move of upstream, 2 versions of work, 1 failure | no lost work, stale branches say so, whole stacks, landed means landed, stamps never go back, the refinement of `ReviewBranch`, and that every healthy branch becomes current, for good |
| `verified_was_tested` | 1 version of work | refutes "verified: rebased and tested" for a tip pushed by hand |
| `ancestors_moved` | a stack of three, the first tested; 1 version of work, 1 failure | refutes "every chunk with `requires: [T1]`, transitively, … keeps its old branch" where the chunk between has landed |
| `tracker` | an issue and a pull request; 2 moves of upstream, 1 edit, 2 failures | one row per item, decisions kept, board current, decisions mirrored, and that every open item ends up tracked and no closed one open |
| `never_overwritten` | one issue | refutes "this job never overwrites" for a row triaged during a sync |
| `role_versions` | a packaged and a released role; 3 moves of upstream, 2 edits, 2 failures | only installable versions proposed, green runs complete, amended branches kept, every pin proposed in the end |
| `pull_for_every_branch` | one released role | refutes "Open one pull request per role" after a run that died late |
| `modules` | every task of the nine modules; up to 2 objects, 2 moves of other clients, 1 failure | no needless write, no failure without a reason, the refinement of `PlayTask`, and that a play that is run again puts its object back |
| `seed` | 253 manifests; 2 moves of the human, 1 killed command | the order and the refusals of `load`, `children`, own commits in order, silence means all, the human ends where they started, nothing that was seen is overwritten, and that the printed advice works |
| `only_own_commits` | the same, nothing killed | refutes "Commits are picked in manifest order" where another chunk's commits were queued |
| `alloy` | 13 plays over 3 versions, of which 3 mentions 2 and 1 mentions 3, and 3 configurations; 3 moves, 1 failed task | what ends well runs as asked, nothing rejected runs, changes are confirmed, converged hosts are left alone, and a good play succeeds in the end |
| `restarts_are_confirmed` | the same, no failure | refutes that the settle check follows the handler's restart, for an upgrade |

The six refuted statements are quoted in `PROJECT.json` with their places.

*Bounds.* `MaxUpstream`, `MaxWork`, `MaxMoves` and `MaxEdits` bound what people
and servers do, `MaxFaults` and `MaxKills` how often something fails; nothing
bounds the number of runs, syncs, plays or commands, so every state they leave
is met by a fresh one.

* Handover: two chunks are the smallest stack, and each step of the run looks at
  a chunk and its parent only. A third matters in one case, a parent that landed
  on top of its own parent; `ancestors_moved` has it, and the theorems are about
  stacks of any height. One move of upstream separates a branch that kept
  up from one that did not, a second version of the work separates what upstream
  took from what was amended after it, and one failure placed anywhere leaves
  each kind of half finished run.
* Tracker: two failures are what it takes to leave an orphan and then interrupt
  its repair.
* RoleVersions: two roles let a lookup or a push that fails come before and
  after another role's, two failures are what it takes to lose an answer and
  then fail again, and three moves take a packaged version through upload to one
  index, upload to the other, and withdrawal.
* Modules: an object is told from others by its id and by its name, so that two
  names and an id more than names reach every clash: the object asked for, one
  with its id only, one with its name only. No change a module makes
  depends on more than two requests before it, so that two moves reach every
  way in which its reason can be gone, and the one fault may meet any request.
  "2 objects" is where a server starts; clients add more.
* Seed: all shapes of up to three chunks, rings through one, two or three of
  them included, are there without commits, and commits with one, two or no
  owner on two chunks. Stopping, resuming and mixing need a queue, hence a
  parent of two commits, and a child of one, which git picks without a queue.
  The human starts at `Main`; a start without a branch differs from it in name
  only. Two moves are a push from another clone and a fetch, or two pushes, or
  one of them and a way of leaving a stopped pick.
* Alloy: version 1 cannot validate, and mentions a version that can; version 3
  mentions 2, an older one that no package manager would install over it; the
  others mention only themselves. One configuration is good for all versions,
  one is accepted by version 3, which crashes on it, one is rejected. The plays
  are one for each branch of the role; three moves are a change of the play, a
  change back or a reboot, and a change of the user's file.

The theorems below do not depend on these bounds.

*Deadlock* is checked in every run: a weekly job, a play or a command can always
start.

*Fairness.* Nothing is assumed of upstream, maintainers, other clients, reboots
or failures, which are outside the fair actions.

* `WF_vars(RunStep)`, `WF_vars(SyncStep)`, `WF_vars(JobStep)`: the schedules
  start a run every week and GitHub carries out the steps of a job it started.
  `EventuallyCurrent` speaks of healthy branches: those for which no squash or
  altered copy remains that only a rebase by hand resolves.
* Modules: `WF_vars(Step)` and `WF_vars(Begin)`: Ansible runs a module to its
  end, and the play is run again. `Converges` allows for what the server will
  never let the task do (`Blocked`), stated without the requests.
* Seed: `WF_vars(Advised)`: the human does in the end what a stopped command
  advised, resolves, skips what became empty, continues.
* Alloy: `WF_vars` of `PlayStep`, `Begin` and `Respawn`: Ansible carries on with
  a play, plays are run again, and the unit has `Restart=always`. `RerunsSucceed`
  asks for plays for which the version they leave (`Coming`) is not older than
  what is installed, can validate if it will be told to, and stays up with their
  configuration (`Fine`).

## Theorems

All are about `Spec`, without fairness, for every instance that satisfies the
named assumptions next to the constants, which TLC evaluates in the runs. Each
module's proofs rest on an inductive invariant, which says more than the
properties do.

`HandoverProofs`, for every manifest in dependency order and all bounds:

* `TypeCorrect`, `Spec => []TypeOK`. `TypeOK` is not inductive: what promote
  pushes comes from `st`, so the invariant `TypeInv` adds that a row the rebuild
  wrote is `Sound` (a candidate that is a commit on the fetched upstream and
  carries the work of the tip it replaces) and that nothing stands on an
  upstream commit that does not exist yet (`TipsOK`).
* `WorkIsKept`, `Spec => []NoLostWork`. The argument is the lease: when promote
  pushes, the branch still is the tip the row names, and the row's candidate
  carries that tip's work.
* `LastGoodIsKept`, `Spec => LastGoodKept`. `StampsOK` says that through all
  phases a row's last good stamp is at least the deployed one and at most the
  upstream the run fetched.
* `RunKeepsPromise`, `Spec => Promise`: initial states map to initial states and
  every step to a step of `ReviewBranch` or a stutter. `CandidatesOK` says that
  from the push of the candidates to the end of promote the scratch branch the
  test job checks out is the candidate in the state, which is what makes the
  result one about the commit that is pushed.

and, on top of these, for stacks of any height:

* `PromotedIsAStack`, `Spec => []StackConsistent`. `StackInv` follows a chunk
  from the rebuild to the push. `RowsStand` says that a row's candidate stands on
  what the rebuild took for the base, the parent's candidate or upstream;
  `Unmoved` that until promote reaches a chunk its branch is the tip the row
  names, unless a maintainer pushed it; `PromotedOK` that what promote passed is
  settled with its branch equal to its candidate, or pushed, or held back; and
  `LandedRows` that a landed chunk's candidate is its base and nothing more.
  Parents come before their children in the order, so that a parent is where its
  row says when a child is pushed.
* `BehindIsShown`, `Spec => []BehindSaysSo`, from the same invariant: what is not
  on the run's upstream was failed, held back or refused, and each of the three
  leaves a trace that `Status` looks at.
* `LandedIsThere`, `Spec => []LandedIsUpstream`. `SeenWork` says that the tip a
  row names held all of the maintainer's work when it was read, `UnbuiltRows`
  that a row the rebuild has not reached says nothing, and `MergesStay` that
  upstream never loses what it took. It needs `WorkIsKept`.

The attempt to prove the first showed that what the model said at first, that a
pushed chunk stands on its parent's branch or on upstream if the parent landed,
is true of two chunks and false of three. `StackConsistent` says since where a
landed parent was rebuilt; `ancestors_moved` refutes what the plan says of the
chunks further beneath.

`SeedProofs`, for any manifests, any number of the human's moves and of killed
commands. `FilesAssumption` says of the files that they are `Shaped` and that
the ids in them are among `Ids`; TLC evaluates it for all 253 manifests. Nothing
is assumed of what `load` makes of a file.

* `TypeCorrect`.
* `LoadsWhatIsSound`, `Spec => []LoadIsRight`: for a file of any length, `load`
  refuses exactly what is not sound (an id or a commit listed twice, an unknown
  parent or commit, a ring), and what it returns is the chunks of the file with
  every chunk behind those it stands on.
* `ChildrenAreExact`, `Spec => []ChildrenAreBelow`: `children` of a chunk are
  exactly those that stand on it, over any number of steps, in their order. One
  pass over the chunks is enough because of the order `load` gives them.

  Both rest on `ManifestProofs`, which says of `Visit`, `Order`, `Load` and
  `Children` what they return for any file. A definition by recursion is a choice
  of a function that satisfies it, so each of the three loops first needs that
  such a function exists (`StepsExist`); what it holds after *n* steps follows by
  a least counterexample (`Counting`), which stands in for an induction.
  `VisitIs` is the heart of the first theorem: the path of a visit has no chunk
  twice, so that it cannot be longer than the file and must end at a chunk whose
  parent was visited, or close a ring. `RingIsAbove` turns that ring into a chunk
  that stands on itself, and `AboveIsBefore` shows that no order exists where
  there is one. The second follows from `FoundNext`: after *n* chunks, what was
  found is what stands on the chunk among them.
* `CommitsInOrder`, `Spec => []OwnInOrder`. It is not inductive: where git's queue
  stands decides what the next command picks. `QueueOf` says that the queue is
  the end of its owner's list and that the branch holds nothing behind the
  queue's first commit, which may or may not have been picked when git was
  killed; `StoppedAt` that the commit git stopped at comes after all the branch
  holds. `Upto` is the relation between a branch and a prefix of the list; the
  lemmas about it say how it grows with a pick. A queue that meets another
  chunk's branch marks it as `mixed`, the one way out.
* `NoWarningMeansAll`, `Spec => []QuietMeansAll`. `_finish` counts. What keeps the
  order and is as long as the list is the list, because an increasing function
  from the first *n* numbers to themselves is the identity
  (`IncreasingIsIdentity`, by a least counterexample).
* `EndsWhereItStarted`, `Spec => ReturnsHome`: the marker says where the human was,
  also after a command was killed in its picks, for every chunk that did not go
  astray (`HomeOK`). `home` is not the marker: it outlives the one that a refused
  way back has removed, so that the two exceptions the statement makes are those
  the code makes, and no others.
* `CommandsOnlyAdd`, `Spec => NeverOverwrites`: commands only add to the branch of
  the chunk they name, and start none that this clone has seen on origin.

`TrackerProofs`, for any number of items, of failed calls, and of edits and moves
between any two calls. The invariant follows the sync's position in its calls:
`CallsOK` says that every call before the next one has had its effect, and that
the effect is still there, and each of the others what is true of an item before
and after the loops pass it.

* `TypeCorrect`.
* `NoSecondRow`. `AbsentOK` is the heart: an item that was read as absent has no
  row but adopted ones until the sync adds it, however the sync before it ended,
  because the board is read by title as well as by number. That issues are opened
  and then added, and that the number comes third, is what `MineOK` and
  `UnnumberedOK` hold together.
* `NoDecisionLost`. What was read of a row whose decision was taken between two
  syncs is that decision, so the sync has no reason to seed it.
* `BoardMatchesListing`, from `ListedOK`, `StaleOK` and `ClosedOK`: before its
  loop is there, a row that should not be open was read as open; after it, none
  is. That something was listed at all is `Told`, which only the refusal of an
  empty listing makes true.
* `DecisionsAreMirrored`, from `MirrorOK` and `MirroredOK`, for what nobody
  touched since the second reading.

`RoleVersionsProofs`, for every set of roles and all bounds:

* `TypeCorrect`. `TurnOK` is what it takes: a step that pushes or opens is at a
  role with something to propose.
* `OnlyInstallableIsProposed`. `SeenOK` follows a version from the index or the
  release through `apt` and `behind` to the branch: each was served when it was
  read, and `seen` only grows. That the newest common version is one of the
  common versions (`MaxOfVersions`) rests on the well-foundedness of `<`.
* `GreenRunIsComplete`. `BumpedOK` says that the roles the loop has passed, and
  the one it has just pushed, have their branches unless a maintainer took them.
* `AmendmentsAreKept`. Only `Push` makes a branch anew, and only where none is.

`ModulesProofs`, for any ids, names and values, any legal server at the start
and any number of clients' moves and faults:

* `TypeCorrect`: the server stays legal, too.
* `NoNeedlessWrites`. `LackedOK` says of every request that leads to a write how
  the module knows that something was lacking; where a refusal were taken for an
  answer it would not hold.
* `PromiseKept`, the refinement of `PlayTask`. `NamedOK` says that what a module
  holds an id of did bear the task's name while it ran, and `WroteOK` that a run
  has written exactly when it is past its write. The lemmas about `Create`,
  `Update` and `Delete` say when such a request leads to an outcome that
  `PlayTask` allows, and one lemma per function that it is made only then.

`ModulesReasonProofs`, on top of these:

* `FailuresHaveReasons`, `Spec => []FailsForAReason`. Only a run beside which
  nothing else happened is at stake, and what such a run has read is still so.
  `Knows` says for every request of the nine modules what that is: that the name
  is taken by another id before a folder is looked up by it, that the email has
  no owner of the asked name before a user is created, and so on.
  `RefusedIsTaken` is the lemma beneath it: a creation is refused only for what
  is taken, since ids never run out (`IdIsFree`, from there being more ids than
  names).

`AlloyProofs`, for any versions, configurations and plays, and any number of
failures, reboots and changes:

* `TypeCorrect`.
* `AsAskedIsServed`, in the version asked for or one that mentions it. `DoneOK` says that what a task set is still so at every
  later task. The heart is `FreshOK`: where no restart is queued or was
  forgotten, what runs is what is on disk. `lost` being the only way out of it is
  what makes the statement one about the handler and its notifications.
* `NothingRejectedIsRun`. `WroteOK` says that what a play wrote was accepted by
  the very version that is installed, and that its restart stays queued until
  the handler ran.
* `ChangesGetConfirmed` and `ConvergedIsQuiet`, from `ChangedOK` and
  `ConvergedOK`: what is left by a play that ended well is what each task of the
  next looks for.

*Only model-checked*: everything that must happen eventually (`EventuallyCurrent`,
`EventuallyTracked`, `EventuallyProposed`, `Converges`, `AdviceWorks`,
`RerunsSucceed`): liveness under fairness is out of the prover's reach. Every
other invariant and action property of a passing run is a theorem.

## What the models do, and no property judges

* A parent that is unchanged counts as settled before its test result is looked
  at, so that its failure does not hold its children.
* A failed question about a pull request counts as not merged, and its row stays
  so.
* A notification policy that differs only in a setting that is never compared
  (matchers, grouping, muting) counts as unchanged.
* A play that failed at the settle check and is run again finds nothing changed,
  skips the check and succeeds over a service that still crashes.
  `ChangesAreConfirmed` is about the play that made the change.
* A restart that was forgotten because a later task failed (`deploy.yml:236`) is
  not made up for by running the play again: nothing is changed any more, and
  the play ends well over the old configuration. `ServesWhatWasAsked` excepts it
  by name (`lost`), and `RerunsSucceed` speaks of how plays end, not of what they
  serve.
* A version that occurs in what the installed one prints is taken for installed,
  and the play ends well with another version than the one asked for, although
  `roles/alloy/README.md:25` calls it "The version of Alloy to download and
  deploy". `ServesWhatWasAsked` promises what the test does, a version that
  mentions the one asked for.
* `_finish` removes the marker (`seed.py:86`) before the checkout of the branch it
  names (line 88), which git refuses for changes in the work tree or a branch
  that was deleted meanwhile, and before which the command may be killed. The next
  `--continue` finds no marker and ends well on the review branch, although "The
  branch the user started on is remembered [...] and checked out again when
  seeding finishes" (lines 12-13). To be killed between making the branch (139)
  and writing the marker (140) has the same end. `ReturnsHome` excepts the two,
  and only these (`astray`).
* Seeding looks for a branch on origin in the clone's own tracking refs, and
  nothing fetches them: a branch that was pushed from another clone is seeded a
  second time. Nothing is pushed, so that nothing on origin is overwritten by it.

## Not modelled

* Two runs at a time. The make goals of the handover and of the tracker run the
  same steps from a clone, outside the workflows' concurrency groups; each model
  has one run, sync or job at a time, and `Seed` one clone.
* The wording of the page, facts about contributors and the board on it; the
  tracker's `bootstrap`, `report` and `check-token`, drafts on the board, and the
  limits of its listings: a listing that reached its limit is refused
  (`upstream-tracker.sh:495-498`), one that GitHub cut short below it would close
  the rows it leaves out. `BoardIsCurrent` is about what was listed.
* Of the modules: what a refusal prints, connections, and documentation.
* Of alloy: other systems, whose tasks are the same with another package
  manager; the lookup of `latest`, check mode, groups and firewall rules.
* The other service roles, which would repeat `Alloy` with fewer tasks, and the
  grafana role, which is a list of tasks that write files and call the modules;
  its staging of dashboards is file copying.
* The release pipeline: a line of jobs, each the precondition of the next, with
  no state but the tag. What can go wrong after an upload happens inside Galaxy.
* Everything under "The rest", which has no state.

`PROJECT.json` lists every component with what is left out, and the hazards with
the properties that watch them.

## Plan

1. A second run at the same time in `Handover` and `Tracker`, for the make goals.
