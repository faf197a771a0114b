------------------------------ MODULE RoleVersions ------------------------------
(***************************************************************************)
(* The weekly version bump: tools/check-role-versions.py compares every    *)
(* role's pin with what the role can install, and                          *)
(* tools/bump-role-versions.sh pushes a branch and opens a pull request    *)
(* for every pin that differs, as .github/workflows/role-versions.yml runs *)
(* them.                                                                   *)
(*                                                                         *)
(* Upstream releases, and uploads what belongs to a release, at any time;  *)
(* maintainers merge, close and delete; every request of the job may fail. *)
(* A version is a number, and a role needs one artifact of each family.    *)
(***************************************************************************)
EXTENDS Integers, FiniteSets, FiniteSetsExt

CONSTANTS
    N,           \* number of tracked roles, in the order of their names
    Packages,    \* those installed from a package repository, not from a release
    MaxVersion,
    MaxMoves,    \* bound on what upstream does
    MaxEdits,    \* bound on what maintainers do
    MaxFaults    \* bound on requests that fail

Roles == 1..N
Versions == 1..MaxVersion
Families == {"deb", "rpm"}
Attempts == 5

ASSUME RolesAssumption == N \in Nat \ {0} /\ Packages \subseteq Roles
ASSUME BoundsAssumption ==
    /\ MaxVersion \in Nat \ {0}
    /\ MaxMoves \in Nat /\ MaxEdits \in Nat /\ MaxFaults \in Nat

VARIABLES
    (* Upstream and the repository.                                        *)
    tag,        \* tag[r]: the version of upstream's latest release
    published,  \* published[r][f]: the versions whose artifact of family f is there
    pin,        \* pin[r]: the version main pins
    bump,       \* bump[r][v]: the branch chore/bump-r-v and its pull request
    moves, edits, faults,
    (* The job.                                                            *)
    phase,
    tree,       \* the pins of the commit the job checked out
    at,         \* the role the current loop is at
    failed,     \* a role could not be looked up
    behind,     \* the report: the version to propose for a role, 0 for none
    step,       \* what it does next for that role
    apt,        \* the versions the apt index served, when it was asked
    tries,      \* pull request creations that failed
    (* What the properties observe.                                        *)
    seen,       \* seen[r][f]: the versions that were ever there
    touched     \* roles whose branches a maintainer changed since the job started

upstream == <<tag, published, seen>>
job == <<phase, tree, at, failed, behind, step, apt, tries>>
vars == <<tag, published, pin, bump, moves, edits, faults, phase, tree, at, failed,
          behind, step, apt, tries, seen, touched>>

-----------------------------------------------------------------------------
(* What a role can install *)

\* Broken: a version either family has is good enough
NewestOfEither(r, debs) ==
    IF r \in Packages
    THEN LET any == debs \union published[r]["rpm"]
         IN  IF any = {} THEN 0 ELSE Max(any)
    ELSE tag[r]

\* latest_package: the newest version both families serve, 0 if there is none.
\* latest_release: the latest release, whatever is attached to it.
Newest(r, debs) ==
    IF r \in Packages
    THEN LET common == debs \intersect published[r]["rpm"]
         IN  IF common = {} THEN 0 ELSE Max(common)
    ELSE tag[r]

\* A release whose artifacts are not all there yet is not proposed.
Held(r) == r \notin Packages /\ \E f \in Families : tag[r] \notin published[r][f]

-----------------------------------------------------------------------------
Init ==
    /\ tag = [r \in Roles |-> 1]
    /\ published = [r \in Roles |-> [f \in Families |-> {1}]]
    /\ pin = [r \in Roles |-> 1]
    /\ bump = [r \in Roles |-> [v \in Versions |->
                 [branch |-> FALSE, from |-> 1, amended |-> FALSE, pull |-> "none"]]]
    /\ moves = 0 /\ edits = 0 /\ faults = 0
    /\ phase = "idle"
    /\ tree = pin
    /\ at = 1 /\ failed = FALSE
    /\ behind = [r \in Roles |-> 0]
    /\ step = "look" /\ apt = {} /\ tries = 0
    /\ seen = published
    /\ touched = {}

Fault ==
    /\ faults < MaxFaults
    /\ faults' = faults + 1

NoFault == UNCHANGED faults

-----------------------------------------------------------------------------
(* Upstream and the maintainers *)

Move ==
    /\ moves < MaxMoves
    /\ moves' = moves + 1
    /\ UNCHANGED <<pin, bump, edits, faults, job, touched>>

\* A release, of a new version or of an older line.
Release(r) ==
    /\ Move
    /\ r \notin Packages
    /\ \E v \in Versions \ {tag[r]} : tag' = [tag EXCEPT ![r] = v]
    /\ UNCHANGED <<published, seen>>

Publish(r) ==
    /\ Move
    /\ \E F \in SUBSET Families, v \in Versions :
          LET With(files) == [files EXCEPT ![r] =
                  [f \in Families |-> files[r][f] \union (IF f \in F THEN {v} ELSE {})]]
          IN  /\ \E f \in F : v \notin published[r][f]
              /\ published' = With(published)
              /\ seen' = With(seen)
    /\ UNCHANGED tag

\* A package repository drops a version.
Withdraw(r) ==
    /\ Move
    /\ r \in Packages
    /\ \E f \in Families : \E v \in published[r][f] :
          published' = [published EXCEPT ![r][f] = @ \ {v}]
    /\ UNCHANGED <<tag, seen>>

Edit(r) ==
    /\ edits < MaxEdits
    /\ edits' = edits + 1
    /\ touched' = touched \union {r}
    /\ UNCHANGED <<upstream, moves, faults, job>>

\* Merged, and the branch deleted or not.  Two bumps of one pin conflict.
MergePull(r, v) ==
    /\ Edit(r)
    /\ bump[r][v].pull = "open"
    /\ bump[r][v].branch
    /\ bump[r][v].from = pin[r]
    /\ pin' = [pin EXCEPT ![r] = v]
    /\ \E keep \in BOOLEAN :
          bump' = [bump EXCEPT ![r][v] = [@ EXCEPT !.pull = "merged", !.branch = keep]]

ClosePull(r, v) ==
    /\ Edit(r)
    /\ bump[r][v].pull = "open"
    /\ bump[r][v].branch
    /\ \E keep \in BOOLEAN :
          bump' = [bump EXCEPT ![r][v] = [@ EXCEPT !.pull = "closed", !.branch = keep]]
    /\ UNCHANGED pin

DeleteBranch(r, v) ==
    /\ Edit(r)
    /\ bump[r][v].branch
    /\ LET pull == IF bump[r][v].pull = "open" THEN "closed" ELSE bump[r][v].pull
       IN  bump' = [bump EXCEPT ![r][v] = [@ EXCEPT !.branch = FALSE, !.pull = pull]]
    /\ UNCHANGED pin

\* A maintainer's commits on a bump branch, to make the role pass its tests.
AmendBranch(r, v) ==
    /\ Edit(r)
    /\ bump[r][v].branch
    /\ bump' = [bump EXCEPT ![r][v] = [@ EXCEPT !.amended = TRUE]]
    /\ UNCHANGED pin

Environment ==
    \/ \E r \in Roles : Release(r) \/ Publish(r) \/ Withdraw(r)
    \/ \E r \in Roles, v \in Versions :
          \/ MergePull(r, v) \/ ClosePull(r, v)
          \/ DeleteBranch(r, v) \/ AmendBranch(r, v)

-----------------------------------------------------------------------------
(* check-role-versions.py *)

StartJob ==
    /\ phase = "idle"
    /\ phase' = "check"
    /\ tree' = pin
    /\ at' = 1
    /\ failed' = FALSE
    /\ behind' = [r \in Roles |-> 0]
    /\ apt' = {}
    /\ touched' = {}
    /\ UNCHANGED <<upstream, pin, bump, moves, edits, faults, step, tries>>

CheckAt(r) ==
    /\ phase = "check"
    /\ at = r
    /\ UNCHANGED <<upstream, pin, bump, moves, edits, phase, tree, tries, touched>>

\* A package is looked up in two indexes, one after the other.
CheckApt(r) ==
    /\ CheckAt(r)
    /\ r \in Packages
    /\ step = "look"
    /\ published[r]["deb"] # {}
    /\ apt' = published[r]["deb"]
    /\ step' = "rpm"
    /\ UNCHANGED <<at, failed, behind, faults>>

CheckDone(r) ==
    /\ CheckAt(r)
    /\ at' = at + 1
    /\ apt' = {}
    /\ step' = "look"

\* The answer that decides about the role.
LastAnswer(r) == r \in Packages => step = "rpm"

\* A source could not be reached, or lists no version that can be used.
CheckFails(r) ==
    /\ CheckDone(r)
    /\ failed' = TRUE
    /\ LET debs == IF step = "rpm" THEN apt ELSE published[r]["deb"]
           none == IF LastAnswer(r) THEN Newest(r, debs) = 0 ELSE debs = {}
       IN  IF none THEN NoFault ELSE Fault
    /\ UNCHANGED behind

\* Broken: a held release fails the run
CheckHeldFails(r) ==
    /\ CheckDone(r)
    /\ Held(r)
    /\ failed' = TRUE
    /\ UNCHANGED <<behind, faults>>

CheckHeld(r) ==
    /\ CheckDone(r)
    /\ Held(r)
    /\ UNCHANGED <<failed, behind, faults>>

\* Any version but the pinned one is worth proposing.
CheckFound(r) ==
    /\ CheckDone(r)
    /\ LastAnswer(r)
    /\ ~Held(r)
    /\ LET newest == Newest(r, apt)
       IN  /\ newest # 0
           /\ behind' = [behind EXCEPT ![r] = IF tree[r] = newest THEN 0 ELSE newest]
    /\ UNCHANGED <<failed, faults>>

\* A lookup that failed fails the step, and the job ends without a bump.
EndCheck ==
    /\ phase = "check"
    /\ at = N + 1
    /\ phase' = IF failed THEN "idle" ELSE "bump"
    /\ at' = 1
    /\ UNCHANGED <<upstream, pin, bump, moves, edits, faults, tree, failed, behind,
                   step, apt, tries, touched>>

-----------------------------------------------------------------------------
(* bump-role-versions.sh, one role of the report after the other *)

BumpTurn(r, s) ==
    /\ phase = "bump"
    /\ at = r
    /\ step = s
    /\ UNCHANGED <<upstream, pin, moves, edits, tree, failed, behind, apt, touched>>

NextRole ==
    /\ at' = at + 1
    /\ step' = "look"
    /\ tries' = 0
    /\ UNCHANGED phase

GoOn(s) ==
    /\ step' = s
    /\ tries' = 0
    /\ UNCHANGED <<at, phase>>

\* exit 1: the roles that follow are left to the next run.
Abort ==
    /\ phase' = "idle"
    /\ at' = 1
    /\ step' = "look"
    /\ tries' = 0

NotBehind(r) ==
    /\ BumpTurn(r, "look")
    /\ behind[r] = 0
    /\ NextRole
    /\ UNCHANGED <<bump, faults>>

Look(r) ==
    /\ BumpTurn(r, "look")
    /\ behind[r] # 0
    /\ IF bump[r][behind[r]].branch THEN NextRole ELSE GoOn("push")
    /\ UNCHANGED <<bump, faults>>

\* A query that fails is taken for a branch that does not exist.
LookFails(r) ==
    /\ BumpTurn(r, "look")
    /\ behind[r] # 0
    /\ Fault
    /\ GoOn("push")
    /\ UNCHANGED bump

\* The branch, made anew from the checkout with the pin rewritten.
Pushed(r) ==
    [bump EXCEPT ![r][behind[r]] =
        [@ EXCEPT !.branch = TRUE, !.from = tree[r], !.amended = FALSE]]

\* Broken: the push is forced
PushForced(r) ==
    /\ BumpTurn(r, "push")
    /\ bump' = Pushed(r)
    /\ GoOn("open")
    /\ NoFault

\* Broken: a push that fails is silenced, and the role given up
PushSilenced(r) ==
    /\ BumpTurn(r, "push")
    /\ \/ /\ ~bump[r][behind[r]].branch
          /\ bump' = Pushed(r)
          /\ GoOn("open")
          /\ NoFault
       \/ /\ IF bump[r][behind[r]].branch THEN NoFault ELSE Fault
          /\ NextRole
          /\ UNCHANGED bump

\* Not forced: a branch that exists after all refuses it.
Push(r) ==
    /\ BumpTurn(r, "push")
    /\ \/ /\ ~bump[r][behind[r]].branch
          /\ bump' = Pushed(r)
          /\ GoOn("open")
          /\ NoFault
       \/ /\ IF bump[r][behind[r]].branch THEN NoFault ELSE Fault
          /\ Abort
          /\ UNCHANGED bump

\* gh pr create, up to five times.  One pull request per branch can be open.
OpenPull(r) ==
    /\ BumpTurn(r, "open")
    /\ tries < Attempts
    /\ bump[r][behind[r]].branch
    /\ bump[r][behind[r]].pull # "open"
    /\ bump' = [bump EXCEPT ![r][behind[r]] = [@ EXCEPT !.pull = "open"]]
    /\ \/ NextRole /\ NoFault
       \/ tries' = tries + 1 /\ UNCHANGED <<at, step, phase>> /\ Fault

\* Broken: the attempts are not counted against their limit
OpenFailsForever(r) ==
    /\ BumpTurn(r, "open")
    /\ tries' = tries + 1
    /\ UNCHANGED <<bump, at, step, phase, faults>>

\* The pushed ref may not be visible yet.  That all attempts meet this is a
\* failure; after a lost answer, or without the branch, none can succeed.
OpenFails(r) ==
    /\ BumpTurn(r, "open")
    /\ tries < Attempts
    /\ tries' = tries + 1
    /\ IF tries' = Attempts /\ bump[r][behind[r]].branch /\ bump[r][behind[r]].pull # "open"
       THEN Fault ELSE NoFault
    /\ UNCHANGED <<bump, at, step, phase>>

GiveUp(r) ==
    /\ BumpTurn(r, "open")
    /\ tries = Attempts
    /\ Abort
    /\ UNCHANGED <<bump, faults>>

EndBump ==
    /\ phase = "bump"
    /\ at = N + 1
    /\ phase' = "green"
    /\ UNCHANGED <<upstream, pin, bump, moves, edits, faults, tree, at, failed, behind,
                   step, apt, tries, touched>>

EndJob ==
    /\ phase = "green"
    /\ Abort
    /\ UNCHANGED <<upstream, pin, bump, moves, edits, faults, tree, failed, behind, apt,
                   touched>>

\* The job is cancelled, runs out of its fifteen minutes or loses its runner.
JobDies ==
    /\ phase \in {"check", "bump"}
    /\ Fault
    /\ Abort
    /\ UNCHANGED <<upstream, pin, bump, moves, edits, tree, failed, behind, apt, touched>>

JobStep ==
    \/ StartJob \/ EndCheck \/ EndBump \/ EndJob
    \/ \E r \in Roles :
          \/ CheckApt(r) \/ CheckFails(r) \/ CheckHeld(r) \/ CheckFound(r)
          \/ NotBehind(r) \/ Look(r) \/ LookFails(r) \/ Push(r)
          \/ OpenPull(r) \/ OpenFails(r) \/ GiveUp(r)

Next == Environment \/ JobStep \/ JobDies

Spec == Init /\ [][Next]_vars

\* The schedule starts a job every week; nothing makes anybody else act.
FairSpec == Spec /\ WF_vars(JobStep)

-----------------------------------------------------------------------------
(* Properties *)

Bump == [branch : BOOLEAN, from : Versions, amended : BOOLEAN,
         pull : {"none", "open", "closed", "merged"}]

TypeOK ==
    /\ tag \in [Roles -> Versions]
    /\ published \in [Roles -> [Families -> SUBSET Versions]]
    /\ pin \in [Roles -> Versions]
    /\ bump \in [Roles -> [Versions -> Bump]]
    /\ moves \in 0..MaxMoves /\ edits \in 0..MaxEdits /\ faults \in 0..MaxFaults
    /\ phase \in {"idle", "check", "bump", "green"}
    /\ tree \in [Roles -> Versions]
    /\ at \in 1..(N + 1)
    /\ failed \in BOOLEAN
    /\ behind \in [Roles -> 0..MaxVersion]
    /\ step \in {"look", "rpm", "push", "open"}
    /\ apt \subseteq Versions
    /\ tries \in 0..Attempts
    /\ seen \in [Roles -> [Families -> SUBSET Versions]]
    /\ touched \subseteq Roles

\* Every branch proposes a version that both families could install: not one
\* whose artifacts are still being uploaded when the branch is made, and not
\* one that a single package index serves.
OnlyInstallable ==
    \A r \in Roles, v \in Versions, f \in Families : bump[r][v].branch => v \in seen[r][f]

\* A run that ends well has looked every role up and left a branch for each
\* one it found behind: no request that failed in between is passed over.
GreenIsComplete ==
    phase = "green" =>
        /\ ~failed
        /\ \A r \in Roles : behind[r] # 0 /\ r \notin touched => bump[r][behind[r]].branch

\* What a maintainer committed to a bump branch is never overwritten, not even
\* by a run whose query for the branch failed.
AmendedKept ==
    [][\A r \in Roles, v \in Versions :
          bump[r][v].amended /\ bump[r][v].branch /\ bump'[r][v].branch
              => bump'[r][v].amended]_bump

\* Once everybody rests, every role that is behind an installable version has
\* a branch for it, whatever failed before, and whichever other role waits for
\* its artifacts.
EventuallyProposed ==
    <>[](LET newest(r) == Newest(r, published[r]["deb"])
         IN  (\A r \in Roles : newest(r) # 0) =>
                 \A r \in Roles : ~Held(r) /\ newest(r) # pin[r] => bump[r][newest(r)].branch)

(* What the scripts' comments say and the job does not keep. *)

\* "Open one pull request per role whose pin is behind upstream."  A run that
\* pushed the branch and could not open the pull request leaves a branch that
\* every later run takes for a proposal.
PullForEveryBranch ==
    phase = "green" =>
        \A r \in Roles : behind[r] # 0 /\ r \notin touched => bump[r][behind[r]].pull # "none"

=============================================================================
