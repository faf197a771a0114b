------------------------- MODULE RoleVersionsProofs -------------------------
(* Theorems about RoleVersions, for any roles and any bounds. *)
EXTENDS RoleVersions, TLAPS, WellFoundedInduction

\* Where the job is, and that it only acts on a role it has something to propose for.
TurnOK ==
    /\ phase = "idle" => step = "look"
    /\ phase = "check" => step = "look" \/ (step = "rpm" /\ at \in Roles)
    /\ phase = "bump" /\ step \in {"push", "open"} => at \in Roles /\ behind[at] # 0
    /\ phase = "green" => at = N + 1

\* Whatever the job goes by was served by upstream when it was looked up.
SeenOK ==
    /\ \A r \in Roles, f \in Families : published[r][f] \subseteq seen[r][f]
    /\ phase = "check" /\ at \in Roles /\ step = "rpm" => apt \subseteq seen[at]["deb"]
    /\ \A r \in Roles, f \in Families : behind[r] # 0 => behind[r] \in seen[r][f]

\* The roles the bump is through with, and the one it has just pushed.
Pushing(r) == r < at \/ (phase = "bump" /\ r = at /\ step = "open")

BumpedOK ==
    phase \in {"bump", "green"} =>
        /\ ~failed
        /\ \A r \in Roles :
              Pushing(r) /\ behind[r] # 0 /\ r \notin touched => bump[r][behind[r]].branch

TypeInv == TypeOK /\ TurnOK
Inv == TypeInv /\ SeenOK /\ OnlyInstallable /\ BumpedOK

-----------------------------------------------------------------------------
(* The newest version of a set is in it. *)

LEMMA MaxOfVersions ==
    ASSUME NEW S \in SUBSET Versions, S # {}
    PROVE  Max(S) \in S
  <1> DEFINE T == {MaxVersion - x : x \in S}
  <1>1. T \subseteq Nat /\ T # {}
    <2>1. \A x \in S : MaxVersion - x \in Nat
      BY BoundsAssumption DEF Versions
    <2>2. PICK x \in S : TRUE
      OBVIOUS
    <2>3. MaxVersion - x \in T
      OBVIOUS
    <2> QED
      BY <2>1, <2>3
  <1>2. PICK m \in T : \A n \in T : ~(<<n, m>> \in OpToRel(<, Nat))
    <2> HIDE DEF T
    <2> QED
      BY <1>1, NatLessThanWellFounded, WFMin
  <1>3. \A n \in T : ~(n < m)
    BY <1>1, <1>2 DEF OpToRel
  <1>4. PICK x \in S : m = MaxVersion - x
    OBVIOUS
  <1>5. \A y \in S : x >= y
    <2> SUFFICES ASSUME NEW y \in S PROVE x >= y
      OBVIOUS
    <2>1. ~(MaxVersion - y < MaxVersion - x)
      BY <1>3, <1>4
    <2> QED
      BY <2>1, BoundsAssumption DEF Versions
  <1> QED
    BY <1>5 DEF Max

LEMMA NewestType ==
    ASSUME TypeOK, NEW r \in Roles, NEW debs \in SUBSET Versions
    PROVE  /\ Newest(r, debs) \in 0..MaxVersion
           /\ r \in Packages /\ Newest(r, debs) # 0 =>
                 /\ Newest(r, debs) \in debs
                 /\ Newest(r, debs) \in published[r]["rpm"]
  <1> DEFINE common == debs \intersect published[r]["rpm"]
  <1>1. CASE r \in Packages /\ common # {}
    <2>1. common \in SUBSET Versions
      OBVIOUS
    <2>2. Max(common) \in common
      <3> HIDE DEF common
      <3> QED
        BY <1>1, <2>1, MaxOfVersions
    <2> QED
      BY <1>1, <2>1, <2>2, BoundsAssumption DEF Newest, Versions
  <1>2. CASE r \in Packages /\ common = {}
    BY <1>2, BoundsAssumption DEF Newest
  <1>3. CASE r \notin Packages
    BY <1>3, BoundsAssumption DEF Newest, TypeOK, Versions
  <1> QED
    BY <1>1, <1>2, <1>3

-----------------------------------------------------------------------------
(* Types, and where the job is. *)

LEMMA InitInv == Init => Inv
  <1> SUFFICES ASSUME Init PROVE Inv
    OBVIOUS
  <1>1. TypeOK
    <2> USE BoundsAssumption, RolesAssumption
    <2>1. bump \in [Roles -> [Versions -> Bump]]
      BY DEF Init, Versions, Bump
    <2>2. /\ pin \in [Roles -> Versions] /\ tag \in [Roles -> Versions]
          /\ tree \in [Roles -> Versions] /\ behind \in [Roles -> 0..MaxVersion]
      BY DEF Init, Versions
    <2>3. /\ published \in [Roles -> [Families -> SUBSET Versions]]
          /\ seen \in [Roles -> [Families -> SUBSET Versions]]
      BY DEF Init, Versions
    <2>4. /\ moves \in 0..MaxMoves /\ edits \in 0..MaxEdits /\ faults \in 0..MaxFaults
          /\ phase = "idle" /\ at \in 1..(N + 1) /\ failed = FALSE
          /\ step = "look" /\ apt = {} /\ tries \in 0..Attempts /\ touched = {}
      BY DEF Init, Attempts
    <2> QED
      BY <2>1, <2>2, <2>3, <2>4 DEF TypeOK
  <1> USE DEF Init
  <1>2. TurnOK
    BY DEF TurnOK
  <1>3. SeenOK
    BY DEF SeenOK
  <1>4. OnlyInstallable /\ BumpedOK
    BY DEF OnlyInstallable, BumpedOK
  <1> QED
    BY <1>1, <1>2, <1>3, <1>4 DEF Inv, TypeInv

\* Upstream moves leave the job and the branches alone, and only add to seen.
LEMMA MoveType ==
    ASSUME TypeInv, NEW r \in Roles, Release(r) \/ Publish(r) \/ Withdraw(r)
    PROVE  /\ TypeInv'
           /\ UNCHANGED <<job, bump, touched>>
           /\ \A q \in Roles, f \in Families :
                 /\ seen[q][f] \subseteq seen'[q][f]
                 /\ published'[q][f] \subseteq published[q][f] \union seen'[q][f]
  <1> USE BoundsAssumption DEF TypeInv, Move
  <1>1. TurnOK' /\ UNCHANGED <<job, bump, touched>>
    BY DEF TurnOK, Release, Publish, Withdraw, job
  <1>2. CASE Release(r)
    BY <1>1, <1>2 DEF TypeOK, Release, job
  <1>3. CASE Publish(r)
    BY <1>1, <1>3 DEF TypeOK, Publish, job
  <1>4. CASE Withdraw(r)
    BY <1>1, <1>4 DEF TypeOK, Withdraw, job
  <1> QED
    BY <1>2, <1>3, <1>4

\* Maintainers change nothing but the pins and the branches of a role, make
\* no branch, and unmake no amendment.
LEMMA EditType ==
    ASSUME TypeInv, NEW r \in Roles, NEW v \in Versions,
           \/ MergePull(r, v) \/ ClosePull(r, v)
           \/ DeleteBranch(r, v) \/ AmendBranch(r, v)
    PROVE  /\ TypeInv'
           /\ UNCHANGED <<job, upstream>>
           /\ touched' = touched \union {r}
           /\ \A q \in Roles, w \in Versions :
                 /\ bump'[q][w].branch => bump[q][w].branch
                 /\ bump[q][w].amended => bump'[q][w].amended
                 /\ q # r => bump'[q][w] = bump[q][w]
  <1> USE DEF TypeInv
  <1>0. Edit(r)
    BY DEF MergePull, ClosePull, DeleteBranch, AmendBranch
  <1>1. TurnOK' /\ UNCHANGED <<job, upstream>> /\ touched' = touched \union {r}
    BY <1>0 DEF TurnOK, Edit, job
  <1>2. PICK b \in Bump :
           /\ bump' = [bump EXCEPT ![r][v] = b]
           /\ b.branch => bump[r][v].branch
           /\ bump[r][v].amended => b.amended
    <2> DEFINE old == bump[r][v]
    <2>0. old \in Bump
      BY DEF TypeOK
    <2>1. CASE MergePull(r, v)
      <3>1. PICK keep \in BOOLEAN :
               bump' = [bump EXCEPT ![r][v] = [old EXCEPT !.pull = "merged", !.branch = keep]]
        BY <2>1, Zenon DEF MergePull
      <3> DEFINE new == [old EXCEPT !.pull = "merged", !.branch = keep]
      <3>2. new \in Bump /\ new.amended = old.amended
        BY <2>0 DEF Bump
      <3>3. old.branch
        BY <2>1 DEF MergePull
      <3> QED
        BY <3>1, <3>2, <3>3, Zenon
    <2>2. CASE ClosePull(r, v)
      <3>1. PICK keep \in BOOLEAN :
               bump' = [bump EXCEPT ![r][v] = [old EXCEPT !.pull = "closed", !.branch = keep]]
        BY <2>2, Zenon DEF ClosePull
      <3> DEFINE new == [old EXCEPT !.pull = "closed", !.branch = keep]
      <3>2. new \in Bump /\ new.amended = old.amended
        BY <2>0 DEF Bump
      <3>3. old.branch
        BY <2>2 DEF ClosePull
      <3> QED
        BY <3>1, <3>2, <3>3, Zenon
    <2>3. CASE DeleteBranch(r, v)
      <3> DEFINE new == [old EXCEPT !.branch = FALSE,
                                    !.pull = IF old.pull = "open" THEN "closed" ELSE old.pull]
      <3>1. bump' = [bump EXCEPT ![r][v] = new]
        BY <2>3, Zenon DEF DeleteBranch
      <3>2. new \in Bump /\ new.amended = old.amended /\ ~new.branch
        BY <2>0 DEF Bump
      <3> QED
        BY <3>1, <3>2, Zenon
    <2>4. CASE AmendBranch(r, v)
      <3> DEFINE new == [old EXCEPT !.amended = TRUE]
      <3>1. bump' = [bump EXCEPT ![r][v] = new]
        BY <2>4, Zenon DEF AmendBranch
      <3>2. new \in Bump /\ new.amended /\ new.branch = old.branch
        BY <2>0 DEF Bump
      <3> QED
        BY <3>1, <3>2, Zenon
    <2> QED
      BY <2>1, <2>2, <2>3, <2>4
  <1>3. bump' \in [Roles -> [Versions -> Bump]]
    BY <1>2 DEF TypeOK
  <1>4. pin' \in [Roles -> Versions]
    BY DEF TypeOK, MergePull, ClosePull, DeleteBranch, AmendBranch
  <1>5. edits' \in 0..MaxEdits /\ UNCHANGED <<moves, faults>>
    BY <1>0, BoundsAssumption DEF TypeOK, Edit
  <1>6. TypeOK'
    BY <1>1, <1>3, <1>4, <1>5 DEF TypeOK, job, upstream
  <1> QED
    BY <1>1, <1>2, <1>6 DEF TypeOK

-----------------------------------------------------------------------------
(* Every step preserves the invariant.  First the world outside the job. *)

LEMMA MoveInv ==
    ASSUME Inv, NEW r \in Roles, Release(r) \/ Publish(r) \/ Withdraw(r)
    PROVE  Inv'
  <1> USE DEF Inv
  <1>1. /\ TypeInv'
        /\ UNCHANGED <<job, bump, touched>>
        /\ \A q \in Roles, f \in Families :
              /\ seen[q][f] \subseteq seen'[q][f]
              /\ published'[q][f] \subseteq published[q][f] \union seen'[q][f]
    BY MoveType, Zenon
  <1>2. SeenOK'
    <2>1. \A q \in Roles, f \in Families : published'[q][f] \subseteq seen'[q][f]
      BY <1>1 DEF SeenOK
    <2>2. phase' = "check" /\ at' \in Roles /\ step' = "rpm" => apt' \subseteq seen'[at']["deb"]
      BY <1>1 DEF SeenOK, Families, job
    <2>3. \A q \in Roles, f \in Families : behind'[q] # 0 => behind'[q] \in seen'[q][f]
      BY <1>1 DEF SeenOK, job
    <2> QED
      BY <2>1, <2>2, <2>3 DEF SeenOK
  <1>3. OnlyInstallable'
    BY <1>1 DEF OnlyInstallable
  <1>4. BumpedOK'
    BY <1>1 DEF BumpedOK, Pushing, job
  <1> QED
    BY <1>1, <1>2, <1>3, <1>4

LEMMA EditInv ==
    ASSUME Inv, NEW r \in Roles, NEW v \in Versions,
           \/ MergePull(r, v) \/ ClosePull(r, v)
           \/ DeleteBranch(r, v) \/ AmendBranch(r, v)
    PROVE  Inv'
  <1> USE DEF Inv
  <1>1. /\ TypeInv'
        /\ UNCHANGED <<job, upstream>>
        /\ touched' = touched \union {r}
        /\ \A q \in Roles, w \in Versions :
              /\ bump'[q][w].branch => bump[q][w].branch
              /\ bump[q][w].amended => bump'[q][w].amended
              /\ q # r => bump'[q][w] = bump[q][w]
    BY EditType
  <1>2. SeenOK'
    BY <1>1 DEF SeenOK, job, upstream
  <1>3. OnlyInstallable'
    BY <1>1 DEF OnlyInstallable, upstream
  <1>4. BumpedOK'
    <2> SUFFICES ASSUME phase' \in {"bump", "green"}
                 PROVE  /\ ~failed'
                        /\ \A q \in Roles :
                              Pushing(q)' /\ behind'[q] # 0 /\ q \notin touched'
                                  => bump'[q][behind'[q]].branch
      BY DEF BumpedOK
    <2>1. ~failed'
      BY <1>1 DEF BumpedOK, job
    <2>2. ASSUME NEW q \in Roles, Pushing(q)', behind'[q] # 0, q \notin touched'
          PROVE  bump'[q][behind'[q]].branch
      <3>1. q # r /\ behind'[q] \in Versions
        <4>1. behind'[q] \in 0..MaxVersion
          BY <1>1 DEF TypeInv, TypeOK
        <4> QED
          BY <4>1, <1>1, <2>2, BoundsAssumption DEF Versions
      <3>2. bump[q][behind[q]].branch
        BY <1>1, <2>2 DEF BumpedOK, Pushing, job
      <3> QED
        BY <1>1, <3>1, <3>2 DEF job
    <2> QED
      BY <2>1, <2>2
  <1> QED
    BY <1>1, <1>2, <1>3, <1>4

-----------------------------------------------------------------------------
(* The check. *)

LEMMA StartJobInv == Inv /\ StartJob => Inv'
  <1> SUFFICES ASSUME Inv, StartJob PROVE Inv'
    OBVIOUS
  <1> USE DEF Inv, TypeInv
  <1>1. TypeOK'
    <2>1. behind' \in [Roles -> 0..MaxVersion]
      BY BoundsAssumption DEF StartJob
    <2>2. /\ UNCHANGED <<upstream, pin, bump, moves, edits, faults, step, tries>>
          /\ phase' = "check" /\ tree' = pin /\ at' \in 1..(N + 1)
          /\ failed' = FALSE /\ apt' = {} /\ touched' = {}
      BY RolesAssumption DEF StartJob
    <2> QED
      BY <2>1, <2>2 DEF TypeOK, upstream
  <1> USE DEF StartJob
  <1>2. TurnOK' /\ OnlyInstallable' /\ BumpedOK'
    BY DEF TurnOK, OnlyInstallable, BumpedOK, upstream
  <1>3. SeenOK'
    BY DEF SeenOK, TurnOK, upstream
  <1> QED
    BY <1>1, <1>2, <1>3

LEMMA CheckAptInv ==
    ASSUME Inv, NEW r \in Roles, CheckApt(r) PROVE Inv'
  <1> USE DEF Inv, TypeInv, CheckApt, CheckAt
  <1>1. TypeOK'
    BY DEF TypeOK, upstream, Families
  <1>2. TurnOK' /\ OnlyInstallable' /\ BumpedOK'
    BY DEF TurnOK, OnlyInstallable, BumpedOK, upstream
  <1>3. SeenOK'
    BY DEF SeenOK, upstream, Families
  <1> QED
    BY <1>1, <1>2, <1>3

\* A role is done with: its entry of the report is empty or was seen.
LEMMA CheckDoneInv ==
    ASSUME Inv, NEW r \in Roles, CheckDone(r), failed' \in BOOLEAN, faults' \in 0..MaxFaults,
           NEW v \in 0..MaxVersion, behind' = [behind EXCEPT ![r] = v],
           v # 0 => \A f \in Families : v \in seen[r][f]
    PROVE  Inv'
  <1> USE DEF Inv, TypeInv, CheckDone, CheckAt
  <1>1. TypeOK'
    BY RolesAssumption DEF TypeOK, upstream, Roles
  <1>2. TurnOK' /\ OnlyInstallable' /\ BumpedOK'
    BY DEF TurnOK, OnlyInstallable, BumpedOK, upstream
  <1>3. SeenOK'
    BY DEF SeenOK, TypeOK, upstream
  <1> QED
    BY <1>1, <1>2, <1>3

LEMMA CheckRoleInv ==
    ASSUME Inv, NEW r \in Roles, CheckFails(r) \/ CheckHeld(r) \/ CheckFound(r)
    PROVE  Inv'
  <1> USE BoundsAssumption DEF Inv, TypeInv
  <1>1. CheckDone(r) /\ failed' \in BOOLEAN /\ faults' \in 0..MaxFaults
    <2>1. CheckDone(r) /\ failed' \in BOOLEAN
      BY DEF CheckFails, CheckHeld, CheckFound, TypeOK
    <2>2. CASE CheckFails(r)
      BY <2>2 DEF CheckFails, Fault, NoFault, TypeOK
    <2>3. CASE CheckHeld(r) \/ CheckFound(r)
      BY <2>3 DEF CheckHeld, CheckFound, TypeOK
    <2> QED
      BY <2>1, <2>2, <2>3
  <1>2. CASE CheckFails(r) \/ CheckHeld(r)
    <2>1. behind' = behind
      BY <1>2 DEF CheckFails, CheckHeld
    <2>2. /\ behind[r] \in 0..MaxVersion
          /\ behind' = [behind EXCEPT ![r] = behind[r]]
          /\ behind[r] # 0 => \A f \in Families : behind[r] \in seen[r][f]
      BY <2>1 DEF TypeOK, SeenOK
    <2> QED
      BY <1>1, <2>2, CheckDoneInv
  <1>3. CASE CheckFound(r)
    <2> DEFINE newest == Newest(r, apt)
    <2>1. newest \in 0..MaxVersion /\ newest # 0
      BY <1>3, NewestType DEF CheckFound, TypeOK
    <2>2. \A f \in Families : newest \in seen[r][f]
      <3>1. CASE r \in Packages
        <4>1. newest \in apt /\ newest \in published[r]["rpm"]
          BY <2>1, <3>1, NewestType DEF TypeOK
        <4>2. phase = "check" /\ at = r /\ step = "rpm"
          BY <1>3, <3>1 DEF CheckFound, CheckDone, CheckAt, LastAnswer
        <4>3. newest \in seen[r]["deb"] /\ newest \in seen[r]["rpm"]
          BY <4>1, <4>2 DEF SeenOK, Families
        <4> QED
          BY <4>3 DEF Families
      <3>2. CASE r \notin Packages
        <4>1. newest = tag[r]
          BY <3>2 DEF Newest
        <4>2. \A f \in Families : tag[r] \in published[r][f]
          BY <1>3, <3>2 DEF CheckFound, Held
        <4> QED
          BY <4>1, <4>2 DEF SeenOK
      <3> QED
        BY <3>1, <3>2
    <2> DEFINE v == IF tree[r] = newest THEN 0 ELSE newest
    <2>3. v \in 0..MaxVersion /\ (v # 0 => \A f \in Families : v \in seen[r][f])
      BY <2>1, <2>2
    <2>4. behind' = [behind EXCEPT ![r] = v]
      BY <1>3 DEF CheckFound
    <2> HIDE DEF v
    <2> QED
      BY <1>1, <2>3, <2>4, CheckDoneInv
  <1> QED
    BY <1>2, <1>3

LEMMA EndCheckInv == Inv /\ EndCheck => Inv'
  <1> SUFFICES ASSUME Inv, EndCheck PROVE Inv'
    OBVIOUS
  <1> USE DEF Inv, TypeInv, EndCheck
  <1>0. step = "look"
    BY RolesAssumption DEF TurnOK, Roles
  <1>1. TypeOK'
    BY RolesAssumption DEF TypeOK, upstream
  <1>2. TurnOK' /\ OnlyInstallable'
    BY <1>0 DEF TurnOK, OnlyInstallable, upstream
  <1>3. SeenOK'
    BY DEF SeenOK, upstream
  <1>4. BumpedOK'
    BY <1>0 DEF BumpedOK, Pushing, Roles
  <1> QED
    BY <1>1, <1>2, <1>3, <1>4

-----------------------------------------------------------------------------
(* The bump. *)

\* The role's branch is there, if there is anything to propose.
Proposed(r) == behind[r] # 0 /\ r \notin touched => bump[r][behind[r]].branch

\* What a step of the bump may do: no branch goes, only the role's own one
\* comes, and the role is left, or its pull request opened, once it is there.
LEMMA BumpStepInv ==
    ASSUME Inv, NEW r \in Roles, phase = "bump", at = r,
           UNCHANGED <<upstream, pin, moves, edits, tree, failed, behind, apt, touched>>,
           faults' \in 0..MaxFaults, tries' \in 0..Attempts,
           bump' \in [Roles -> [Versions -> Bump]],
           \A q \in Roles, v \in Versions :
              /\ bump[q][v].branch => bump'[q][v].branch
              /\ bump'[q][v].branch => bump[q][v].branch \/ (q = r /\ v = behind[r]),
           \/ at' = r + 1 /\ phase' = "bump" /\ step' = "look" /\ Proposed(r)'
           \/ at' = r /\ phase' = "bump" /\ step' = "push" /\ behind[r] # 0
           \/ at' = r /\ phase' = "bump" /\ step' = "open" /\ behind[r] # 0 /\ Proposed(r)'
           \/ at' = 1 /\ phase' = "idle" /\ step' = "look"
    PROVE  Inv'
  <1> USE DEF Inv, TypeInv
  <1>1. TypeOK'
    <2>1. at' \in 1..(N + 1)
      BY RolesAssumption DEF Roles
    <2> QED
      BY <2>1 DEF TypeOK, upstream
  <1>2. TurnOK'
    BY DEF TurnOK
  <1>3. SeenOK'
    BY DEF SeenOK, upstream
  <1>4. OnlyInstallable'
    <2> SUFFICES ASSUME NEW q \in Roles, NEW v \in Versions, NEW f \in Families,
                        bump'[q][v].branch
                 PROVE  v \in seen[q][f]
      BY DEF OnlyInstallable, upstream
    <2>1. CASE bump[q][v].branch
      BY <2>1 DEF OnlyInstallable
    <2>2. CASE q = r /\ v = behind[r]
      <3>1. v # 0
        BY BoundsAssumption DEF Versions
      <3> QED
        BY <2>2, <3>1 DEF SeenOK
    <2> QED
      BY <2>1, <2>2
  <1>5. BumpedOK'
    <2> SUFFICES ASSUME phase' = "bump"
                 PROVE  ~failed /\ \A q \in Roles : Pushing(q)' => Proposed(q)'
      BY DEF BumpedOK, Proposed
    <2>1. ~failed
      BY DEF BumpedOK
    <2>2. ASSUME NEW q \in Roles, Pushing(q)' PROVE Proposed(q)'
      <3>1. CASE q < r
        <4>1. Proposed(q)
          BY <3>1 DEF BumpedOK, Pushing, Proposed
        <4>2. behind[q] \in 0..MaxVersion
          BY DEF TypeOK
        <4> QED
          BY <4>1, <4>2, BoundsAssumption DEF Proposed, Versions
      <3>2. CASE q >= r
        <4>1. q = r /\ step' # "push"
          BY <2>2, <3>2, RolesAssumption DEF Pushing, Roles
        <4> QED
          BY <4>1, <2>2 DEF Pushing
      <3> QED
        BY <3>1, <3>2, RolesAssumption DEF Roles
    <2> QED
      BY <2>1, <2>2
  <1> QED
    BY <1>1, <1>2, <1>3, <1>4, <1>5

LEMMA LookInv ==
    ASSUME Inv, NEW r \in Roles, NotBehind(r) \/ Look(r) \/ LookFails(r)
    PROVE  Inv'
  <1> USE DEF Inv, TypeInv
  <1>1. /\ phase = "bump" /\ at = r /\ bump' = bump
        /\ UNCHANGED <<upstream, pin, moves, edits, tree, failed, behind, apt, touched>>
    BY DEF NotBehind, Look, LookFails, BumpTurn
  <1>2. faults' \in 0..MaxFaults /\ tries' \in 0..Attempts
    BY BoundsAssumption
    DEF NotBehind, Look, LookFails, Fault, NextRole, GoOn, TypeOK, Attempts
  <1>3. \/ at' = r + 1 /\ phase' = "bump" /\ step' = "look" /\ Proposed(r)'
        \/ at' = r /\ phase' = "bump" /\ step' = "push" /\ behind[r] # 0
    <2>1. CASE NotBehind(r)
      BY <1>1, <2>1 DEF NotBehind, NextRole, Proposed
    <2>2. CASE Look(r)
      BY <1>1, <2>2 DEF Look, NextRole, GoOn, Proposed
    <2>3. CASE LookFails(r)
      BY <1>1, <2>3 DEF LookFails, GoOn
    <2> QED
      BY <2>1, <2>2, <2>3
  <1>4. /\ bump' \in [Roles -> [Versions -> Bump]]
        /\ \A q \in Roles, v \in Versions : bump'[q][v] = bump[q][v]
    BY <1>1 DEF TypeOK
  <1> QED
    BY <1>1, <1>2, <1>3, <1>4, BumpStepInv

\* What pushing makes of a branch.
LEMMA PushedType ==
    ASSUME TypeInv, NEW r \in Roles, behind[r] # 0, bump' = Pushed(r)
    PROVE  /\ bump' \in [Roles -> [Versions -> Bump]]
           /\ bump'[r][behind[r]].branch
           /\ \A q \in Roles, v \in Versions :
                 q # r \/ v # behind[r] => bump'[q][v] = bump[q][v]
  <1> DEFINE new == [bump[r][behind[r]] EXCEPT !.branch = TRUE, !.from = tree[r],
                                               !.amended = FALSE]
  <1>1. behind[r] \in Versions /\ tree[r] \in Versions
    BY BoundsAssumption DEF TypeInv, TypeOK, Versions
  <1>2. bump[r][behind[r]] \in Bump
    BY <1>1 DEF TypeInv, TypeOK
  <1>3. new \in Bump /\ new.branch
    BY <1>1, <1>2 DEF Bump
  <1>4. bump' = [bump EXCEPT ![r][behind[r]] = new]
    BY Zenon DEF Pushed
  <1> HIDE DEF new
  <1> QED
    BY <1>1, <1>3, <1>4 DEF TypeInv, TypeOK

LEMMA PushInv ==
    ASSUME Inv, NEW r \in Roles, Push(r) PROVE Inv'
  <1> USE DEF Inv, TypeInv
  <1>1. /\ phase = "bump" /\ at = r /\ behind[r] # 0
        /\ UNCHANGED <<upstream, pin, moves, edits, tree, failed, behind, apt, touched>>
    BY DEF Push, BumpTurn, TurnOK
  <1>2. faults' \in 0..MaxFaults /\ tries' \in 0..Attempts
    BY BoundsAssumption DEF Push, Fault, NoFault, Abort, GoOn, TypeOK, Attempts
  <1>3. CASE bump' = Pushed(r) /\ GoOn("open")
    <2>1. /\ bump' \in [Roles -> [Versions -> Bump]]
          /\ bump'[r][behind[r]].branch
          /\ \A q \in Roles, v \in Versions :
                q # r \/ v # behind[r] => bump'[q][v] = bump[q][v]
      BY <1>1, <1>3, PushedType
    <2>2. at' = r /\ phase' = "bump" /\ step' = "open" /\ Proposed(r)'
      BY <1>1, <1>3, <2>1 DEF GoOn, Proposed
    <2> QED
      BY <1>1, <1>2, <2>1, <2>2, BumpStepInv
  <1>4. CASE bump' = bump /\ Abort
    <2>1. /\ bump' \in [Roles -> [Versions -> Bump]]
          /\ \A q \in Roles, v \in Versions : bump'[q][v] = bump[q][v]
      BY <1>4 DEF TypeOK
    <2>2. at' = 1 /\ phase' = "idle" /\ step' = "look"
      BY <1>4 DEF Abort
    <2> QED
      BY <1>1, <1>2, <2>1, <2>2, BumpStepInv
  <1> QED
    BY <1>3, <1>4 DEF Push

LEMMA OpenInv ==
    ASSUME Inv, NEW r \in Roles, OpenPull(r) \/ OpenFails(r) \/ GiveUp(r)
    PROVE  Inv'
  <1> USE DEF Inv, TypeInv
  <1>1. /\ phase = "bump" /\ at = r /\ step = "open" /\ behind[r] \in Versions
        /\ UNCHANGED <<upstream, pin, moves, edits, tree, failed, behind, apt, touched>>
    BY BoundsAssumption
    DEF OpenPull, OpenFails, GiveUp, BumpTurn, TurnOK, TypeOK, Versions
  <1>2. faults' \in 0..MaxFaults
    BY BoundsAssumption DEF OpenPull, OpenFails, GiveUp, Fault, NoFault, TypeOK
  <1>3. tries' \in 0..Attempts
    BY DEF OpenPull, OpenFails, GiveUp, NextRole, Abort, TypeOK, Attempts
  <1>4. /\ bump' \in [Roles -> [Versions -> Bump]]
        /\ \A q \in Roles, v \in Versions : bump'[q][v].branch = bump[q][v].branch
    <2>1. CASE OpenPull(r)
      <3> DEFINE new == [bump[r][behind[r]] EXCEPT !.pull = "open"]
      <3>1. bump[r][behind[r]] \in Bump
        BY <1>1 DEF TypeOK
      <3>2. new \in Bump /\ new.branch = bump[r][behind[r]].branch
        BY <3>1 DEF Bump
      <3>3. bump' = [bump EXCEPT ![r][behind[r]] = new]
        BY <2>1, Zenon DEF OpenPull
      <3> HIDE DEF new
      <3> QED
        BY <1>1, <3>2, <3>3 DEF TypeOK
    <2>2. CASE OpenFails(r) \/ GiveUp(r)
      BY <2>2 DEF OpenFails, GiveUp, TypeOK
    <2> QED
      BY <2>1, <2>2
  <1>5. Proposed(r)'
    <2>1. Proposed(r)
      BY <1>1 DEF BumpedOK, Pushing, Proposed
    <2> QED
      BY <1>1, <1>4, <2>1 DEF Proposed
  <1>6. \/ at' = r + 1 /\ phase' = "bump" /\ step' = "look"
        \/ at' = r /\ phase' = "bump" /\ step' = "open" /\ behind[r] # 0
        \/ at' = 1 /\ phase' = "idle" /\ step' = "look"
    BY <1>1, BoundsAssumption
    DEF OpenPull, OpenFails, GiveUp, NextRole, Abort, BumpTurn, Versions
  <1> QED
    BY <1>1, <1>2, <1>3, <1>4, <1>5, <1>6, BumpStepInv

LEMMA EndInv == Inv /\ (EndBump \/ EndJob \/ JobDies) => Inv'
  <1> SUFFICES ASSUME Inv, EndBump \/ EndJob \/ JobDies PROVE Inv'
    OBVIOUS
  <1> USE DEF Inv, TypeInv
  <1>1. CASE EndBump
    <2> USE <1>1 DEF EndBump
    <2>1. TypeOK' /\ TurnOK' /\ SeenOK' /\ OnlyInstallable'
      BY DEF TypeOK, TurnOK, SeenOK, OnlyInstallable, upstream
    <2>2. BumpedOK'
      BY RolesAssumption DEF BumpedOK, Pushing, Roles
    <2> QED
      BY <2>1, <2>2
  <1>2. CASE EndJob \/ JobDies
    <2>1. /\ phase' = "idle" /\ at' = 1 /\ step' = "look" /\ tries' = 0
          /\ UNCHANGED <<upstream, pin, bump, moves, edits, tree, failed, behind, apt, touched>>
      BY <1>2 DEF EndJob, JobDies, Abort
    <2>2. faults' \in 0..MaxFaults
      BY <1>2, BoundsAssumption DEF EndJob, JobDies, Fault, TypeOK
    <2>3. TypeOK'
      BY <2>1, <2>2, RolesAssumption DEF TypeOK, Attempts, upstream
    <2>4. TurnOK' /\ SeenOK' /\ OnlyInstallable' /\ BumpedOK'
      BY <2>1 DEF TurnOK, SeenOK, OnlyInstallable, BumpedOK, upstream
    <2> QED
      BY <2>3, <2>4
  <1> QED
    BY <1>1, <1>2

-----------------------------------------------------------------------------
(* The invariant, and what follows from it. *)

LEMMA NextInv == Inv /\ [Next]_vars => Inv'
  <1> SUFFICES ASSUME Inv, [Next]_vars PROVE Inv'
    OBVIOUS
  <1>1. CASE UNCHANGED vars
    BY <1>1
    DEF vars, Inv, TypeInv, TypeOK, TurnOK, SeenOK, OnlyInstallable, BumpedOK, Pushing
  <1>2. CASE Environment
    BY <1>2, MoveInv, EditInv DEF Environment
  <1>3. CASE JobStep \/ JobDies
    BY <1>3, StartJobInv, CheckAptInv, CheckRoleInv, EndCheckInv, LookInv, PushInv,
       OpenInv, EndInv
    DEF JobStep
  <1> QED
    BY <1>1, <1>2, <1>3 DEF Next

LEMMA AlwaysInv == Spec => []Inv
  BY InitInv, NextInv, PTL DEF Spec

\* The variables of the bump and of what it works on keep their types.
THEOREM TypeCorrect == Spec => []TypeOK
  <1>1. Inv => TypeOK
    BY DEF Inv, TypeInv
  <1> QED
    BY <1>1, AlwaysInv, PTL

\* However upstream uploads, withdraws and releases between the requests of a
\* run, no branch ever proposes a version that only one family could install.
THEOREM OnlyInstallableIsProposed == Spec => []OnlyInstallable
  <1>1. Inv => OnlyInstallable
    BY DEF Inv
  <1> QED
    BY <1>1, AlwaysInv, PTL

\* A run of the bump that ends well has skipped nobody, whatever failed in it.
THEOREM GreenRunIsComplete == Spec => []GreenIsComplete
  <1>1. Inv => GreenIsComplete
    BY RolesAssumption
    DEF Inv, TypeInv, TurnOK, BumpedOK, Pushing, GreenIsComplete, Roles
  <1> QED
    BY <1>1, AlwaysInv, PTL

\* No step of the job undoes what a maintainer committed to a bump branch.
LEMMA PushKeepsAmended ==
    ASSUME Inv, NEW r \in Roles, Push(r), NEW q \in Roles, NEW v \in Versions,
           bump[q][v].amended, bump[q][v].branch
    PROVE  bump'[q][v].amended
  <1> USE DEF Inv, TypeInv
  <1>1. behind[r] # 0
    BY DEF Push, BumpTurn, TurnOK
  <1>2. CASE ~bump[r][behind[r]].branch /\ bump' = Pushed(r)
    <2>1. q # r \/ v # behind[r]
      BY <1>2
    <2> QED
      BY <1>1, <1>2, <2>1, PushedType
  <1> QED
    BY <1>2 DEF Push

LEMMA OpenKeepsAmended ==
    ASSUME Inv, NEW r \in Roles, OpenPull(r), NEW q \in Roles, NEW v \in Versions
    PROVE  bump'[q][v].amended = bump[q][v].amended
  <1> DEFINE new == [bump[r][behind[r]] EXCEPT !.pull = "open"]
  <1>1. behind[r] \in Versions
    BY BoundsAssumption DEF Inv, TypeInv, TypeOK, TurnOK, OpenPull, BumpTurn, Versions
  <1>2. new.amended = bump[r][behind[r]].amended
    BY <1>1 DEF Inv, TypeInv, TypeOK, Bump
  <1>3. bump' = [bump EXCEPT ![r][behind[r]] = new]
    BY Zenon DEF OpenPull
  <1> HIDE DEF new
  <1> QED
    BY <1>1, <1>2, <1>3 DEF Inv, TypeInv, TypeOK

\* Nothing the job does, after whichever request failed, overwrites what a
\* maintainer committed to a bump branch.
THEOREM AmendmentsAreKept == Spec => AmendedKept
  <1>1. ASSUME Inv, Next, NEW q \in Roles, NEW v \in Versions,
               bump[q][v].amended, bump[q][v].branch
        PROVE  bump'[q][v].amended
    <2>1. CASE Environment
      <3>1. ASSUME NEW r \in Roles, Release(r) \/ Publish(r) \/ Withdraw(r)
            PROVE  bump' = bump
        BY <1>1, <3>1, MoveType DEF Inv
      <3>2. ASSUME NEW r \in Roles, NEW w \in Versions,
                   \/ MergePull(r, w) \/ ClosePull(r, w)
                   \/ DeleteBranch(r, w) \/ AmendBranch(r, w)
            PROVE  bump'[q][v].amended
        BY <1>1, <3>2, EditType DEF Inv
      <3> QED
        BY <1>1, <2>1, <3>1, <3>2 DEF Environment
    <2>2. ASSUME NEW r \in Roles, Push(r) PROVE bump'[q][v].amended
      BY <1>1, <2>2, PushKeepsAmended
    <2>3. ASSUME NEW r \in Roles, OpenPull(r) PROVE bump'[q][v].amended
      BY <1>1, <2>3, OpenKeepsAmended
    <2>4. CASE StartJob \/ EndCheck \/ EndBump \/ EndJob \/ JobDies
      BY <1>1, <2>4 DEF StartJob, EndCheck, EndBump, EndJob, JobDies
    <2>5. ASSUME NEW r \in Roles,
                 \/ CheckApt(r) \/ CheckFails(r) \/ CheckHeld(r) \/ CheckFound(r)
                 \/ NotBehind(r) \/ Look(r) \/ LookFails(r)
                 \/ OpenFails(r) \/ GiveUp(r)
          PROVE  bump' = bump
      BY <2>5
      DEF CheckApt, CheckFails, CheckHeld, CheckFound, CheckDone, CheckAt,
          NotBehind, Look, LookFails, OpenFails, GiveUp
    <2> QED
      BY <1>1, <2>1, <2>2, <2>3, <2>4, <2>5 DEF Next, JobStep
  <1>2. Inv /\ [Next]_vars =>
           [\A r \in Roles, v \in Versions :
               bump[r][v].amended /\ bump[r][v].branch /\ bump'[r][v].branch
                   => bump'[r][v].amended]_bump
    BY <1>1 DEF vars
  <1> QED
    BY <1>2, AlwaysInv, PTL DEF Spec, AmendedKept

=============================================================================
